--------------------------------- MODULE Space ---------------------------------
(* Space: points are tuples of coordinates; a box is a pair of corners and holds the  *)
(* points from its lower corner, included, to its upper, excluded (BoxPointType).     *)

EXTENDS Integers

CONSTANT Axes   \* the number of coordinates: 3

ASSUME AxesAssumption == Axes \in Nat \ {0}

Dims == 1..Axes

Apart(a, b) == IF a > b THEN a - b ELSE b - a

Within(p, box) == \A d \in Dims : box.lo[d] <= p[d] /\ p[d] < box.hi[d]
===============================================================================
