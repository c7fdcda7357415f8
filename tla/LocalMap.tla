------------------------------- MODULE LocalMap -------------------------------
(* LocalMap: the box of the world the ikd-tree keeps, how it follows the lidar and  *)
(* what is cut off behind it (lasermap_fov_segment).  Coordinates are integers; a   *)
(* length of the code that has a fraction is scaled up until it has none.          *)

EXTENDS Space, FiniteSetsExt

CONSTANTS
    CubeLen,        \* cube_len
    DetRange,       \* det_range
    MaxStride,      \* how far the lidar gets between two scans, per axis
    Strides         \* the ways it may go

ASSUME MapAssumption ==
    /\ {CubeLen, DetRange} \subseteq Nat \ {0}
    /\ CubeLen % 2 = 0 /\ DetRange % 2 = 0
    /\ (9 * CubeLen - 27 * DetRange) % 20 = 0

VARIABLE localMap   \* pos_LiD and LocalMap_Points; the box before, and cub_needrm

\* MOV_THRESHOLD is 1.5.
Edge == (3 * DetRange) \div 2

MoveDist ==
    LET most == (9 * (CubeLen - 2 * Edge)) \div 20
        least == DetRange \div 2
    IN  IF most > least THEN most ELSE least

\* The lidar never gets past the edge, or farther than the box, in one step; and the
\* box is wide enough not to be near on both of its sides.
ASSUME StrideAssumption ==
    /\ MaxStride \in Nat /\ Strides \subseteq -MaxStride..MaxStride
    /\ MaxStride <= Edge /\ MaxStride <= MoveDist
    /\ 7 * DetRange < 2 * CubeLen

BoxAround(pos) ==
    [lo |-> [d \in Dims |-> pos[d] - CubeLen \div 2],
     hi |-> [d \in Dims |-> pos[d] + CubeLen \div 2]]

\* The side of the box the lidar is close to, in one axis; the lower one first.
NearSide(box, pos, d) ==
    IF Apart(pos[d], box.lo[d]) <= Edge THEN "low"
    ELSE IF Apart(pos[d], box.hi[d]) <= Edge THEN "high"
    ELSE "none"

Shift(box, pos, d) ==
    CASE NearSide(box, pos, d) = "low" -> -MoveDist
      [] NearSide(box, pos, d) = "high" -> MoveDist
      [] OTHER -> 0

Moved(box, pos) ==
    [lo |-> [d \in Dims |-> box.lo[d] + Shift(box, pos, d)],
     hi |-> [d \in Dims |-> box.hi[d] + Shift(box, pos, d)]]

\* Mutant: the slab is cut off on the side the lidar drives to.
Slab_WrongSide(box, pos, d) ==
    IF NearSide(box, pos, d) = "low"
    THEN [box EXCEPT !.hi[d] = box.lo[d] + MoveDist]
    ELSE [box EXCEPT !.lo[d] = box.hi[d] - MoveDist]

\* What is removed because of one axis: the far slab of the old box.
Slab(box, pos, d) ==
    IF NearSide(box, pos, d) = "low"
    THEN [box EXCEPT !.lo[d] = box.hi[d] - MoveDist]
    ELSE [box EXCEPT !.hi[d] = box.lo[d] + MoveDist]

RemovedSlabs(box, pos) ==
    {Slab(box, pos, d) : d \in {e \in Dims : NearSide(box, pos, e) # "none"}}

-------------------------------------------------------------------------------

MapInit ==
    LET pos == [d \in Dims |-> 0] IN
    localMap = [pos |-> pos, box |-> BoxAround(pos), before |-> BoxAround(pos), removed |-> {}]

\* A scan: the lidar has moved, the box follows.
MapStep ==
    \E stride \in [Dims -> Strides] :
        LET pos == [d \in Dims |-> localMap.pos[d] + stride[d]] IN
        localMap' = [pos |-> pos, box |-> Moved(localMap.box, pos), before |-> localMap.box,
                     removed |-> RemovedSlabs(localMap.box, pos)]

MapSpec == MapInit /\ [][MapStep]_localMap

\* The places of a box, and some around it.
Surroundings(box) == [Dims -> Min({box.lo[d] : d \in Dims})..Max({box.hi[d] : d \in Dims})]

(* The local map follows: the lidar stays inside of the box and at more than the     *)
(* reach of a stride from its sides; nothing is removed while the box stays, and when *)
(* it moves, exactly the part of the old box that the new one leaves out.           *)
MapFollows ==
    /\ \A d \in Dims : /\ localMap.pos[d] - localMap.box.lo[d] > MaxStride
                      /\ localMap.box.hi[d] - localMap.pos[d] > MaxStride
    /\ localMap.box = localMap.before => localMap.removed = {}
    /\ localMap.box # localMap.before => \A cell \in Surroundings(localMap.before) :
          Within(cell, localMap.before) =>
              (~Within(cell, localMap.box) <=> \E slab \in localMap.removed : Within(cell, slab))
===============================================================================
