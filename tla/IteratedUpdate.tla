---------------------------- MODULE IteratedUpdate ----------------------------
(* IteratedUpdate: the loop of update_iterated_dyn_share_modified, which corrects   *)
(* the filter with one scan.  What a pass finds is an input: whether a plane fits    *)
(* at least one point, and whether the correction was below the limit; kept is when  *)
(* neighbours are searched again, when the state and the covariance are written and  *)
(* when the loop ends.                                                             *)

EXTENDS Naturals, FiniteSets

CONSTANT MaxIter    \* maximum_iter, which run sets to 4

ASSUME IterAssumption == MaxIter \in Nat \ {0}

VARIABLE update     \* the loop, as far as it has come

\* Passes are numbered from -1 in the code, from 1 here: pass MaxIter + 1 is the last.
LastPass == MaxIter + 1

\* searched: passes in which the neighbours were looked up; moved, covered: passes
\* that wrote x_ and P_; dark: passes without an effective point.
Start ==
    [pass |-> 1, converge |-> TRUE, t |-> 0, done |-> LastPass < 1,
     searched |-> {}, moved |-> {}, covered |-> {}, dark |-> {}]

Searched(u) == IF u.converge THEN u.searched \cup {u.pass} ELSE u.searched

\* No effective point: neither state nor flags change.
DarkPass(u) ==
    [u EXCEPT !.searched = Searched(u), !.dark = @ \cup {u.pass},
              !.pass = @ + 1, !.done = u.pass = LastPass]

\* Before the last pass a loop that has not converged is made to search again.
Forced(u, t) == t = 0 /\ u.pass = LastPass - 1

\* Mutant: one small correction is enough.
Ends_AfterOne(u, t) == t > 0 \/ u.pass = LastPass

Ends(u, t) == t > 1 \/ u.pass = LastPass

LitPass(u, small) ==
    LET t == u.t + (IF small THEN 1 ELSE 0) IN
    [u EXCEPT !.searched = Searched(u), !.moved = @ \cup {u.pass},
              !.t = t, !.converge = small \/ Forced(u, t),
              !.covered = IF Ends(u, t) THEN @ \cup {u.pass} ELSE @,
              !.pass = @ + 1, !.done = Ends(u, t)]

-------------------------------------------------------------------------------

UpdateInit == update = Start

UpdateStep ==
    /\ ~update.done
    /\ \/ update' = DarkPass(update)
       \/ \E small \in BOOLEAN : update' = LitPass(update, small)

UpdateSpec == UpdateInit /\ [][UpdateStep]_update

(* The covariance is written at most once, by the pass that ends the loop; a call   *)
(* that found points in every pass has written it and has looked its neighbours up   *)
(* a second time.  What is left is a last pass without points: then the state has    *)
(* moved and the covariance has not.                                             *)
UpdateEnds ==
    update.done =>
        /\ update.covered \subseteq {update.pass - 1} /\ update.covered \subseteq update.moved
        /\ update.dark = {} => update.covered # {} /\ Cardinality(update.searched) > 1
        /\ update.covered = {} => LastPass \in update.dark
===============================================================================
