------------------------------ MODULE IkdRebuild -------------------------------
(* KD_TREE against its rebuild thread.  The LIO thread adds and deletes points   *)
(* and searches; multi_thread_rebuild copies a subtree, builds it anew without   *)
(* a lock and puts it in the place of the old one, after it has repeated there   *)
(* what the LIO thread logged in the meantime.                                   *)
(*                                                                               *)
(* The tree is the bag of the points that are not deleted, in two parts: the     *)
(* subtree `inner', which takes the points in Below, and the rest.  What a       *)
(* rebuild can be asked for is the inner subtree or the whole tree (`root').     *)
(* Shape, flags and the search within a part are the subject of IkdTree; whether *)
(* a subtree is out of balance is a choice.  The points lie on a line.           *)

EXTENDS Integers, Sequences, FiniteSets

CONSTANTS
    Points,         \* the places of points
    Below,          \* the places that lie in the inner subtree
    Size,           \* downsample_size
    Copies,         \* bound: points at one place
    MaxOps,         \* bound: operations of the LIO thread
    Readers,        \* the OpenMP threads that search
    Null

ASSUME BelowAssumption == Below \subseteq Points /\ Points \subseteq Nat
ASSUME ReadersAssumption == IsFiniteSet(Readers) /\ "range" \notin Readers
ASSUME NumbersAssumption == Size \in Nat \ {0} /\ {Copies, MaxOps} \subseteq Nat

VARIABLES
    above, below,   \* the two parts, as they are reached from Root_Node
    covered,        \* the root is tree_deleted and has not pushed it down to inner
    ptr,            \* Rebuild_Ptr
    flag,           \* rebuild_flag
    log,            \* Rebuild_Logger: what one critical section logs is one item
    working,        \* who holds working_flag_mutex between two steps
    counter,        \* search_mutex_counter
    rpc,            \* where the rebuild thread is
    copy,           \* Rebuild_PCL_Storage, then the subtree built from it
    mpc,            \* where the LIO thread is
    todo,           \* what it has still to do of its operation
    ref,            \* what every search points to, and how it came there
    ops,            \* operations so far
    expected,       \* what the operations so far leave in a tree
    late, unseen    \* the two ways in which an operation goes astray

tree == <<above, below, covered>>
rebuild == <<rpc, copy>>
main == <<mpc, todo, ops>>
ghosts == <<expected, late, unseen>>
vars == <<tree, ptr, flag, log, working, counter, rebuild, main, ref, ghosts>>

-------------------------------------------------------------------------------
(* Points and what is done to them.                                            *)

Empty == [p \in Points |-> 0]
Plus(a, b) == [p \in Points |-> a[p] + b[p]]
Only(a, S) == [p \in Points |-> IF p \in S THEN a[p] ELSE 0]
Content == IF covered THEN above ELSE Plus(above, below)

Box(a, b) == {q \in Points : a <= q /\ q <= b}

\* The box a point is downsampled in, and the distance from its centre (doubled).
Voxel(p) == {q \in Points : q \div Size = p \div Size}
FromCentre(p) == LET d == 2 * (p % Size) + 1 - Size IN IF d < 0 THEN -d ELSE d

\* One call on the tree: a box deleted, a point added, the deletion of the root
\* pushed down, the range search that goes before an insertion with downsampling.
Kinds == {"box", "add", "push", "range"}
Call(kind, box, p) == [kind |-> kind, box |-> box, p |-> p]
Calls == [kind : Kinds, box : SUBSET Points, p : Points \cup {Null}]

Done(bag, call) ==
    IF call.kind = "add" THEN [bag EXCEPT ![call.p] = @ + 1] ELSE Only(bag, Points \ call.box)

\* What an operation does on its way, and what is logged of it as one item: an
\* insertion, a deletion, or one before the other.
Operations == {calls \in Seq(Calls) : Len(calls) <= 2}

DoneAll(bag, calls) ==
    CASE Len(calls) = 0 -> bag
      [] Len(calls) = 1 -> Done(bag, calls[1])
      [] Len(calls) = 2 -> Done(Done(bag, calls[1]), calls[2])

\* Add_Points with downsampling: the point nearest to the centre of the box, the
\* new one unless another is nearer, takes the place of all in the box.
Nearest(p, found) ==
    LET best == {q \in found : \A r \in found : FromCentre(q) <= FromCentre(r)} IN
    IF found = {} \/ \A q \in best : FromCentre(p) <= FromCentre(q) THEN {p} ELSE best

Insertion(p, result, number) ==
    IF number > 1 \/ result = p
    THEN (IF number > 0 THEN <<Call("box", Voxel(p), Null)>> ELSE <<>>) \o <<Call("add", {}, result)>>
    ELSE <<>>

-------------------------------------------------------------------------------

Nowhere == [how |-> "no", at |-> "tree"]

\* Searches: those of the OpenMP threads, and the range search of Add_Points.
Searches == Readers \cup {"range"}

TypeOK ==
    /\ {above, below, copy, expected} \subseteq [Points -> Nat]
    /\ {covered, flag, late, unseen} \subseteq BOOLEAN
    /\ ptr \in {"null", "inner", "root"}
    /\ log \in Seq(Operations) /\ todo \in Operations
    /\ working \in {"none", "rebuild"}
    /\ counter \in (-1)..Cardinality(Readers)
    /\ counter = -1 <=> rpc \in {"flatten", "swap", "swapped"}
    /\ ops \in 0..MaxOps
    /\ rpc \in {"idle", "locked", "search", "flatten", "build", "lock", "replay", "run",
                "wait", "swap", "swapped", "flag", "free", "crashed"}
    /\ mpc \in {"ready", "search", "call", "range", "whole", "inner", "check"}
    /\ ref \in [Searches -> [how : {"no", "look", "counted", "plain", "held", "done"},
                             at : {"tree", "old", "freed"}]]

Init ==
    /\ \E bag \in [Points -> {0, 1}] :
        /\ above = Only(bag, Points \ Below) /\ below = Only(bag, Below)
        /\ expected = bag
    /\ covered = FALSE /\ ptr = "null" /\ flag = FALSE /\ log = <<>>
    /\ working = "none" /\ counter = 0
    /\ rpc = "idle" /\ copy = Empty
    /\ mpc = "ready" /\ todo = <<>> /\ ops = 0
    /\ ref = [s \in Searches |-> Nowhere]
    /\ late = FALSE /\ unseen = FALSE

-------------------------------------------------------------------------------
(* The LIO thread.  An operation on the whole tree looks once whether the root   *)
(* is being rebuilt: if so it holds the lock for all of its calls, if not it     *)
(* goes down without one and takes it only where it meets the subtree.           *)

Path == IF ptr = "root" THEN "whole" ELSE "call"

Start(calls) ==
    /\ mpc = "ready" /\ rpc # "crashed"
    /\ ops < MaxOps /\ ops' = ops + 1
    /\ todo' = calls
    /\ UNCHANGED <<tree, ptr, flag, log, working, counter, rebuild, late, unseen>>

\* Add_Points without downsampling.
AddPoint(p) ==
    /\ Start(<<Call("add", {}, p)>>) /\ mpc' = Path
    /\ expected[p] < Copies /\ Content[p] < Copies
    /\ expected' = Done(expected, Call("add", {}, p))
    /\ UNCHANGED ref

\* Delete_Point_Boxes, for one box.
DeleteBox(a, b) ==
    /\ a <= b
    /\ Start(<<Call("box", Box(a, b), Null)>>) /\ mpc' = Path
    /\ expected' = Done(expected, Call("box", Box(a, b), Null))
    /\ UNCHANGED ref

\* Add_Points with downsampling begins with Search_by_range.
AddDownsampled(p) ==
    /\ Start(<<Call("range", {}, p)>>) /\ mpc' = "call"
    /\ UNCHANGED <<expected, ref>>

\* Push_Down at the root, and the range search under it: no lock when the root is
\* rebuilt, search_flag_mutex for the inner subtree.
BeginRange ==
    /\ mpc = "call" /\ todo # <<>> /\ Head(todo).kind = "range" /\ ~covered
    /\ ref' = [ref EXCEPT !["range"] = [how |-> IF ptr = "inner" THEN "held" ELSE "plain", at |-> "tree"]]
    /\ mpc' = "range"
    /\ UNCHANGED <<tree, ptr, flag, log, working, counter, rebuild, todo, ops, ghosts>>

EndRange ==
    /\ mpc = "range"
    /\ \E p \in {Head(todo).p} :
        LET found == {q \in Voxel(p) : Content[q] > 0}
            number == IF found = {} THEN 0
                      ELSE IF Cardinality(found) = 1 /\ \A q \in found : Content[q] = 1 THEN 1 ELSE 2
        IN  \E result \in Nearest(p, found) :
                /\ todo' = Insertion(p, result, number)
                /\ expected' = DoneAll(expected, Insertion(p, result, number))
    /\ ref' = [ref EXCEPT !["range"] = Nowhere]
    /\ mpc' = IF todo' = <<>> THEN "ready" ELSE Path
    /\ UNCHANGED <<tree, ptr, flag, log, working, counter, rebuild, ops, late, unseen>>

\* The push-down has to come before the next call can go on.
NeedsPush == covered /\ Head(todo).kind \in {"add", "range"}

PushFirst ==
    /\ mpc = "call" /\ todo # <<>> /\ NeedsPush
    /\ todo' = <<Call("push", Points, Null)>> \o todo
    /\ UNCHANGED <<tree, ptr, flag, log, working, counter, rebuild, mpc, ops, ref, ghosts>>

\* A call meets the inner subtree: every box, every push-down, the points of Below.
MeetsInner(call) == call.kind # "add" \/ call.p \in Below

\* The box takes every point left: the root is marked, nothing goes down.
Covers(call) == call.kind = "box" /\ \A p \in Points \ call.box : Content[p] = 0

\* The part of the tree a call changes without a lock is being rebuilt.
GoesUnseen == ptr = "root" /\ rpc \in {"build", "lock", "replay", "run", "wait", "swap"}

AboveDone(call) ==
    IF call.kind = "add" /\ call.p \in Below THEN above ELSE Done(above, call)

Unlocked == UNCHANGED <<ptr, flag, log, working, counter, rebuild, ops, ref, expected, late>>

\* A box on a tree that is deleted already.
NothingLeft ==
    /\ mpc = "call" /\ todo # <<>> /\ Head(todo).kind = "box" /\ covered
    /\ todo' = Tail(todo) /\ mpc' = IF Tail(todo) = <<>> THEN "ready" ELSE "call"
    /\ Unlocked /\ UNCHANGED <<tree, unseen>>

CoverRoot ==
    /\ mpc = "call" /\ todo # <<>> /\ ~covered /\ Covers(Head(todo))
    /\ above' = Empty /\ covered' = TRUE
    /\ unseen' = (unseen \/ GoesUnseen)
    /\ todo' = Tail(todo) /\ mpc' = IF Tail(todo) = <<>> THEN "ready" ELSE "call"
    /\ Unlocked /\ UNCHANGED below

\* The call goes through the root; the inner subtree is not the one to be rebuilt,
\* or the call does not come there.
ThroughRoot ==
    /\ mpc = "call" /\ todo # <<>> /\ ~NeedsPush
    /\ LET call == Head(todo) IN
        /\ call.kind \in {"push", "add"} \/ (call.kind = "box" /\ ~covered /\ ~Covers(call))
        /\ above' = AboveDone(call)
        /\ IF ptr = "inner" /\ MeetsInner(call)
           THEN mpc' = "inner" /\ UNCHANGED <<below, covered, unseen>>
           ELSE /\ below' = IF MeetsInner(call) THEN Done(below, call) ELSE below
                /\ covered' = IF call.kind = "push" THEN FALSE ELSE covered
                /\ unseen' = (unseen \/ GoesUnseen)
                /\ mpc' = "check"
    /\ Unlocked /\ UNCHANGED todo

\* Mutant: what happens during a rebuild is not logged.
Log_Forgets(calls) == UNCHANGED <<log, late>>

Log(calls) ==
    /\ log' = IF flag THEN Append(log, calls) ELSE log
    /\ late' = (late \/ (flag /\ ptr = "null"))

\* The inner subtree under working_flag_mutex, and the log while it is held.
InInner ==
    /\ mpc = "inner" /\ working = "none"
    /\ below' = Done(below, Head(todo))
    /\ covered' = IF Head(todo).kind = "push" THEN FALSE ELSE covered
    /\ Log(<<Head(todo)>>)
    /\ mpc' = "check"
    /\ UNCHANGED <<above, ptr, flag, working, counter, rebuild, todo, ops, ref, expected, unseen>>

\* The whole operation under working_flag_mutex; a rebuild of the root may have
\* ended while the thread waited for it.
InWhole ==
    /\ mpc = "whole" /\ working = "none"
    /\ LET all == DoneAll(Content, todo) IN
        /\ above' = Only(all, Points \ Below) /\ below' = Only(all, Below)
    /\ covered' = FALSE
    /\ Log(todo)
    /\ todo' = <<>> /\ mpc' = "ready"
    /\ UNCHANGED <<ptr, flag, working, counter, rebuild, ops, ref, expected, unseen>>

\* Criterion_Check and Rebuild on the way back, where a rebuild is allowed: the
\* request is dropped while the rebuild thread holds rebuild_ptr_mutex_lock, and
\* only a larger subtree replaces one already asked for.
CanAsk(which) ==
    /\ rpc \in {"idle", "crashed"}
    /\ \/ which = "inner" /\ ptr = "null" /\ \E p \in Points : below[p] > 0
       \/ which = "root" /\ ptr \in {"null", "inner"} /\ \E p \in Points : Content[p] > 0

Check ==
    /\ mpc = "check"
    /\ \/ UNCHANGED ptr
       \/ \E which \in {"inner", "root"} :
            Head(todo).kind # "push" /\ CanAsk(which) /\ ptr' = which
    /\ todo' = Tail(todo) /\ mpc' = IF Tail(todo) = <<>> THEN "ready" ELSE "call"
    /\ UNCHANGED <<tree, flag, log, working, counter, rebuild, ops, ref, ghosts>>

-------------------------------------------------------------------------------
(* Nearest_Search, in parallel threads while the LIO thread waits for them.      *)

BeginSearch ==
    /\ mpc = "ready" /\ ptr # "null" /\ rpc # "crashed"
    /\ mpc' = "search"
    /\ ops < MaxOps /\ ops' = ops + 1
    /\ UNCHANGED <<tree, ptr, flag, log, working, counter, rebuild, todo, ref, ghosts>>

\* The distance of the box of the inner subtree is taken before it is entered.
Look(r) ==
    /\ mpc = "search" /\ ptr = "inner" /\ ref[r].how = "no"
    /\ ref' = [ref EXCEPT ![r] = [how |-> "look", at |-> "tree"]]
    /\ UNCHANGED <<tree, ptr, flag, log, working, counter, rebuild, main, ghosts>>

Enter(r) ==
    /\ mpc = "search" /\ ref[r].how \in {"no", "look"} /\ (ref[r].how = "no" => ptr = "root")
    /\ counter # -1
    /\ counter' = counter + 1
    /\ ref' = [ref EXCEPT ![r] = [how |-> "counted", at |-> "tree"]]
    /\ UNCHANGED <<tree, ptr, flag, log, working, rebuild, main, ghosts>>

\* Mutant: the count goes down twice.
Leave_Twice(r) ==
    /\ mpc = "search" /\ ref[r].how = "counted"
    /\ counter' = counter - 2
    /\ ref' = [ref EXCEPT ![r].how = "done"]
    /\ UNCHANGED <<tree, ptr, flag, log, working, rebuild, main, ghosts>>

Leave(r) ==
    /\ mpc = "search" /\ ref[r].how = "counted"
    /\ counter' = counter - 1
    /\ ref' = [ref EXCEPT ![r].how = "done"]
    /\ UNCHANGED <<tree, ptr, flag, log, working, rebuild, main, ghosts>>

\* The rebuild has ended before this thread came to it.
PassBy(r) ==
    /\ mpc = "search" /\ ref[r].how = "no" /\ ptr = "null"
    /\ ref' = [ref EXCEPT ![r].how = "done"]
    /\ UNCHANGED <<tree, ptr, flag, log, working, counter, rebuild, main, ghosts>>

EndSearch ==
    /\ mpc = "search" /\ \A r \in Readers : ref[r].how = "done"
    /\ mpc' = "ready" /\ ref' = [s \in Searches |-> Nowhere]
    /\ UNCHANGED <<tree, ptr, flag, log, working, counter, rebuild, todo, ops, ghosts>>

-------------------------------------------------------------------------------
(* multi_thread_rebuild.                                                       *)

\* search_flag_mutex is held while Search_by_range is in the inner subtree.
SearchFlagFree == ref["range"].how # "held"

Unmoved == UNCHANGED <<above, below, covered, main, expected, late, unseen>>

LockPtr ==
    /\ rpc = "idle" /\ ptr # "null" /\ rpc' = "locked"
    /\ Unmoved /\ UNCHANGED <<ptr, flag, log, working, counter, copy, ref>>

LockWorking ==
    /\ rpc = "locked" /\ working = "none"
    /\ working' = "rebuild" /\ flag' = TRUE /\ rpc' = "search"
    /\ Unmoved /\ UNCHANGED <<ptr, log, counter, copy, ref>>

LockSearch ==
    /\ rpc = "search" /\ SearchFlagFree /\ counter = 0
    /\ counter' = -1 /\ rpc' = "flatten"
    /\ Unmoved /\ UNCHANGED <<ptr, flag, log, working, copy, ref>>

Flatten ==
    /\ rpc = "flatten" /\ SearchFlagFree
    /\ copy' = IF ptr = "root" THEN Content ELSE below
    /\ counter' = 0 /\ working' = "none" /\ rpc' = "build"
    /\ Unmoved /\ UNCHANGED <<ptr, flag, log, ref>>

\* BuildTree; with nothing to build from, new_root_node stays null and is
\* dereferenced when the sizes are compared.
Build ==
    /\ rpc = "build"
    /\ rpc' = IF copy = Empty THEN "crashed" ELSE "lock"
    /\ Unmoved /\ UNCHANGED <<ptr, flag, log, working, counter, copy, ref>>

LockReplay ==
    /\ rpc = "lock" /\ working = "none"
    /\ working' = "rebuild" /\ rpc' = "replay"
    /\ Unmoved /\ UNCHANGED <<ptr, flag, log, counter, copy, ref>>

\* One operation is taken from the log, the locks are released, it is repeated on
\* the new subtree, and they are taken again.
Replay ==
    /\ rpc = "replay" /\ log # <<>>
    /\ copy' = DoneAll(copy, Head(log)) /\ log' = Tail(log)
    /\ working' = "none" /\ rpc' = "lock"
    /\ Unmoved /\ UNCHANGED <<ptr, flag, counter, ref>>

\* Mutant: the new subtree is put in its place under the searches.
LockSwap_UnderSearches ==
    /\ rpc = "replay" /\ log = <<>> /\ SearchFlagFree
    /\ rpc' = "swap"
    /\ Unmoved /\ UNCHANGED <<ptr, flag, log, working, counter, copy, ref>>

LockSwap ==
    /\ rpc = "replay" /\ log = <<>> /\ SearchFlagFree /\ counter = 0
    /\ counter' = -1 /\ rpc' = "swap"
    /\ Unmoved /\ UNCHANGED <<ptr, flag, log, working, copy, ref>>

Swap ==
    /\ rpc = "swap"
    /\ IF ptr = "root"
       THEN above' = Only(copy, Points \ Below) /\ below' = Only(copy, Below) /\ covered' = FALSE
       ELSE below' = copy /\ UNCHANGED <<above, covered>>
    /\ ref' = [s \in Searches |-> IF ref[s].how \in {"no", "done"} THEN ref[s] ELSE [ref[s] EXCEPT !.at = "old"]]
    /\ rpc' = "swapped"
    /\ UNCHANGED <<ptr, flag, log, working, counter, copy, main, ghosts>>

\* Mutant: the searches stay locked out.
UnlockSwap_KeepsSearches ==
    /\ rpc = "swapped" /\ SearchFlagFree
    /\ ptr' = "null" /\ working' = "none" /\ rpc' = "flag"
    /\ Unmoved /\ UNCHANGED <<flag, log, counter, copy, ref>>

UnlockSwap ==
    /\ rpc = "swapped" /\ SearchFlagFree
    /\ counter' = 0 /\ ptr' = "null" /\ working' = "none" /\ rpc' = "flag"
    /\ Unmoved /\ UNCHANGED <<flag, log, copy, ref>>

ClearFlag ==
    /\ rpc = "flag" /\ flag' = FALSE /\ rpc' = "free"
    /\ Unmoved /\ UNCHANGED <<ptr, log, working, counter, copy, ref>>

\* delete_tree_nodes on the old subtree.
Free ==
    /\ rpc = "free"
    /\ ref' = [s \in Searches |-> IF ref[s].at = "old" THEN [ref[s] EXCEPT !.at = "freed"] ELSE ref[s]]
    /\ copy' = Empty /\ rpc' = "idle"
    /\ Unmoved /\ UNCHANGED <<ptr, flag, log, working, counter>>

-------------------------------------------------------------------------------

MainStep ==
    \/ BeginRange \/ EndRange \/ PushFirst \/ NothingLeft \/ CoverRoot \/ ThroughRoot
    \/ Check \/ EndSearch

MainLocks == InInner \/ InWhole

RebuildStep ==
    \/ LockPtr \/ LockSearch \/ Flatten \/ Build \/ Replay \/ LockSwap \/ Swap
    \/ UnlockSwap \/ ClearFlag \/ Free

RebuildLocks == LockWorking \/ LockReplay

ReaderStep(r) == Look(r) \/ Enter(r) \/ Leave(r) \/ PassBy(r)

Next ==
    \/ rpc # "crashed" /\ MainStep
    \/ rpc # "crashed" /\ MainLocks
    \/ \E p \in Points : AddPoint(p) \/ AddDownsampled(p)
    \/ \E a, b \in Points : DeleteBox(a, b)
    \/ BeginSearch
    \/ \E r \in Readers : rpc # "crashed" /\ ReaderStep(r)
    \/ RebuildStep \/ RebuildLocks

\* A thread that can run does; a mutex that is free again and again is got.
Fairness ==
    /\ WF_vars(MainStep) /\ SF_vars(MainLocks)
    /\ WF_vars(RebuildStep) /\ SF_vars(RebuildLocks)
    /\ \A r \in Readers : SF_vars(ReaderStep(r))

Spec == Init /\ [][Next]_vars /\ Fairness

-------------------------------------------------------------------------------

\* The rebuild changes the shape of the tree and not what is in it: between two
\* operations it holds what the operations leave, unless one of them was logged
\* after its rebuild had ended, or went to a root under rebuild without a lock.
ContentKept ==
    mpc = "ready" /\ ~late /\ ~unseen /\ rpc # "crashed" => Content = expected

\* A search is left in freed nodes only where the code takes no count: when it has
\* looked at the box of the subtree from above, and in the range search of an
\* insertion while the whole tree is rebuilt.
CountedSearchIsSafe ==
    \A s \in Searches : ref[s].at = "freed" => ref[s].how \in {"look", "plain"}

\* The empty log the rebuild thread checks for (`ERROR!!!') when it begins.
LogIsEmptyAtStart == rpc = "search" => log = <<>>

\* Every operation and every search of the LIO thread ends, whatever the rebuild
\* thread is doing, unless the process has crashed.
OperationsEnd == mpc # "ready" ~> (mpc = "ready" \/ rpc = "crashed")
===============================================================================
