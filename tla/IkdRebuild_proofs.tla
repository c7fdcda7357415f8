--------------------------- MODULE IkdRebuild_proofs ----------------------------
(* No counted search is left in a tree that is freed, for any number of parallel *)
(* searches and any operations of the LIO thread.                                *)

EXTENDS IkdRebuild, FiniteSetTheorems, TLAPS

Counted == {r \in Readers : ref[r].how = "counted"}

Locked == {"flatten", "swap", "swapped"}

\* The places of the searches, and what holds them in the tree.
RefInv ==
    /\ ref \in [Searches -> [how : {"no", "look", "counted", "plain", "held", "done"},
                             at : {"tree", "old", "freed"}]]
    /\ \A r \in Readers : ref[r].how \in {"no", "look", "counted", "done"}
    /\ ref["range"].how \in {"no", "plain", "held"}
    /\ \A s \in Searches : ref[s].how \in {"no", "done", "counted"} => ref[s].at = "tree"
    /\ ref["range"].how = "held" =>
          ref["range"].at = "tree" \/ (ref["range"].at = "old" /\ rpc = "swapped")

\* search_mutex_counter counts the searches, or says that none is left.
CounterInv ==
    IF rpc \in Locked THEN counter = -1 /\ Counted = {} ELSE counter = Cardinality(Counted)

SearchInv == RefInv /\ CounterInv

-------------------------------------------------------------------------------

LEMMA CountedFinite == IsFiniteSet(Counted) /\ Cardinality(Counted) \in Nat
<1>1. IsFiniteSet(Counted)
  BY ReadersAssumption, FS_Subset DEF Counted
<1>. QED
  BY <1>1, FS_CardinalityType

LEMMA SearchInvInit == Init => SearchInv
<1>. SUFFICES ASSUME Init PROVE SearchInv
  OBVIOUS
<1>1. RefInv
  BY DEF Init, RefInv, Nowhere, Searches
<1>2. Counted = {}
  BY DEF Init, Counted, Nowhere, Searches
<1>3. CounterInv
  BY <1>2, FS_EmptySet DEF Init, CounterInv, Locked
<1>. QED
  BY <1>1, <1>3 DEF SearchInv

\* The LIO thread: its range search comes and goes, the others end together.
LEMMA SearchInvMain ==
  ASSUME SearchInv, \/ MainStep \/ MainLocks \/ BeginSearch
                    \/ \E p \in Points : AddPoint(p) \/ AddDownsampled(p)
                    \/ \E a, b \in Points : DeleteBox(a, b)
  PROVE  SearchInv'
<1>. USE ReadersAssumption DEF SearchInv, Searches, tree, rebuild, main, ghosts
<1>1. CASE BeginRange \/ EndRange
  <2>1. UNCHANGED <<rpc, counter>>
    BY <1>1 DEF BeginRange, EndRange
  <2>2. \A r \in Readers : ref'[r] = ref[r]
    BY <1>1 DEF BeginRange, EndRange, RefInv
  <2>3. Counted' = Counted
    BY <2>2 DEF Counted
  <2>4. RefInv'
    BY <1>1, <2>1 DEF BeginRange, EndRange, RefInv, Nowhere
  <2>. QED
    BY <2>1, <2>3, <2>4 DEF CounterInv
<1>2. CASE EndSearch
  <2>1. UNCHANGED <<rpc, counter>> /\ ref' = [s \in Searches |-> Nowhere]
    BY <1>2 DEF EndSearch
  <2>2. RefInv'
    BY <2>1 DEF RefInv, Nowhere
  <2>3. Counted = {} /\ Counted' = {}
    BY <1>2, <2>1 DEF EndSearch, Counted, Nowhere
  <2>. QED
    BY <2>1, <2>2, <2>3 DEF CounterInv
<1>3. CASE ~(BeginRange \/ EndRange \/ EndSearch)
  <2>1. UNCHANGED <<rpc, counter, ref>>
    BY <1>3 DEF MainStep, MainLocks, BeginSearch, AddPoint, AddDownsampled, DeleteBox, Start, PushFirst,
               NothingLeft, CoverRoot, ThroughRoot, Unlocked, Check, InInner, InWhole
  <2>. QED
    BY <2>1 DEF RefInv, CounterInv, Counted
<1>. QED
  BY <1>1, <1>2, <1>3

\* The parallel searches: one comes in only while the counter is not -1.
LEMMA SearchInvReader ==
  ASSUME SearchInv, NEW r \in Readers, ReaderStep(r)
  PROVE  SearchInv'
<1>. USE ReadersAssumption DEF SearchInv, Searches, tree, rebuild, main, ghosts
<1>1. UNCHANGED rpc
  BY DEF ReaderStep, Look, Enter, Leave, PassBy
<1>2. RefInv'
  BY <1>1 DEF ReaderStep, Look, Enter, Leave, PassBy, RefInv
<1>3. CASE Enter(r)
  <2>1. r \notin Counted /\ Counted' = Counted \cup {r}
    BY <1>3 DEF Enter, Counted, RefInv
  <2>2. counter # -1 /\ counter' = counter + 1
    BY <1>3 DEF Enter
  <2>3. Cardinality(Counted') = Cardinality(Counted) + 1
    BY <2>1, CountedFinite, FS_AddElement
  <2>. QED
    BY <1>1, <1>2, <2>2, <2>3, CountedFinite DEF CounterInv
<1>4. CASE Leave(r)
  <2>1. r \in Counted /\ Counted' = Counted \ {r}
    BY <1>4 DEF Leave, Counted, RefInv
  <2>2. counter' = counter - 1
    BY <1>4 DEF Leave
  <2>3. Cardinality(Counted') = Cardinality(Counted) - 1
    BY <2>1, CountedFinite, FS_RemoveElement
  <2>. QED
    BY <1>1, <1>2, <2>1, <2>2, <2>3, CountedFinite DEF CounterInv
<1>5. CASE Look(r) \/ PassBy(r)
  <2>1. Counted' = Counted /\ UNCHANGED counter
    BY <1>5 DEF Look, PassBy, Counted, RefInv
  <2>. QED
    BY <1>1, <1>2, <2>1 DEF CounterInv
<1>. QED
  BY <1>3, <1>4, <1>5 DEF ReaderStep

\* The rebuild thread: it swaps when nobody is counted, and frees what it has
\* swapped out when the range search has let go of it.
LEMMA SearchInvRebuild ==
  ASSUME SearchInv, RebuildStep \/ RebuildLocks
  PROVE  SearchInv'
<1>. USE ReadersAssumption DEF SearchInv, Searches, Locked, tree, rebuild, main, ghosts
<1>1. CASE LockPtr \/ LockWorking \/ Build \/ LockReplay \/ Replay \/ ClearFlag
  <2>1. UNCHANGED <<counter, ref>> /\ rpc \notin Locked /\ rpc' \notin Locked
    BY <1>1 DEF LockPtr, LockWorking, Build, LockReplay, Replay, ClearFlag
  <2>. QED
    BY <2>1 DEF RefInv, CounterInv, Counted
<1>2. CASE LockSearch \/ LockSwap
  <2>1. counter = 0 /\ counter' = -1 /\ UNCHANGED ref /\ rpc \notin Locked /\ rpc' \in Locked /\ rpc' # "swapped"
    BY <1>2 DEF LockSearch, LockSwap
  <2>2. Counted = {}
    BY <2>1, CountedFinite, FS_EmptySet DEF CounterInv
  <2>3. Counted' = {}
    BY <2>1, <2>2 DEF Counted
  <2>4. RefInv'
    BY <2>1 DEF RefInv
  <2>. QED
    BY <2>1, <2>3, <2>4 DEF CounterInv
<1>3. CASE Flatten \/ UnlockSwap
  <2>1. /\ counter' = 0 /\ UNCHANGED ref /\ rpc \in Locked /\ rpc' \notin Locked
        /\ ref["range"].how # "held"
    BY <1>3 DEF Flatten, UnlockSwap, SearchFlagFree
  <2>2. Counted' = {}
    BY <2>1 DEF CounterInv, Counted
  <2>3. CounterInv'
    BY <2>1, <2>2, FS_EmptySet DEF CounterInv
  <2>4. RefInv'
    BY <2>1 DEF RefInv
  <2>. QED
    BY <2>3, <2>4
<1>4. CASE Swap
  <2>1. /\ UNCHANGED counter /\ rpc = "swap" /\ rpc' = "swapped"
        /\ ref' = [s \in Searches |-> IF ref[s].how \in {"no", "done"} THEN ref[s]
                                      ELSE [ref[s] EXCEPT !.at = "old"]]
    BY <1>4 DEF Swap
  <2>2. \A s \in Searches : ref'[s].how = ref[s].how
    BY <2>1 DEF RefInv
  <2>3. counter = -1 /\ Counted = {} /\ Counted' = {}
    BY <2>1, <2>2 DEF CounterInv, Counted
  <2>4. \A s \in Searches : ref[s].how # "counted"
    BY <2>3 DEF Counted, RefInv
  <2>5. RefInv'
    BY <2>1, <2>2, <2>4 DEF RefInv
  <2>. QED
    BY <2>1, <2>3, <2>5 DEF CounterInv
<1>5. CASE Free
  <2>1. /\ UNCHANGED counter /\ rpc = "free" /\ rpc' = "idle"
        /\ ref' = [s \in Searches |-> IF ref[s].at = "old" THEN [ref[s] EXCEPT !.at = "freed"] ELSE ref[s]]
    BY <1>5 DEF Free
  <2>2. \A s \in Searches : ref'[s].how = ref[s].how
    BY <2>1 DEF RefInv
  <2>3. Counted' = Counted
    BY <2>2 DEF Counted
  <2>4. RefInv'
    BY <2>1, <2>2 DEF RefInv
  <2>. QED
    BY <2>1, <2>3, <2>4 DEF CounterInv
<1>. QED
  BY <1>1, <1>2, <1>3, <1>4, <1>5 DEF RebuildStep, RebuildLocks

\* A search is left in freed nodes only where no count is taken; the counter and
\* its -1 keep every other one out of the swap.  (multi_thread_rebuild, Search.)
THEOREM CountedSafe == Spec => []CountedSearchIsSafe
<1>1. SearchInv => CountedSearchIsSafe
  BY DEF SearchInv, RefInv, CountedSearchIsSafe, Searches
<1>2. SearchInv /\ [Next]_vars => SearchInv'
  <2>1. SearchInv /\ UNCHANGED vars => SearchInv'
    BY DEF SearchInv, RefInv, CounterInv, Counted, vars, rebuild
  <2>. QED
    BY <2>1, SearchInvMain, SearchInvReader, SearchInvRebuild DEF Next
<1>. QED
  BY <1>1, <1>2, SearchInvInit, PTL DEF Spec

-------------------------------------------------------------------------------
(* Points and what is done to them.                                            *)

Bags == [Points -> Nat]

LEMMA BagIs ==
  ASSUME NEW a \in Bags, NEW b \in Bags, NEW S
  PROVE  /\ Empty \in Bags /\ Plus(a, b) \in Bags /\ Only(a, S) \in Bags
         /\ Plus(a, Empty) = a /\ Plus(Empty, b) = b
         /\ Only(a, {}) = Empty /\ Only(a, Points) = a
         /\ Plus(Only(a, Points \ S), Only(a, S)) = a
<1>1. Empty \in Bags /\ Plus(a, b) \in Bags /\ Only(a, S) \in Bags
  BY DEF Empty, Plus, Only, Bags
<1>2. Plus(a, Empty) = a /\ Plus(Empty, b) = b
  BY DEF Empty, Plus, Bags
<1>3. Only(a, {}) = Empty /\ Only(a, Points) = a
  BY DEF Empty, Only, Bags
<1>4. Plus(Only(a, Points \ S), Only(a, S)) = a
  BY DEF Plus, Only, Bags
<1>. QED
  BY <1>1, <1>2, <1>3, <1>4

LEMMA DoneIs ==
  ASSUME NEW a \in Bags, NEW call \in Calls
  PROVE  /\ Done(a, call) \in Bags
         /\ \A p \in Points :
              Done(a, call)[p] = IF call.kind = "add" THEN (IF p = call.p THEN a[p] + 1 ELSE a[p])
                                 ELSE IF p \in call.box THEN 0 ELSE a[p]
<1>1. CASE call.kind = "add"
  <2>1. Done(a, call) = [a EXCEPT ![call.p] = a[call.p] + 1]
    BY <1>1 DEF Done
  <2>2. DOMAIN a = Points /\ \A p \in Points : a[p] \in Nat
    BY DEF Bags
  <2>3. \A p \in Points : Done(a, call)[p] = IF p = call.p THEN a[p] + 1 ELSE a[p]
    BY <2>1, <2>2
  <2>4. Done(a, call) \in Bags
    <3>1. Done(a, call) = [p \in Points |-> IF p = call.p THEN a[p] + 1 ELSE a[p]]
      BY <2>1, <2>2
    <3>. QED
      BY <2>2, <3>1 DEF Bags
  <2>. QED
    BY <1>1, <2>3, <2>4
<1>2. CASE call.kind # "add"
  <2>1. Done(a, call) = [p \in Points |-> IF p \in Points \ call.box THEN a[p] ELSE 0]
    BY <1>2 DEF Done, Only
  <2>. QED
    BY <1>2, <2>1 DEF Bags
<1>. QED
  BY <1>1, <1>2

\* A call that is no insertion is done to the two parts, an insertion to one.
LEMMA DoneToParts ==
  ASSUME NEW a \in Bags, NEW b \in Bags, NEW call \in Calls
  PROVE  /\ call.kind # "add" => Done(Plus(a, b), call) = Plus(Done(a, call), Done(b, call))
         /\ call.kind = "add" => /\ Done(Plus(a, b), call) = Plus(Done(a, call), b)
                                 /\ Done(Plus(a, b), call) = Plus(a, Done(b, call))
<1>1. Plus(a, b) \in Bags /\ Done(a, call) \in Bags /\ Done(b, call) \in Bags
  BY BagIs, DoneIs
<1>2. \A x, y \in Bags : Plus(x, y) \in Bags /\ \A p \in Points : Plus(x, y)[p] = x[p] + y[p]
  BY DEF Plus, Bags
<1>3. \A x, y \in Bags : (\A p \in Points : x[p] = y[p]) => x = y
  BY DEF Bags
<1>4. \A x \in Bags : \A p \in Points : x[p] \in Nat
  BY DEF Bags
<1>5. CASE call.kind # "add"
  <2>1. \A p \in Points : Done(Plus(a, b), call)[p] = Plus(Done(a, call), Done(b, call))[p]
    BY <1>1, <1>2, <1>4, <1>5, DoneIs
  <2>. QED
    BY <1>1, <1>2, <1>3, <1>5, <2>1, DoneIs
<1>6. CASE call.kind = "add"
  <2>1. \A p \in Points : /\ Done(Plus(a, b), call)[p] = Plus(Done(a, call), b)[p]
                          /\ Done(Plus(a, b), call)[p] = Plus(a, Done(b, call))[p]
    BY <1>1, <1>2, <1>4, <1>6, DoneIs
  <2>. QED
    BY <1>1, <1>2, <1>3, <1>6, <2>1, DoneIs
<1>. QED
  BY <1>5, <1>6

LEMMA DoneAllIs ==
  ASSUME NEW a \in Bags, NEW calls \in Operations
  PROVE  /\ DoneAll(a, calls) \in Bags
         /\ DoneAll(a, <<>>) = a
         /\ calls # <<>> => /\ Head(calls) \in Calls /\ Tail(calls) \in Operations
                            /\ DoneAll(a, <<Head(calls)>>) = Done(a, Head(calls))
                            /\ DoneAll(a, calls) = DoneAll(Done(a, Head(calls)), Tail(calls))
<1>1. calls \in Seq(Calls) /\ (Len(calls) = 0 \/ Len(calls) = 1 \/ Len(calls) = 2)
  <2>1. calls \in Seq(Calls) /\ Len(calls) <= 2
    BY DEF Operations
  <2>2. Len(calls) \in Nat
    BY <2>1
  <2>. DEFINE n == Len(calls)
  <2>3. n = 0 \/ n = 1 \/ n = 2
    <3>1. n \in Nat /\ n <= 2
      BY <2>1, <2>2
    <3>. HIDE DEF n
    <3>. QED
      BY <3>1
  <2>. QED
    BY <2>1, <2>3
<1>2. DoneAll(a, <<>>) = a
  BY DEF DoneAll
<1>3. CASE Len(calls) = 0
  BY <1>1, <1>2, <1>3 DEF DoneAll
<1>. SUFFICES ASSUME calls # <<>>, Len(calls) = 1 \/ Len(calls) = 2
              PROVE  /\ DoneAll(a, calls) \in Bags
                     /\ Head(calls) \in Calls /\ Tail(calls) \in Operations
                     /\ DoneAll(a, <<Head(calls)>>) = Done(a, Head(calls))
                     /\ DoneAll(a, calls) = DoneAll(Done(a, Head(calls)), Tail(calls))
  BY <1>1, <1>2, <1>3
<1>. DEFINE first == Head(calls)
            rest == Tail(calls)
<1>4. /\ first = calls[1] /\ first \in Calls /\ rest \in Seq(Calls) /\ Len(rest) = Len(calls) - 1
      /\ Len(calls) = 2 => calls[2] \in Calls /\ rest[1] = calls[2]
  BY <1>1
<1>. HIDE DEF first, rest
<1>5. rest \in Operations
  BY <1>4 DEF Operations
<1>6. DoneAll(a, <<first>>) = Done(a, first)
  BY DEF DoneAll
<1>7. Done(a, first) \in Bags
  BY <1>4, DoneIs
<1>8. CASE Len(calls) = 1
  <2>1. Len(rest) = 0 /\ DoneAll(a, calls) = Done(a, first) /\ DoneAll(Done(a, first), rest) = Done(a, first)
    BY <1>4, <1>8 DEF DoneAll
  <2>. QED
    BY <1>4, <1>5, <1>6, <1>7, <2>1 DEF first, rest
<1>9. CASE Len(calls) = 2
  <2>1. Len(rest) = 1 /\ DoneAll(Done(a, first), rest) = Done(Done(a, first), calls[2])
    BY <1>4, <1>9 DEF DoneAll
  <2>2. DoneAll(a, calls) = Done(Done(a, first), calls[2])
    BY <1>4, <1>9 DEF DoneAll
  <2>3. Done(Done(a, first), calls[2]) \in Bags
    BY <1>4, <1>7, <1>9, DoneIs
  <2>. QED
    BY <1>4, <1>5, <1>6, <2>1, <2>2, <2>3 DEF first, rest
<1>. QED
  BY <1>8, <1>9

\* Repeating the operations calls, one after the other, makes bag the bag result.
Gives(bag, calls, result) ==
    \E f \in [0..Len(calls) -> Bags] :
        /\ f[0] = bag /\ f[Len(calls)] = result
        /\ \A i \in 1..Len(calls) : f[i] = DoneAll(f[i - 1], calls[i])

LEMMA GivesNone ==
  ASSUME NEW a \in Bags
  PROVE  \A b : Gives(a, <<>>, b) <=> a = b
<1>1. ASSUME NEW b, Gives(a, <<>>, b)
      PROVE  a = b
  BY <1>1 DEF Gives
<1>2. Gives(a, <<>>, a)
  <2>. DEFINE f == [i \in 0..0 |-> a]
  <2>1. f \in [0..0 -> Bags] /\ f[0] = a
    OBVIOUS
  <2>. HIDE DEF f
  <2>2. Len(<<>>) = 0 /\ 1..0 = {}
    OBVIOUS
  <2>. QED
    BY <2>1, <2>2 DEF Gives
<1>. QED
  BY <1>1, <1>2

\* What is logged last comes last.
LEMMA GivesMore ==
  ASSUME NEW a, NEW calls \in Seq(Operations), NEW b, Gives(a, calls, b), NEW op \in Operations
  PROVE  Gives(a, Append(calls, op), DoneAll(b, op))
<1>1. PICK f \in [0..Len(calls) -> Bags] :
        /\ f[0] = a /\ f[Len(calls)] = b
        /\ \A i \in 1..Len(calls) : f[i] = DoneAll(f[i - 1], calls[i])
  BY DEF Gives
<1>. DEFINE n == Len(calls)
            more == Append(calls, op)
            g == [i \in 0..(n + 1) |-> IF i = n + 1 THEN DoneAll(b, op) ELSE f[i]]
<1>2. n \in Nat /\ Len(more) = n + 1 /\ more[n + 1] = op /\ \A i \in 1..n : more[i] = calls[i]
  OBVIOUS
<1>3. b \in Bags
  BY <1>1, <1>2
<1>4. DoneAll(b, op) \in Bags
  BY <1>3, DoneAllIs
<1>5. g \in [0..(n + 1) -> Bags]
  BY <1>2, <1>4
<1>6. g[0] = a /\ g[n + 1] = DoneAll(b, op) /\ g[n] = b
  BY <1>1, <1>2
<1>7. ASSUME NEW i \in 1..(n + 1)
      PROVE  g[i] = DoneAll(g[i - 1], more[i])
  <2>1. CASE i = n + 1
    BY <1>2, <1>6, <2>1
  <2>2. CASE i \in 1..n
    <3>1. g[i] = f[i] /\ g[i - 1] = f[i - 1]
      BY <1>2, <2>2
    <3>. QED
      BY <1>1, <1>2, <2>2, <3>1
  <2>. QED
    BY <1>2, <2>1, <2>2
<1>. HIDE DEF g, more
<1>8. g \in [0..Len(more) -> Bags] /\ g[Len(more)] = DoneAll(b, op)
  BY <1>2, <1>5, <1>6
<1>9. \A i \in 1..Len(more) : g[i] = DoneAll(g[i - 1], more[i])
  BY <1>2, <1>7
<1>10. Gives(a, more, DoneAll(b, op))
  BY <1>6, <1>8, <1>9 DEF Gives
<1>. QED
  BY <1>10 DEF more

\* The first of the log can be done at once.
LEMMA GivesRest ==
  ASSUME NEW a, NEW calls \in Seq(Operations), calls # <<>>, NEW b, Gives(a, calls, b)
  PROVE  Gives(DoneAll(a, Head(calls)), Tail(calls), b)
<1>1. PICK f \in [0..Len(calls) -> Bags] :
        /\ f[0] = a /\ f[Len(calls)] = b
        /\ \A i \in 1..Len(calls) : f[i] = DoneAll(f[i - 1], calls[i])
  BY DEF Gives
<1>. DEFINE n == Len(calls)
            rest == Tail(calls)
            g == [i \in 0..(n - 1) |-> f[i + 1]]
<1>2. /\ n \in Nat \ {0} /\ Len(rest) = n - 1 /\ Head(calls) = calls[1]
      /\ \A i \in 1..(n - 1) : rest[i] = calls[i + 1]
  OBVIOUS
<1>3. g \in [0..(n - 1) -> Bags]
  BY <1>2
<1>4. g[0] = DoneAll(a, Head(calls)) /\ g[n - 1] = b
  BY <1>1, <1>2
<1>5. ASSUME NEW i \in 1..(n - 1)
      PROVE  g[i] = DoneAll(g[i - 1], rest[i])
  <2>1. g[i] = f[i + 1] /\ g[i - 1] = f[i] /\ i + 1 \in 1..n /\ (i + 1) - 1 = i
    BY <1>2
  <2>. QED
    BY <1>1, <1>2, <2>1
<1>. HIDE DEF g, rest
<1>6. /\ g \in [0..Len(rest) -> Bags] /\ g[Len(rest)] = b
      /\ \A i \in 1..Len(rest) : g[i] = DoneAll(g[i - 1], rest[i])
  BY <1>2, <1>3, <1>4, <1>5
<1>7. Gives(DoneAll(a, Head(calls)), rest, b)
  BY <1>4, <1>6 DEF Gives
<1>. QED
  BY <1>7 DEF rest

-------------------------------------------------------------------------------
(* The types, with what the two threads have in hand.                          *)

DataInv ==
    /\ above \in Bags /\ below \in Bags /\ copy \in Bags /\ expected \in Bags
    /\ covered \in BOOLEAN /\ flag \in BOOLEAN /\ late \in BOOLEAN /\ unseen \in BOOLEAN
    /\ log \in Seq(Operations)
    /\ ops \in 0..MaxOps

Holding == {"search", "flatten", "replay", "swap", "swapped"}

\* What the rebuild thread holds, and the flag and pointer it leaves behind.
ThreadInv ==
    /\ rpc \in {"idle", "locked", "build", "lock", "flag", "free", "crashed"} \cup Holding
    /\ working = IF rpc \in Holding THEN "rebuild" ELSE "none"
    /\ ptr \in {"null", "inner", "root"}
    /\ ptr = "null" => rpc \in {"idle", "flag", "free"}
    /\ rpc \in {"flag", "free"} => ptr = "null"
    /\ flag => rpc \in {"build", "lock", "flag", "crashed"} \cup Holding
    /\ rpc \in {"build", "lock"} \cup Holding => flag

\* Where the LIO thread is in its operation; of two calls the first is a deletion.
TodoInv ==
    /\ mpc \in {"ready", "search", "call", "range", "whole", "inner", "check"}
    /\ todo \in Operations
    /\ Len(todo) = 2 => Head(todo).kind \in {"box", "push"}
    /\ mpc \in {"ready", "search"} <=> todo = <<>>
    /\ mpc = "range" => Head(todo).kind = "range"
    /\ mpc = "inner" => ptr # "root" /\ (covered => Head(todo).kind = "push")
    /\ mpc = "whole" => ptr # "inner"
    /\ \A i \in DOMAIN todo : /\ todo[i].kind = "range" => todo[i].box = {}
                              /\ todo[i].kind = "push" => todo[i].box = Points

PlaceInv == DataInv /\ ThreadInv /\ TodoInv

LEMMA CallIs ==
  ASSUME NEW kind \in Kinds, NEW box \in SUBSET Points, NEW p \in Points \cup {Null}
  PROVE  /\ Call(kind, box, p) \in Calls
         /\ Call(kind, box, p).kind = kind /\ Call(kind, box, p).box = box /\ Call(kind, box, p).p = p
BY DEF Call, Calls

LEMMA TwoCalls ==
  ASSUME NEW calls \in Seq(Calls), Len(calls) = 2
  PROVE  calls \in Operations /\ calls # <<>>
BY SMTT(30) DEF Operations

LEMMA OneCall ==
  ASSUME NEW call \in Calls
  PROVE  <<call>> \in Operations /\ Len(<<call>>) = 1 /\ <<call>>[1] = call /\ Head(<<call>>) = call
BY DEF Operations

\* What is left of an operation once its first call is done.
LEMMA RestIs ==
  ASSUME TodoInv, todo # <<>>
  PROVE  /\ Head(todo) \in Calls /\ Tail(todo) \in Operations
         /\ Head(todo) = todo[1] /\ 1 \in DOMAIN todo
         /\ Len(todo) \in {1, 2} /\ Len(Tail(todo)) = Len(todo) - 1
         /\ \A i \in DOMAIN Tail(todo) : Tail(todo)[i] = todo[i + 1] /\ i + 1 \in DOMAIN todo
<1>1. todo \in Seq(Calls) /\ Len(todo) <= 2
  BY DEF TodoInv, Operations
<1>2. Len(todo) \in {1, 2}
  <2>. DEFINE n == Len(todo)
  <2>1. n \in Nat /\ n # 0 /\ n <= 2
    BY <1>1
  <2>. HIDE DEF n
  <2>2. n \in {1, 2}
    BY <2>1
  <2>. QED
    BY <2>2 DEF n
<1>. DEFINE rest == Tail(todo)
<1>3. /\ rest \in Seq(Calls) /\ Len(rest) = Len(todo) - 1 /\ DOMAIN todo = 1..Len(todo)
      /\ DOMAIN rest = 1..(Len(todo) - 1)
      /\ \A i \in 1..(Len(todo) - 1) : rest[i] = todo[i + 1]
      /\ Head(todo) \in Calls /\ Head(todo) = todo[1]
  BY <1>1
<1>. HIDE DEF rest
<1>4. rest \in Operations
  BY <1>2, <1>3 DEF Operations
<1>. QED
  BY <1>2, <1>3, <1>4 DEF rest

LEMMA PlaceInvInit == Init => PlaceInv
<1>. SUFFICES ASSUME Init PROVE PlaceInv
  OBVIOUS
<1>1. PICK bag \in [Points -> {0, 1}] :
        above = Only(bag, Points \ Below) /\ below = Only(bag, Below) /\ expected = bag
  BY DEF Init
<1>2. bag \in Bags
  BY DEF Bags
<1>3. DataInv
  <2>1. above \in Bags /\ below \in Bags /\ Empty \in Bags
    BY <1>1, <1>2, BagIs
  <2>2. 0 \in 0..MaxOps
    BY NumbersAssumption
  <2>3. <<>> \in Seq(Operations)
    OBVIOUS
  <2>. QED
    BY <1>1, <1>2, <2>1, <2>2, <2>3 DEF Init, DataInv
<1>4. ThreadInv
  BY DEF Init, ThreadInv, Holding
<1>5. TodoInv
  BY DEF Init, TodoInv, Operations
<1>. QED
  BY <1>3, <1>4, <1>5 DEF PlaceInv

\* The LIO thread begins: one call is to do.
LEMMA StartIs ==
  ASSUME \/ \E p \in Points : AddPoint(p) \/ AddDownsampled(p)
         \/ \E a, b \in Points : DeleteBox(a, b)
  PROVE  \E call \in Calls :
           /\ Start(<<call>>) /\ (mpc' = Path \/ mpc' = "call")
           /\ \/ expected' = Done(expected, call)
              \/ expected' = expected /\ call.kind = "range" /\ call.box = {}
           /\ call.kind = "range" => call.box = {}
           /\ call.kind # "push"
<1>1. ASSUME NEW p \in Points, AddPoint(p)
      PROVE  /\ Call("add", {}, p) \in Calls /\ Start(<<Call("add", {}, p)>>) /\ mpc' = Path
             /\ expected' = Done(expected, Call("add", {}, p)) /\ Call("add", {}, p).kind = "add"
  BY <1>1, CallIs DEF AddPoint, Kinds
<1>2. ASSUME NEW p \in Points, AddDownsampled(p)
      PROVE  /\ Call("range", {}, p) \in Calls /\ Start(<<Call("range", {}, p)>>) /\ mpc' = "call"
             /\ expected' = expected
             /\ Call("range", {}, p).kind = "range" /\ Call("range", {}, p).box = {}
  BY <1>2, CallIs DEF AddDownsampled, Kinds
<1>3. ASSUME NEW a \in Points, NEW b \in Points, DeleteBox(a, b)
      PROVE  \E call \in Calls :
               /\ Start(<<call>>) /\ mpc' = Path
               /\ expected' = Done(expected, call) /\ call.kind = "box"
  <2>1. Start(<<Call("box", Box(a, b), Null)>>) /\ mpc' = Path
        /\ expected' = Done(expected, Call("box", Box(a, b), Null))
    BY <1>3 DEF DeleteBox
  <2>2. Box(a, b) \in SUBSET Points
    BY DEF Box
  <2>. QED
    BY <2>1, <2>2, CallIs DEF Kinds
<1>. QED
  BY <1>1, <1>2, <1>3

LEMMA PlaceInvStart ==
  ASSUME PlaceInv, \/ \E p \in Points : AddPoint(p) \/ AddDownsampled(p)
                   \/ \E a, b \in Points : DeleteBox(a, b)
  PROVE  PlaceInv'
<1>1. PICK call \in Calls :
        /\ Start(<<call>>) /\ (mpc' = Path \/ mpc' = "call")
        /\ expected' = Done(expected, call) \/ expected' = expected
        /\ call.kind = "range" => call.box = {}
        /\ call.kind # "push"
  BY StartIs
<1>2. /\ mpc = "ready" /\ ops < MaxOps /\ ops' = ops + 1 /\ todo' = <<call>>
      /\ UNCHANGED <<above, below, covered, ptr, flag, log, working, rpc, copy, late, unseen>>
  BY <1>1 DEF Start, tree, rebuild
<1>3. DataInv'
  <2>1. expected' \in Bags
    BY <1>1, DoneIs DEF PlaceInv, DataInv
  <2>2. ops' \in 0..MaxOps
    BY <1>2, NumbersAssumption DEF PlaceInv, DataInv
  <2>. QED
    BY <1>2, <2>1, <2>2 DEF PlaceInv, DataInv
<1>4. ThreadInv'
  BY <1>2 DEF PlaceInv, ThreadInv
<1>5. TodoInv'
  <2>1. mpc' \in {"call", "whole"} /\ (mpc' = "whole" => ptr' # "inner")
    BY <1>1, <1>2 DEF Path
  <2>2. todo' \in Operations /\ Len(todo') = 1 /\ todo' # <<>> /\ DOMAIN todo' = {1} /\ todo'[1] = call
    BY <1>2, OneCall
  <2>. QED
    BY <1>1, <2>1, <2>2 DEF TodoInv
<1>. QED
  BY <1>3, <1>4, <1>5 DEF PlaceInv

\* A call is done, and there may be one more.
LEMMA TodoRest ==
  ASSUME TodoInv, todo # <<>>, todo' = Tail(todo), mpc' = IF Tail(todo) = <<>> THEN "ready" ELSE "call"
  PROVE  TodoInv'
<1>. DEFINE rest == Tail(todo)
<1>1. /\ rest \in Operations /\ Len(rest) # 2
      /\ \A i \in DOMAIN rest : rest[i] = todo[i + 1] /\ i + 1 \in DOMAIN todo
  <2>1. Len(todo) \in {1, 2} /\ Len(rest) = Len(todo) - 1
    BY RestIs
  <2>. QED
    BY <2>1, RestIs, SMTT(30)
<1>2. todo' = rest /\ mpc' = IF rest = <<>> THEN "ready" ELSE "call"
  OBVIOUS
<1>. HIDE DEF rest
<1>3. \A i \in DOMAIN todo' : /\ todo'[i].kind = "range" => todo'[i].box = {}
                             /\ todo'[i].kind = "push" => todo'[i].box = Points
  BY <1>1, <1>2 DEF TodoInv
<1>4. todo' \in Operations /\ Len(todo') # 2
  BY <1>1, <1>2
<1>5. mpc' \in {"ready", "call"} /\ (mpc' = "ready" <=> todo' = <<>>)
  BY <1>2
<1>. QED
  BY <1>3, <1>4, <1>5, SMTT(30) DEF TodoInv

\* Add_Points with downsampling, after the range search.
LEMMA InsertionIs ==
  ASSUME NEW p, NEW result \in Points \cup {Null}, NEW number
  PROVE  /\ Insertion(p, result, number) \in Operations
         /\ Len(Insertion(p, result, number)) = 2 => Head(Insertion(p, result, number)).kind = "box"
         /\ \A i \in DOMAIN Insertion(p, result, number) : Insertion(p, result, number)[i].kind \in {"box", "add"}
<1>. DEFINE box == Call("box", Voxel(p), Null)
            add == Call("add", {}, result)
<1>1. box \in Calls /\ add \in Calls /\ box.kind = "box" /\ add.kind = "add"
  BY CallIs DEF Voxel, Kinds
<1>2. \/ Insertion(p, result, number) = <<box>> \o <<add>>
      \/ Insertion(p, result, number) = <<>> \o <<add>>
      \/ Insertion(p, result, number) = <<>>
  BY DEF Insertion
<1>. HIDE DEF box, add
<1>3. ASSUME NEW calls, calls = <<box>> \o <<add>> \/ calls = <<>> \o <<add>> \/ calls = <<>>
      PROVE  /\ calls \in Operations
             /\ Len(calls) = 2 => Head(calls).kind = "box"
             /\ \A i \in DOMAIN calls : calls[i].kind \in {"box", "add"}
  <2>1. CASE calls = <<box>> \o <<add>>
    <3>1. calls \in Seq(Calls) /\ Len(calls) = 2 /\ calls[1] = box /\ calls[2] = add /\ DOMAIN calls = 1..2
      BY <1>1, <2>1
    <3>2. Head(calls) = calls[1]
      BY <3>1
    <3>3. calls \in Operations
      BY <3>1, TwoCalls
    <3>4. \A i \in DOMAIN calls : calls[i] = box \/ calls[i] = add
      BY <3>1
    <3>. QED
      BY <1>1, <3>1, <3>2, <3>3, <3>4
  <2>2. CASE calls = <<>> \o <<add>>
    <3>1. calls \in Seq(Calls) /\ Len(calls) = 1 /\ calls[1] = add /\ DOMAIN calls = 1..1
      BY <1>1, <2>2
    <3>2. calls \in Operations
      BY <3>1 DEF Operations
    <3>3. \A i \in DOMAIN calls : calls[i] = add
      BY <3>1
    <3>. QED
      BY <1>1, <3>1, <3>2, <3>3
  <2>3. CASE calls = <<>>
    BY <2>3 DEF Operations
  <2>. QED
    BY <1>3, <2>1, <2>2, <2>3
<1>. QED
  BY <1>2, <1>3

LEMMA EndRangeIs ==
  ASSUME TodoInv, EndRange
  PROVE  \E p \in Points \cup {Null} : \E result \in Points \cup {Null} : \E number :
           /\ mpc = "range" /\ todo' = Insertion(p, result, number)
           /\ expected' = DoneAll(expected, Insertion(p, result, number))
<1>. DEFINE p == Head(todo).p
            found == {q \in Voxel(p) : Content[q] > 0}
            number == IF found = {} THEN 0
                      ELSE IF Cardinality(found) = 1 /\ \A q \in found : Content[q] = 1 THEN 1 ELSE 2
<1>1. PICK result \in Nearest(p, found) :
         /\ todo' = Insertion(p, result, number)
         /\ expected' = DoneAll(expected, Insertion(p, result, number))
  BY DEF EndRange
<1>2. mpc = "range" /\ todo # <<>>
  BY DEF EndRange, TodoInv
<1>3. p \in Points \cup {Null}
  BY <1>2, RestIs DEF Calls
<1>4. found \subseteq Points
  BY DEF Voxel
<1>. HIDE DEF p, found, number
<1>5. result \in Points \cup {Null}
  BY <1>1, <1>3, <1>4 DEF Nearest
<1>. QED
  BY <1>1, <1>2, <1>3, <1>5

\* One call of the LIO thread, and the log it keeps.
LEMMA CallDone ==
  ASSUME PlaceInv, NEW call \in Calls
  PROVE  /\ Content \in Bags /\ Done(above, call) \in Bags /\ Done(below, call) \in Bags
         /\ AboveDone(call) \in Bags
BY BagIs, DoneIs DEF PlaceInv, DataInv, Content, AboveDone

LEMMA LogIs ==
  ASSUME PlaceInv, NEW calls \in Operations, Log(calls)
  PROVE  log' \in Seq(Operations) /\ late' \in BOOLEAN /\ (late => late')
<1>1. log' \in Seq(Operations)
  <2>1. Append(log, calls) \in Seq(Operations)
    BY DEF PlaceInv, DataInv
  <2>. QED
    BY <2>1 DEF Log, PlaceInv, DataInv
<1>2. late' \in BOOLEAN
  BY DEF Log
<1>3. late => late'
  BY DEF Log
<1>. QED
  BY <1>1, <1>2, <1>3

\* The push-down comes before the one call there is.
LEMMA PushFirstIs ==
  ASSUME PlaceInv, PushFirst
  PROVE  /\ mpc = "call" /\ mpc' = mpc /\ covered
         /\ Len(todo) = 1 /\ Len(todo') = 2 /\ todo'[2] = todo[1] /\ todo[1] \in Calls
         /\ DOMAIN todo' = 1..2 /\ todo'[1] \in Calls /\ todo'[1].kind = "push" /\ todo'[1].box = Points
         /\ todo' \in Operations /\ todo' # <<>> /\ Head(todo') = todo'[1]
         /\ UNCHANGED <<above, below, covered, ptr, flag, log, working, rpc, copy, ops, expected, late, unseen>>
<1>. DEFINE push == Call("push", Points, Null)
<1>1. /\ mpc = "call" /\ todo # <<>> /\ covered /\ Head(todo).kind \in {"add", "range"} /\ todo' = <<push>> \o todo
      /\ UNCHANGED <<above, below, covered, ptr, flag, log, working, rpc, copy, mpc, ops, expected, late, unseen>>
  BY DEF PushFirst, NeedsPush, tree, rebuild, ghosts
<1>2. push \in Calls /\ push.kind = "push" /\ push.box = Points
  BY CallIs DEF Kinds
<1>. HIDE DEF push
<1>3. Len(todo) = 1 /\ todo \in Seq(Calls) /\ DOMAIN todo = 1..1
  BY <1>1, RestIs DEF PlaceInv, TodoInv, Operations
<1>4. todo' \in Seq(Calls) /\ Len(todo') = 2 /\ DOMAIN todo' = 1..2 /\ todo'[1] = push /\ todo'[2] = todo[1]
  <2>1. <<push>> \in Seq(Calls) /\ Len(<<push>>) = 1 /\ <<push>>[1] = push
    BY <1>2
  <2>2. ASSUME NEW s \in Seq(Calls), NEW t \in Seq(Calls), Len(s) = 1, Len(t) = 1
        PROVE  /\ s \o t \in Seq(Calls) /\ Len(s \o t) = 2 /\ DOMAIN (s \o t) = 1..2
               /\ (s \o t)[1] = s[1] /\ (s \o t)[2] = t[1]
    <3>1. s \o t \in Seq(Calls) /\ Len(s \o t) = 2
      BY <2>2, SMTT(30)
    <3>2. /\ \A i \in 1..Len(s) : (s \o t)[i] = s[i]
          /\ \A i \in 1..Len(t) : (s \o t)[Len(s) + i] = t[i]
      OBVIOUS
    <3>3. (s \o t)[1] = s[1] /\ (s \o t)[1 + 1] = t[1]
      BY <2>2, <3>2, SMTT(30)
    <3>. QED
      BY <3>1, <3>3
  <2>. QED
    BY <1>1, <1>3, <2>1, <2>2
<1>5. todo' \in Operations /\ Head(todo') = push /\ todo' # <<>>
  <2>1. todo' \in Operations /\ todo' # <<>>
    BY <1>4, TwoCalls
  <2>2. \A s \in Seq(Calls) : s # <<>> => Head(s) = s[1]
    OBVIOUS
  <2>. QED
    BY <1>4, <2>1, <2>2
<1>. QED
  BY <1>1, <1>2, <1>3, <1>4, <1>5

LEMMA PlaceInvMain ==
  ASSUME PlaceInv, MainStep
  PROVE  PlaceInv'
<1>. USE DEF PlaceInv
<1>1. CASE BeginRange
  <2>1. /\ mpc' = "range" /\ Head(todo).kind = "range" /\ todo # <<>>
        /\ UNCHANGED <<above, below, covered, ptr, flag, log, working, rpc, copy, todo, ops, expected, late, unseen>>
    BY <1>1 DEF BeginRange, tree, rebuild, ghosts
  <2>. QED
    BY <2>1 DEF DataInv, ThreadInv, TodoInv
<1>2. CASE EndRange
  <2>1. /\ mpc' = IF todo' = <<>> THEN "ready" ELSE Path
        /\ UNCHANGED <<above, below, covered, ptr, flag, log, working, rpc, copy, ops, late, unseen>>
    BY <1>2 DEF EndRange, tree, rebuild
  <2>2. PICK p \in Points \cup {Null} : \E result \in Points \cup {Null} : \E number :
          /\ mpc = "range" /\ todo' = Insertion(p, result, number)
          /\ expected' = DoneAll(expected, Insertion(p, result, number))
    BY <1>2, EndRangeIs
  <2>3. PICK result \in Points \cup {Null} : \E number :
          /\ todo' = Insertion(p, result, number)
          /\ expected' = DoneAll(expected, Insertion(p, result, number))
    BY <2>2
  <2>4. /\ todo' \in Operations /\ (Len(todo') = 2 => Head(todo').kind = "box")
        /\ \A i \in DOMAIN todo' : todo'[i].kind \in {"box", "add"}
        /\ expected' = DoneAll(expected, todo')
    BY <2>3, InsertionIs
  <2>5. expected' \in Bags
    BY <2>4, DoneAllIs DEF DataInv
  <2>6. mpc' \in {"ready", "call", "whole"} /\ (mpc' = "ready" <=> todo' = <<>>) /\ (mpc' = "whole" => ptr' = "root")
    BY <2>1 DEF Path
  <2>7. TodoInv'
    BY <2>4, <2>6 DEF TodoInv
  <2>. QED
    BY <2>1, <2>5, <2>7 DEF DataInv, ThreadInv
<1>3. CASE PushFirst
  <2>1. \A i \in DOMAIN todo' : /\ todo'[i].kind = "range" => todo'[i].box = {}
                               /\ todo'[i].kind = "push" => todo'[i].box = Points
    <3>1. \A i \in DOMAIN todo' : i = 1 \/ i = 2
      BY <1>3, PushFirstIs
    <3>2. 1 \in DOMAIN todo
      BY <1>3, RestIs DEF PushFirst
    <3>3. /\ todo'[1].kind = "push" /\ todo'[1].box = Points
          /\ todo'[2].kind = "range" => todo'[2].box = {}
          /\ todo'[2].kind = "push" => todo'[2].box = Points
      BY <1>3, <3>2, PushFirstIs DEF TodoInv
    <3>. QED
      BY <3>1, <3>3
  <2>2. TodoInv'
    BY <1>3, <2>1, PushFirstIs DEF TodoInv
  <2>. QED
    BY <1>3, <2>2, PushFirstIs DEF DataInv, ThreadInv
<1>4. CASE NothingLeft
  <2>1. /\ todo # <<>> /\ todo' = Tail(todo) /\ mpc' = IF Tail(todo) = <<>> THEN "ready" ELSE "call"
        /\ UNCHANGED <<above, below, covered, ptr, flag, log, working, rpc, copy, ops, expected, late, unseen>>
    BY <1>4 DEF NothingLeft, Unlocked, tree, rebuild
  <2>2. TodoInv'
    BY <2>1, TodoRest
  <2>. QED
    BY <2>1, <2>2 DEF DataInv, ThreadInv
<1>5. CASE CoverRoot
  <2>1. /\ todo # <<>> /\ todo' = Tail(todo) /\ mpc' = IF Tail(todo) = <<>> THEN "ready" ELSE "call"
        /\ above' = Empty /\ covered' = TRUE /\ unseen' = (unseen \/ GoesUnseen)
        /\ UNCHANGED <<below, ptr, flag, log, working, rpc, copy, ops, expected, late>>
    BY <1>5 DEF CoverRoot, Unlocked, rebuild
  <2>2. TodoInv'
    BY <2>1, TodoRest
  <2>3. above' \in Bags /\ covered' \in BOOLEAN /\ unseen' \in BOOLEAN
    BY <2>1, BagIs DEF DataInv
  <2>. QED
    BY <2>1, <2>2, <2>3 DEF DataInv, ThreadInv
<1>6. CASE ThroughRoot
  <2>1. /\ mpc = "call" /\ todo # <<>> /\ ~NeedsPush
        /\ Head(todo).kind \in {"push", "add"} \/ (Head(todo).kind = "box" /\ ~covered)
        /\ above' = AboveDone(Head(todo))
        /\ UNCHANGED <<ptr, flag, log, working, rpc, copy, ops, expected, late, todo>>
    BY <1>6 DEF ThroughRoot, Unlocked, rebuild
  <2>2. \/ mpc' = "inner" /\ ptr = "inner" /\ UNCHANGED <<below, covered, unseen>>
        \/ /\ below' = Done(below, Head(todo)) \/ below' = below
           /\ covered' = FALSE \/ covered' = covered
           /\ unseen' = (unseen \/ GoesUnseen)
           /\ mpc' = "check"
    BY <1>6 DEF ThroughRoot
  <2>3. above' \in Bags /\ below' \in Bags /\ covered' \in BOOLEAN
    BY <2>1, <2>2, RestIs, CallDone DEF DataInv
  <2>4. unseen' \in BOOLEAN
    BY <2>2 DEF DataInv
  <2>5. mpc' = "inner" => covered' = covered /\ ptr = "inner" /\ (covered => Head(todo).kind = "push")
    BY <2>1, <2>2 DEF NeedsPush
  <2>6. mpc' \in {"inner", "check"}
    BY <2>2
  <2>7. TodoInv'
    BY <2>1, <2>5, <2>6 DEF TodoInv
  <2>. QED
    BY <2>1, <2>3, <2>4, <2>7 DEF DataInv, ThreadInv
<1>7. CASE Check
  <2>1. /\ mpc = "check" /\ (ptr' = ptr \/ (ptr' \in {"inner", "root"} /\ rpc = "idle") \/ rpc = "crashed")
        /\ todo' = Tail(todo) /\ mpc' = IF Tail(todo) = <<>> THEN "ready" ELSE "call"
        /\ UNCHANGED <<above, below, covered, flag, log, working, rpc, copy, ops, expected, late, unseen>>
    BY <1>7 DEF Check, CanAsk, tree, rebuild, ghosts
  <2>2. ptr' \in {"null", "inner", "root"} /\ (ptr' = "null" => ptr = "null") /\ (rpc \in {"flag", "free"} => ptr' = ptr)
    BY <1>7 DEF Check, CanAsk, ThreadInv
  <2>3. TodoInv'
    BY <2>1, TodoRest DEF TodoInv
  <2>. QED
    BY <2>1, <2>2, <2>3 DEF DataInv, ThreadInv
<1>8. CASE EndSearch
  <2>1. /\ mpc = "search" /\ mpc' = "ready"
        /\ UNCHANGED <<above, below, covered, ptr, flag, log, working, rpc, copy, todo, ops, expected, late, unseen>>
    BY <1>8 DEF EndSearch, tree, rebuild, ghosts
  <2>. QED
    BY <2>1 DEF DataInv, ThreadInv, TodoInv
<1>. QED
  BY <1>1, <1>2, <1>3, <1>4, <1>5, <1>6, <1>7, <1>8 DEF MainStep

LEMMA PlaceInvLocks ==
  ASSUME PlaceInv, MainLocks
  PROVE  PlaceInv'
<1>. USE DEF PlaceInv
<1>1. CASE InInner
  <2>1. /\ mpc = "inner" /\ mpc' = "check" /\ below' = Done(below, Head(todo)) /\ Log(<<Head(todo)>>)
        /\ covered' = IF Head(todo).kind = "push" THEN FALSE ELSE covered
        /\ UNCHANGED <<above, ptr, flag, working, rpc, copy, todo, ops, expected, unseen>>
    BY <1>1 DEF InInner, rebuild
  <2>2. Head(todo) \in Calls /\ todo # <<>>
    BY <2>1, RestIs DEF TodoInv
  <2>3. log' \in Seq(Operations) /\ late' \in BOOLEAN
    BY <2>1, <2>2, OneCall, LogIs
  <2>4. below' \in Bags /\ covered' \in BOOLEAN
    BY <2>1, <2>2, CallDone DEF DataInv
  <2>5. TodoInv'
    BY <2>1, <2>2 DEF TodoInv
  <2>. QED
    BY <2>1, <2>3, <2>4, <2>5 DEF DataInv, ThreadInv
<1>2. CASE InWhole
  <2>1. /\ todo' = <<>> /\ mpc' = "ready" /\ covered' = FALSE /\ Log(todo)
        /\ above' = Only(DoneAll(Content, todo), Points \ Below) /\ below' = Only(DoneAll(Content, todo), Below)
        /\ UNCHANGED <<ptr, flag, working, rpc, copy, ops, expected, unseen>>
    BY <1>2 DEF InWhole, rebuild
  <2>2. todo \in Operations
    BY DEF TodoInv
  <2>3. DoneAll(Content, todo) \in Bags
    <3>1. \E call : call \in Calls
      BY CallIs DEF Kinds
    <3>2. Content \in Bags
      BY <3>1, CallDone
    <3>. QED
      BY <2>2, <3>2, DoneAllIs
  <2>4. above' \in Bags /\ below' \in Bags
    BY <2>1, <2>3, BagIs
  <2>5. log' \in Seq(Operations) /\ late' \in BOOLEAN
    BY <2>1, <2>2, LogIs
  <2>6. TodoInv'
    BY <2>1 DEF TodoInv, Operations
  <2>. QED
    BY <2>1, <2>4, <2>5, <2>6 DEF DataInv, ThreadInv
<1>. QED
  BY <1>1, <1>2 DEF MainLocks

LEMMA PlaceInvSearches ==
  ASSUME PlaceInv, BeginSearch \/ \E r \in Readers : ReaderStep(r)
  PROVE  PlaceInv'
<1>1. CASE BeginSearch
  <2>1. /\ mpc = "ready" /\ mpc' = "search" /\ ops' \in 0..MaxOps
        /\ UNCHANGED <<above, below, covered, ptr, flag, log, working, rpc, copy, todo, expected, late, unseen>>
    BY <1>1, NumbersAssumption DEF BeginSearch, tree, rebuild, ghosts, PlaceInv, DataInv
  <2>. QED
    BY <2>1 DEF PlaceInv, DataInv, ThreadInv, TodoInv
<1>2. CASE \E r \in Readers : ReaderStep(r)
  <2>1. UNCHANGED <<tree, ptr, flag, log, working, rebuild, main, ghosts>>
    BY <1>2 DEF ReaderStep, Look, Enter, Leave, PassBy
  <2>. QED
    BY <2>1 DEF PlaceInv, DataInv, ThreadInv, TodoInv, tree, rebuild, main, ghosts
<1>. QED
  BY <1>1, <1>2

\* The rebuild thread changes nothing of the operation; what it puts in the tree
\* are bags.
LEMMA PlaceInvRebuild ==
  ASSUME PlaceInv, RebuildStep \/ RebuildLocks
  PROVE  PlaceInv'
<1>. USE DEF PlaceInv
<1>1. CASE \/ LockPtr \/ LockWorking \/ LockSearch \/ Build \/ LockReplay \/ LockSwap
           \/ UnlockSwap \/ ClearFlag
  <2>1. DataInv'
    BY <1>1 DEF LockPtr, LockWorking, LockSearch, Build, LockReplay, LockSwap, UnlockSwap, ClearFlag,
                Unmoved, main, DataInv
  <2>2. ThreadInv'
    BY <1>1 DEF LockPtr, LockWorking, LockSearch, Build, LockReplay, LockSwap, UnlockSwap, ClearFlag,
                ThreadInv, Holding
  <2>3. UNCHANGED <<mpc, todo, covered>> /\ ptr' \in {ptr, "null"}
    BY <1>1 DEF LockPtr, LockWorking, LockSearch, Build, LockReplay, LockSwap, UnlockSwap, ClearFlag,
                Unmoved, main
  <2>4. TodoInv'
    BY <2>3 DEF TodoInv
  <2>. QED
    BY <2>1, <2>2, <2>4
<1>2. CASE Flatten \/ Replay \/ Free
  <2>1. Content \in Bags /\ (log # <<>> => DoneAll(copy, Head(log)) \in Bags /\ Tail(log) \in Seq(Operations))
    <3>1. Content \in Bags
      BY BagIs DEF Content, DataInv
    <3>2. log # <<>> => Head(log) \in Operations /\ Tail(log) \in Seq(Operations)
      BY DEF DataInv
    <3>. QED
      BY <3>1, <3>2, DoneAllIs DEF DataInv
  <2>2. copy' \in Bags /\ log' \in Seq(Operations)
    BY <1>2, <2>1, BagIs DEF Flatten, Replay, Free, DataInv
  <2>3. UNCHANGED <<above, below, covered, mpc, todo, ops, expected, late, unseen, ptr, flag>>
    BY <1>2 DEF Flatten, Replay, Free, Unmoved, main
  <2>4. ThreadInv'
    BY <1>2 DEF Flatten, Replay, Free, ThreadInv, Holding
  <2>. QED
    BY <2>2, <2>3, <2>4 DEF DataInv, TodoInv
<1>3. CASE Swap
  <2>1. /\ rpc = "swap" /\ rpc' = "swapped"
        /\ UNCHANGED <<ptr, flag, log, working, copy, mpc, todo, ops, expected, late, unseen>>
        /\ IF ptr = "root"
             THEN above' = Only(copy, Points \ Below) /\ below' = Only(copy, Below) /\ covered' = FALSE
             ELSE below' = copy /\ UNCHANGED <<above, covered>>
    BY <1>3 DEF Swap, main, ghosts
  <2>2. above' \in Bags /\ below' \in Bags /\ covered' \in BOOLEAN
    <3>1. CASE ptr = "root"
      <4>1. Only(copy, Points \ Below) \in Bags /\ Only(copy, Below) \in Bags
        BY BagIs DEF DataInv
      <4>. QED
        BY <2>1, <3>1, <4>1
    <3>2. CASE ptr # "root"
      BY <2>1, <3>2 DEF DataInv
    <3>. QED
      BY <3>1, <3>2
  <2>3. mpc = "inner" => covered' = covered
    BY <2>1 DEF TodoInv
  <2>. QED
    BY <2>1, <2>2, <2>3 DEF DataInv, ThreadInv, TodoInv, Holding
<1>. QED
  BY <1>1, <1>2, <1>3 DEF RebuildStep, RebuildLocks

LEMMA PlaceInvStep ==
  ASSUME PlaceInv, [Next]_vars
  PROVE  PlaceInv'
<1>1. CASE UNCHANGED vars
  BY <1>1 DEF PlaceInv, DataInv, ThreadInv, TodoInv, vars, tree, rebuild, main, ghosts
<1>. QED
  BY <1>1, PlaceInvStart, PlaceInvMain, PlaceInvLocks, PlaceInvSearches, PlaceInvRebuild DEF Next

LEMMA SearchInvStep ==
  ASSUME SearchInv, [Next]_vars
  PROVE  SearchInv'
<1>1. CASE UNCHANGED vars
  BY <1>1 DEF SearchInv, RefInv, CounterInv, Counted, vars, rebuild
<1>. QED
  BY <1>1, SearchInvMain, SearchInvReader, SearchInvRebuild DEF Next

\* The types of the whole state: of the tree, the copy and the log what the calls
\* make of them, of the counter what the searches do.  (KD_TREE.)
THEOREM Typed == Spec => []TypeOK
<1>1. PlaceInv /\ SearchInv => TypeOK
  <2>. SUFFICES ASSUME PlaceInv, SearchInv PROVE TypeOK
    OBVIOUS
  <2>1. counter \in (-1)..Cardinality(Readers) /\ (counter = -1 <=> rpc \in {"flatten", "swap", "swapped"})
    <3>1. Cardinality(Counted) \in Nat /\ Cardinality(Readers) \in Nat /\ Cardinality(Counted) <= Cardinality(Readers)
      BY CountedFinite, FS_Subset, FS_CardinalityType, ReadersAssumption DEF Counted
    <3>. QED
      BY <3>1 DEF SearchInv, CounterInv, Locked
  <2>2. {above, below, copy, expected} \subseteq [Points -> Nat]
    BY DEF PlaceInv, DataInv, Bags
  <2>3. {covered, flag, late, unseen} \subseteq BOOLEAN
    BY DEF PlaceInv, DataInv
  <2>4. log \in Seq(Operations) /\ todo \in Operations /\ ops \in 0..MaxOps
    BY DEF PlaceInv, DataInv, TodoInv
  <2>5. /\ ptr \in {"null", "inner", "root"} /\ working \in {"none", "rebuild"}
        /\ rpc \in {"idle", "locked", "search", "flatten", "build", "lock", "replay", "run",
                    "wait", "swap", "swapped", "flag", "free", "crashed"}
        /\ mpc \in {"ready", "search", "call", "range", "whole", "inner", "check"}
    BY DEF PlaceInv, ThreadInv, TodoInv, Holding
  <2>6. ref \in [Searches -> [how : {"no", "look", "counted", "plain", "held", "done"},
                              at : {"tree", "old", "freed"}]]
    BY DEF SearchInv, RefInv
  <2>. QED
    BY <2>1, <2>2, <2>3, <2>4, <2>5, <2>6 DEF TypeOK
<1>. QED
  BY <1>1, PlaceInvInit, PlaceInvStep, SearchInvInit, SearchInvStep, PTL DEF Spec

-------------------------------------------------------------------------------
(* What is in the tree.                                                        *)

\* The content once the LIO thread has done the rest of its operation.  In the
\* inner subtree the parts of the tree are a call apart.
Outcome ==
    IF mpc = "inner" THEN DoneAll(Plus(above, Done(below, Head(todo))), Tail(todo))
    ELSE IF mpc = "check" THEN DoneAll(Content, Tail(todo))
    ELSE DoneAll(Content, todo)

\* What a rebuild is to put in its place.
Part == IF ptr = "root" THEN Content ELSE below

\* The copy and the log make the part of the tree that is rebuilt; before there is
\* a copy, and from the swap on, nothing is logged.
LogInv ==
    /\ log # <<>> => rpc \in {"build", "lock", "replay", "crashed"}
    /\ rpc \in {"build", "lock", "replay", "swap"} => Gives(copy, log, Part)

ContentInv ==
    /\ covered => above = Empty
    /\ ~late /\ ~unseen => Outcome = expected /\ LogInv

LEMMA ContentInvInit == Init => ContentInv
<1>. SUFFICES ASSUME Init PROVE ContentInv
  OBVIOUS
<1>1. PICK bag \in [Points -> {0, 1}] :
        above = Only(bag, Points \ Below) /\ below = Only(bag, Below) /\ expected = bag
  BY DEF Init
<1>2. bag \in Bags
  BY DEF Bags
<1>3. Plus(above, below) = expected
  BY <1>1, <1>2, BagIs
<1>4. DoneAll(expected, <<>>) = expected
  BY DEF DoneAll
<1>. QED
  BY <1>3, <1>4 DEF Init, ContentInv, LogInv, Outcome, Content

\* A step that leaves the tree and the LIO thread alone.
LEMMA OutcomeSame ==
  ASSUME UNCHANGED <<above, below, covered, mpc, todo>>
  PROVE  Outcome' = Outcome /\ Content' = Content
BY DEF Outcome, Content

\* Nothing of the rebuild is touched.
LEMMA LogInvSame ==
  ASSUME LogInv, UNCHANGED <<log, copy, ptr, rpc>>, Part' = Part
  PROVE  LogInv'
BY DEF LogInv, Gives

\* Between two operations.
LEMMA ReadyOutcome ==
  ASSUME PlaceInv, mpc \in {"ready", "search"}
  PROVE  Outcome = Content /\ Content \in Bags
<1>1. todo = <<>>
  BY DEF PlaceInv, TodoInv
<1>2. Content \in Bags
  BY BagIs DEF PlaceInv, DataInv, Content
<1>. QED
  BY <1>1, <1>2 DEF Outcome, DoneAll

LEMMA ContentInvStart ==
  ASSUME PlaceInv, ContentInv, PlaceInv',
         \/ \E p \in Points : AddPoint(p) \/ AddDownsampled(p)
         \/ \E a, b \in Points : DeleteBox(a, b)
  PROVE  ContentInv'
<1>1. PICK call \in Calls :
        /\ Start(<<call>>) /\ (mpc' = Path \/ mpc' = "call")
        /\ \/ expected' = Done(expected, call)
           \/ expected' = expected /\ call.kind = "range" /\ call.box = {}
  BY StartIs
<1>2. /\ mpc = "ready" /\ todo' = <<call>>
      /\ UNCHANGED <<above, below, covered, ptr, log, rpc, copy, late, unseen>>
  BY <1>1 DEF Start, tree, rebuild
<1>3. mpc' \in {"call", "whole"}
  BY <1>1 DEF Path
<1>4. Content' = Content /\ Content \in Bags /\ Outcome = Content
  BY <1>2, ReadyOutcome DEF Content
<1>5. Outcome' = Done(Content, call)
  BY <1>2, <1>3, <1>4, DoneAllIs DEF Outcome, DoneAll
<1>6. call.kind = "range" /\ call.box = {} => Done(Content, call) = Content
  <2>1. Points \ {} = Points
    OBVIOUS
  <2>. QED
    BY <1>4, <2>1, BagIs DEF Done
<1>7. ~late /\ ~unseen => Outcome' = expected'
  BY <1>1, <1>4, <1>5, <1>6 DEF ContentInv
<1>8. LogInv => LogInv'
  <2>1. Part' = Part
    BY <1>2, <1>4 DEF Part
  <2>. QED
    BY <1>2, <2>1, LogInvSame
<1>. QED
  BY <1>2, <1>7, <1>8 DEF ContentInv

\* A call on what is in the tree is one on its two parts.
LEMMA PartsDone ==
  ASSUME PlaceInv, ContentInv, todo # <<>>, covered => Head(todo).kind = "push"
  PROVE  Done(Content, Head(todo)) =
           Plus(AboveDone(Head(todo)), IF MeetsInner(Head(todo)) THEN Done(below, Head(todo)) ELSE below)
<1>. DEFINE call == Head(todo)
<1>1. call \in Calls /\ (call.kind = "push" => call.box = Points)
  BY RestIs DEF PlaceInv, TodoInv
<1>2. above \in Bags /\ below \in Bags /\ Empty \in Bags
  BY BagIs DEF PlaceInv, DataInv
<1>. HIDE DEF call
<1>3. CASE covered
  <2>1. call.kind = "push" /\ Content = Empty /\ above = Empty
    BY <1>3 DEF call, Content, ContentInv
  <2>2. Points \ call.box = {}
    BY <1>1, <2>1
  <2>3. Done(above, call) = Empty /\ Done(below, call) = Empty
    BY <1>2, <2>1, <2>2, BagIs DEF Done
  <2>4. AboveDone(call) = Empty /\ MeetsInner(call)
    BY <2>1, <2>3 DEF AboveDone, MeetsInner
  <2>5. Plus(Empty, Empty) = Empty
    BY <1>2, BagIs
  <2>. QED
    BY <2>1, <2>3, <2>4, <2>5 DEF call
<1>4. CASE ~covered
  <2>1. Content = Plus(above, below)
    BY <1>4 DEF Content
  <2>2. CASE call.kind # "add"
    BY <1>1, <1>2, <2>1, <2>2, DoneToParts DEF AboveDone, MeetsInner, call
  <2>3. CASE call.kind = "add" /\ call.p \in Below
    BY <1>1, <1>2, <2>1, <2>3, DoneToParts DEF AboveDone, MeetsInner, call
  <2>4. CASE call.kind = "add" /\ call.p \notin Below
    BY <1>1, <1>2, <2>1, <2>4, DoneToParts DEF AboveDone, MeetsInner, call
  <2>. QED
    BY <2>2, <2>3, <2>4
<1>. QED
  BY <1>3, <1>4

\* A step on a part of the tree that the rebuild thread has not copied, or that it
\* will not know of.
LEMMA LogInvElsewhere ==
  ASSUME PlaceInv, LogInv, UNCHANGED <<log, copy, ptr, rpc>>,
         ptr = "inner" => below' = below,
         ptr = "root" => rpc \notin {"build", "lock", "replay", "swap"}
  PROVE  LogInv'
<1>1. ptr = "null" => rpc \notin {"build", "lock", "replay", "swap"}
  BY DEF PlaceInv, ThreadInv
<1>2. CASE ptr = "inner"
  <2>1. Part' = Part
    BY <1>2 DEF Part
  <2>. QED
    BY <2>1, LogInvSame
<1>3. CASE ptr # "inner"
  <2>1. rpc \notin {"build", "lock", "replay", "swap"}
    BY <1>1, <1>3 DEF PlaceInv, ThreadInv
  <2>. QED
    BY <2>1 DEF LogInv
<1>. QED
  BY <1>2, <1>3

LEMMA ContentInvMain ==
  ASSUME PlaceInv, ContentInv, PlaceInv', MainStep
  PROVE  ContentInv'
<1>0. /\ Content \in Bags /\ above \in Bags /\ below \in Bags /\ Empty \in Bags
      /\ todo \in Operations
  BY BagIs DEF PlaceInv, DataInv, TodoInv, Content
<1>1. CASE BeginRange \/ EndSearch
  <2>1. /\ mpc \in {"call", "search"} /\ mpc' \in {"range", "ready"}
        /\ UNCHANGED <<above, below, covered, ptr, log, rpc, copy, todo, expected, late, unseen>>
    BY <1>1 DEF BeginRange, EndSearch, tree, rebuild, ghosts
  <2>2. Outcome' = Outcome /\ Part' = Part
    BY <2>1 DEF Outcome, Content, Part
  <2>. QED
    BY <2>1, <2>2, LogInvSame DEF ContentInv
<1>2. CASE EndRange
  <2>1. /\ mpc = "range" /\ mpc' \in {"ready", "call", "whole"}
        /\ UNCHANGED <<above, below, covered, ptr, log, rpc, copy, late, unseen>>
    BY <1>2 DEF EndRange, Path, tree, rebuild
  <2>2. /\ Head(todo).kind = "range" /\ Head(todo).box = {} /\ todo # <<>> /\ Len(Tail(todo)) = 0
        /\ Head(todo) \in Calls
    BY <2>1, RestIs DEF PlaceInv, TodoInv
  <2>3. Done(Content, Head(todo)) = Content
    BY <1>0, <2>2, DoneIs, BagIs DEF Done
  <2>4. Outcome = Content
    <3>1. Outcome = DoneAll(Content, todo)
      BY <2>1 DEF Outcome
    <3>2. DoneAll(Content, todo) = DoneAll(Done(Content, Head(todo)), Tail(todo))
      BY <1>0, <2>2, DoneAllIs
    <3>3. DoneAll(Content, Tail(todo)) = Content
      BY <2>2, SMTT(30) DEF DoneAll
    <3>. QED
      BY <2>3, <3>1, <3>2, <3>3
  <2>5. expected' = DoneAll(expected, todo')
    BY <1>2, EndRangeIs DEF PlaceInv
  <2>6. Outcome' = DoneAll(Content, todo') /\ Part' = Part
    BY <2>1 DEF Outcome, Content, Part
  <2>. QED
    BY <2>1, <2>4, <2>5, <2>6, LogInvSame DEF ContentInv
<1>3. CASE PushFirst
  <2>1. Content = Empty /\ Content' = Empty /\ Part' = Part
    BY <1>3, PushFirstIs DEF ContentInv, Content, Part
  <2>2. Done(Empty, todo'[1]) = Empty
    <3>1. Points \ todo'[1].box = {} /\ todo'[1].kind # "add"
      BY <1>3, PushFirstIs
    <3>. QED
      BY <1>0, <3>1, BagIs DEF Done
  <2>3. Outcome = Done(Empty, todo[1])
    BY <1>3, <2>1, PushFirstIs DEF Outcome, DoneAll
  <2>4. Outcome' = Done(Done(Empty, todo'[1]), todo'[2])
    BY <1>3, <2>1, PushFirstIs DEF Outcome, DoneAll
  <2>5. Outcome' = Outcome
    BY <1>3, <2>2, <2>3, <2>4, PushFirstIs
  <2>. QED
    BY <1>3, <2>1, <2>5, PushFirstIs, LogInvSame DEF ContentInv
<1>4. CASE NothingLeft
  <2>1. /\ mpc = "call" /\ todo # <<>> /\ Head(todo).kind = "box" /\ covered
        /\ todo' = Tail(todo) /\ mpc' \in {"ready", "call"}
        /\ UNCHANGED <<above, below, covered, ptr, log, rpc, copy, expected, late, unseen>>
    BY <1>4 DEF NothingLeft, Unlocked, tree, rebuild
  <2>2. Content = Empty /\ Content' = Empty /\ Part' = Part
    BY <2>1 DEF ContentInv, Content, Part
  <2>3. Done(Empty, Head(todo)) = Empty
    <3>1. \A S : Only(Empty, S) = Empty
      BY DEF Only, Empty
    <3>. QED
      BY <2>1, <3>1 DEF Done
  <2>4. Outcome = DoneAll(Empty, Tail(todo))
    <3>1. Outcome = DoneAll(Empty, todo)
      BY <2>1, <2>2 DEF Outcome
    <3>2. DoneAll(Empty, todo) = DoneAll(Done(Empty, Head(todo)), Tail(todo))
      BY <1>0, <2>1, DoneAllIs
    <3>. QED
      BY <2>3, <3>1, <3>2
  <2>5. Outcome' = DoneAll(Empty, Tail(todo))
    BY <2>1, <2>2 DEF Outcome
  <2>. QED
    BY <2>1, <2>2, <2>4, <2>5, LogInvSame DEF ContentInv
<1>5. CASE CoverRoot
  <2>1. /\ mpc = "call" /\ todo # <<>> /\ Covers(Head(todo))
        /\ todo' = Tail(todo) /\ mpc' \in {"ready", "call"}
        /\ above' = Empty /\ covered' = TRUE
        /\ UNCHANGED <<below, ptr, log, rpc, copy, expected, late>>
    BY <1>5 DEF CoverRoot, Unlocked, rebuild
  <2>2. ~unseen' => ~unseen /\ ~GoesUnseen
    BY <1>5 DEF CoverRoot
  <2>3. Content' = Empty
    BY <2>1 DEF Content
  <2>4. Done(Content, Head(todo)) = Empty
    <3>1. Head(todo).kind = "box" /\ \A p \in Points \ Head(todo).box : Content[p] = 0
      BY <2>1 DEF Covers
    <3>. QED
      BY <3>1 DEF Done, Only, Empty
  <2>5. Outcome = DoneAll(Empty, Tail(todo))
    BY <1>0, <2>1, <2>4, DoneAllIs DEF Outcome
  <2>6. Outcome' = DoneAll(Empty, Tail(todo))
    BY <2>1, <2>3 DEF Outcome
  <2>7. ~unseen' /\ LogInv => LogInv'
    BY <2>1, <2>2, LogInvElsewhere DEF GoesUnseen
  <2>. QED
    BY <2>1, <2>2, <2>5, <2>6, <2>7 DEF ContentInv
<1>6. CASE ThroughRoot
  <2>. DEFINE call == Head(todo)
  <2>1. /\ mpc = "call" /\ todo # <<>> /\ (covered => call.kind = "push")
        /\ above' = AboveDone(call)
        /\ UNCHANGED <<ptr, log, rpc, copy, expected, late, todo>>
    BY <1>6 DEF ThroughRoot, Unlocked, rebuild, NeedsPush
  <2>2. Done(Content, call) = Plus(AboveDone(call), IF MeetsInner(call) THEN Done(below, call) ELSE below)
    BY <2>1, PartsDone
  <2>3. Outcome = DoneAll(Done(Content, call), Tail(todo))
    BY <1>0, <2>1, DoneAllIs DEF Outcome
  <2>4. CASE ptr = "inner" /\ MeetsInner(call)
    <3>1. mpc' = "inner" /\ UNCHANGED <<below, covered, unseen>>
      BY <1>6, <2>4 DEF ThroughRoot
    <3>2. Outcome' = Outcome
      BY <2>1, <2>2, <2>3, <2>4, <3>1 DEF Outcome
    <3>3. covered' => above' = Empty
      <4>. SUFFICES ASSUME covered PROVE above' = Empty
        BY <3>1
      <4>1. call.kind = "push" /\ above = Empty
        BY <2>1 DEF ContentInv
      <4>2. Done(Empty, call) = Empty
        BY <4>1 DEF Done, Only, Empty
      <4>. QED
        BY <2>1, <4>1, <4>2 DEF AboveDone
    <3>4. LogInv => LogInv'
      BY <2>1, <2>4, <3>1, LogInvElsewhere
    <3>. QED
      BY <2>1, <3>1, <3>2, <3>3, <3>4 DEF ContentInv
  <2>5. CASE ~(ptr = "inner" /\ MeetsInner(call))
    <3>1. /\ below' = IF MeetsInner(call) THEN Done(below, call) ELSE below
          /\ covered' = IF call.kind = "push" THEN FALSE ELSE covered
          /\ mpc' = "check"
      BY <1>6, <2>5 DEF ThroughRoot
    <3>2. ~unseen' => ~unseen /\ ~GoesUnseen
      BY <1>6, <2>5 DEF ThroughRoot
    <3>3. ~covered'
      BY <2>1, <3>1
    <3>4. Content' = Done(Content, call)
      BY <2>1, <2>2, <3>1, <3>3 DEF Content
    <3>5. Outcome' = Outcome
      BY <2>1, <2>3, <3>1, <3>4 DEF Outcome
    <3>6. ~unseen' /\ LogInv => LogInv'
      BY <2>1, <2>5, <3>1, <3>2, LogInvElsewhere DEF GoesUnseen
    <3>. QED
      BY <2>1, <3>2, <3>3, <3>5, <3>6 DEF ContentInv
  <2>. QED
    BY <2>4, <2>5
<1>7. CASE Check
  <2>1. /\ mpc = "check" /\ mpc' \in {"ready", "call"} /\ todo' = Tail(todo)
        /\ UNCHANGED <<above, below, covered, log, rpc, copy, expected, late, unseen>>
    BY <1>7 DEF Check, tree, rebuild, ghosts
  <2>2. Outcome' = Outcome
    BY <2>1 DEF Outcome, Content
  <2>3. ptr' = ptr \/ rpc \in {"idle", "crashed"}
    BY <1>7 DEF Check, CanAsk
  <2>4. LogInv => LogInv'
    <3>1. CASE ptr' = ptr
      <4>1. Part' = Part
        BY <2>1, <3>1 DEF Part, Content
      <4>. QED
        BY <2>1, <3>1, <4>1, LogInvSame
    <3>2. CASE rpc \in {"idle", "crashed"}
      BY <2>1, <3>2 DEF LogInv
    <3>. QED
      BY <2>3, <3>1, <3>2
  <2>. QED
    BY <2>1, <2>2, <2>4 DEF ContentInv
<1>. QED
  BY <1>1, <1>2, <1>3, <1>4, <1>5, <1>6, <1>7 DEF MainStep

\* A critical section of the LIO thread: what it does to the part under rebuild is
\* logged, once there is a copy.
LEMMA LogInvLogged ==
  ASSUME PlaceInv, LogInv, working = "none", NEW calls \in Operations, Log(calls), ~late',
         UNCHANGED <<ptr, rpc, copy>>,
         ptr # "null" => Part' = DoneAll(Part, calls)
  PROVE  LogInv'
<1>1. rpc \notin Holding /\ log \in Seq(Operations)
  BY DEF PlaceInv, ThreadInv, DataInv
<1>2. CASE flag
  <2>1. ptr # "null" /\ log' = Append(log, calls)
    BY <1>2 DEF Log
  <2>2. rpc \in {"build", "lock", "crashed"}
    BY <1>1, <1>2, <2>1 DEF PlaceInv, ThreadInv
  <2>3. rpc \in {"build", "lock"} => Gives(copy, Append(log, calls), DoneAll(Part, calls))
    BY <1>1, GivesMore DEF LogInv
  <2>. QED
    BY <2>1, <2>2, <2>3 DEF LogInv
<1>3. CASE ~flag
  <2>1. log' = log /\ rpc \notin {"build", "lock"}
    BY <1>3 DEF Log, PlaceInv, ThreadInv
  <2>. QED
    BY <1>1, <2>1 DEF LogInv, Holding
<1>. QED
  BY <1>2, <1>3

LEMMA ContentInvLocks ==
  ASSUME PlaceInv, ContentInv, PlaceInv', MainLocks
  PROVE  ContentInv'
<1>0. /\ Content \in Bags /\ above \in Bags /\ below \in Bags /\ todo \in Operations
  BY BagIs DEF PlaceInv, DataInv, TodoInv, Content
<1>1. CASE InInner
  <2>1. /\ mpc = "inner" /\ working = "none" /\ mpc' = "check"
        /\ below' = Done(below, Head(todo)) /\ Log(<<Head(todo)>>)
        /\ covered' = IF Head(todo).kind = "push" THEN FALSE ELSE covered
        /\ UNCHANGED <<above, ptr, rpc, copy, todo, expected, unseen>>
    BY <1>1 DEF InInner, rebuild
  <2>2. todo # <<>> /\ Head(todo) \in Calls /\ <<Head(todo)>> \in Operations
    BY <2>1, RestIs, OneCall DEF PlaceInv, TodoInv
  <2>3. ~covered'
    BY <2>1 DEF PlaceInv, TodoInv
  <2>4. Content' = Plus(above, Done(below, Head(todo)))
    BY <2>1, <2>3 DEF Content
  <2>5. Outcome' = Outcome
    BY <2>1, <2>4 DEF Outcome
  <2>6. ptr # "null" => Part' = DoneAll(Part, <<Head(todo)>>)
    <3>1. DoneAll(below, <<Head(todo)>>) = Done(below, Head(todo))
      BY <1>0, <2>2, DoneAllIs
    <3>2. ptr # "root"
      BY <2>1 DEF PlaceInv, TodoInv
    <3>. QED
      BY <2>1, <3>1, <3>2 DEF Part
  <2>7. late => late'
    BY <2>1, <2>2, LogIs
  <2>8. ~late' /\ LogInv => LogInv'
    BY <2>1, <2>2, <2>6, LogInvLogged
  <2>. QED
    BY <2>1, <2>3, <2>5, <2>7, <2>8 DEF ContentInv
<1>2. CASE InWhole
  <2>. DEFINE all == DoneAll(Content, todo)
  <2>1. /\ mpc = "whole" /\ working = "none" /\ mpc' = "ready" /\ todo' = <<>>
        /\ above' = Only(all, Points \ Below) /\ below' = Only(all, Below) /\ covered' = FALSE
        /\ Log(todo) /\ UNCHANGED <<ptr, rpc, copy, expected, unseen>>
    BY <1>2 DEF InWhole, rebuild
  <2>2. all \in Bags /\ Outcome = all
    BY <1>0, <2>1, DoneAllIs DEF Outcome
  <2>. HIDE DEF all
  <2>3. Content' = all
    BY <2>1, <2>2, BagIs DEF Content
  <2>4. Outcome' = all
    BY <2>1, <2>3 DEF Outcome, DoneAll
  <2>5. ptr # "null" => Part' = DoneAll(Part, todo)
    BY <2>1, <2>3 DEF all, Part, PlaceInv, TodoInv, ThreadInv
  <2>6. late => late'
    BY <1>0, <2>1, LogIs
  <2>7. ~late' /\ LogInv => LogInv'
    BY <1>0, <2>1, <2>5, LogInvLogged
  <2>. QED
    BY <2>1, <2>2, <2>4, <2>6, <2>7 DEF ContentInv
<1>. QED
  BY <1>1, <1>2 DEF MainLocks

LEMMA ContentInvSearches ==
  ASSUME PlaceInv, ContentInv, BeginSearch \/ \E r \in Readers : ReaderStep(r)
  PROVE  ContentInv'
<1>1. CASE BeginSearch
  <2>1. /\ mpc = "ready" /\ mpc' = "search"
        /\ UNCHANGED <<above, below, covered, ptr, log, rpc, copy, todo, expected, late, unseen>>
    BY <1>1 DEF BeginSearch, tree, rebuild, ghosts
  <2>2. Outcome' = Outcome /\ Part' = Part
    BY <2>1 DEF Outcome, Content, Part
  <2>. QED
    BY <2>1, <2>2, LogInvSame DEF ContentInv
<1>2. CASE \E r \in Readers : ReaderStep(r)
  <2>1. UNCHANGED <<above, below, covered, ptr, log, rpc, copy, mpc, todo, expected, late, unseen>>
    BY <1>2 DEF ReaderStep, Look, Enter, Leave, PassBy, tree, rebuild, main, ghosts
  <2>2. Outcome' = Outcome /\ Part' = Part
    BY <2>1 DEF Outcome, Content, Part
  <2>. QED
    BY <2>1, <2>2, LogInvSame DEF ContentInv
<1>. QED
  BY <1>1, <1>2

LEMMA ContentInvRebuild ==
  ASSUME PlaceInv, ContentInv, RebuildStep \/ RebuildLocks
  PROVE  ContentInv'
<1>0. Content \in Bags /\ copy \in Bags /\ below \in Bags /\ log \in Seq(Operations)
  BY BagIs DEF PlaceInv, DataInv, Content
<1>1. CASE ~Swap
  <2>1. UNCHANGED <<above, below, covered, mpc, todo, expected, late, unseen>>
    BY <1>1 DEF RebuildStep, RebuildLocks, LockPtr, LockWorking, LockSearch, Flatten, Build, LockReplay, Replay,
               LockSwap, UnlockSwap, ClearFlag, Free, Unmoved, main
  <2>2. Outcome' = Outcome
    BY <2>1, OutcomeSame
  <2>3. ptr' = ptr => Part' = Part
    BY <2>1, OutcomeSame DEF Part
  <2>. SUFFICES ASSUME LogInv PROVE LogInv'
    BY <2>1, <2>2 DEF ContentInv
  <2>4. CASE LockPtr \/ LockWorking \/ LockSearch \/ UnlockSwap \/ ClearFlag \/ Free
    <3>1. /\ rpc \in {"idle", "locked", "search", "swapped", "flag", "free"} /\ UNCHANGED log
          /\ rpc' \notin {"build", "lock", "replay", "swap"}
      BY <2>4 DEF LockPtr, LockWorking, LockSearch, UnlockSwap, ClearFlag, Free
    <3>. QED
      BY <3>1 DEF LogInv
  <2>5. CASE Build \/ LockReplay \/ LockSwap
    <3>1. /\ UNCHANGED <<log, copy, ptr>> /\ rpc \in {"build", "lock", "replay"}
          /\ rpc' \in {"build", "lock", "replay", "crashed"} \/ log = <<>>
      BY <2>5 DEF Build, LockReplay, LockSwap
    <3>. QED
      BY <2>3, <3>1 DEF LogInv, Gives
  <2>6. CASE Flatten
    <3>1. /\ rpc = "flatten" /\ rpc' = "build" /\ UNCHANGED <<log, ptr>>
          /\ copy' = Part
      BY <2>6 DEF Flatten, Part
    <3>2. log = <<>> /\ Part \in Bags
      BY <1>0, <3>1 DEF LogInv, Part
    <3>3. Gives(Part, <<>>, Part)
      BY <3>2, GivesNone
    <3>. QED
      BY <2>3, <3>1, <3>2, <3>3 DEF LogInv
  <2>7. CASE Replay
    <3>1. /\ rpc = "replay" /\ rpc' = "lock" /\ log # <<>> /\ UNCHANGED ptr
          /\ copy' = DoneAll(copy, Head(log)) /\ log' = Tail(log)
      BY <2>7 DEF Replay
    <3>2. Gives(copy', log', Part)
      BY <1>0, <3>1, GivesRest DEF LogInv
    <3>. QED
      BY <2>3, <3>1, <3>2 DEF LogInv
  <2>. QED
    BY <1>1, <2>4, <2>5, <2>6, <2>7 DEF RebuildStep, RebuildLocks
<1>2. CASE Swap
  <2>1. /\ rpc = "swap" /\ rpc' = "swapped"
        /\ UNCHANGED <<ptr, log, copy, mpc, todo, expected, late, unseen>>
        /\ IF ptr = "root"
             THEN above' = Only(copy, Points \ Below) /\ below' = Only(copy, Below) /\ covered' = FALSE
             ELSE below' = copy /\ UNCHANGED <<above, covered>>
    BY <1>2 DEF Swap, main, ghosts
  <2>2. covered' => covered /\ above' = above
    BY <2>1
  <2>3. ASSUME LogInv
        PROVE  LogInv' /\ Outcome' = Outcome
    <3>1. log = <<>> /\ copy = Part
      BY <1>0, <2>1, <2>3, GivesNone DEF LogInv
    <3>2. LogInv'
      BY <2>1, <3>1 DEF LogInv
    <3>3. CASE ptr = "root"
      <4>1. Content' = Content
        <5>1. copy = Content
          BY <3>1, <3>3 DEF Part
        <5>2. Content' = Plus(Only(copy, Points \ Below), Only(copy, Below))
          BY <2>1, <3>3 DEF Content
        <5>. QED
          BY <1>0, <5>1, <5>2, BagIs
      <4>2. mpc # "inner"
        BY <3>3 DEF PlaceInv, TodoInv
      <4>3. Outcome' = Outcome
        BY <2>1, <4>1, <4>2 DEF Outcome
      <4>. QED
        BY <3>2, <4>3
    <3>4. CASE ptr # "root"
      <4>1. below' = below /\ UNCHANGED <<above, covered>>
        BY <2>1, <3>1, <3>4 DEF Part
      <4>2. Outcome' = Outcome
        BY <2>1, <4>1, OutcomeSame
      <4>. QED
        BY <3>2, <4>2
    <3>. QED
      BY <3>3, <3>4
  <2>. QED
    BY <2>1, <2>2, <2>3 DEF ContentInv
<1>. QED
  BY <1>1, <1>2

\* The rebuild changes the shape of the tree and not what is in it: between two
\* operations it holds what the operations so far leave in a tree, for any points
\* and any operations, unless one was logged after its rebuild had ended or went
\* to a root under rebuild without a lock.  (KD_TREE, multi_thread_rebuild.)
THEOREM Kept == Spec => []ContentKept
<1>1. PlaceInv /\ ContentInv => ContentKept
  BY ReadyOutcome DEF ContentKept, ContentInv
<1>2. PlaceInv /\ ContentInv /\ [Next]_vars => ContentInv'
  <2>. SUFFICES ASSUME PlaceInv, ContentInv, [Next]_vars
                PROVE  ContentInv'
    OBVIOUS
  <2>1. PlaceInv'
    BY PlaceInvStep
  <2>2. CASE UNCHANGED vars
    <3>1. UNCHANGED <<above, below, covered, ptr, log, rpc, copy, mpc, todo, expected, late, unseen>>
      BY <2>2 DEF vars, tree, rebuild, main, ghosts
    <3>2. Outcome' = Outcome /\ Part' = Part
      BY <3>1 DEF Outcome, Content, Part
    <3>. QED
      BY <3>1, <3>2, LogInvSame DEF ContentInv
  <2>. QED
    BY <2>1, <2>2, ContentInvStart, ContentInvMain, ContentInvLocks, ContentInvSearches, ContentInvRebuild DEF Next
<1>. QED
  BY <1>1, <1>2, PlaceInvInit, PlaceInvStep, ContentInvInit, PTL DEF Spec

=================================================================================
