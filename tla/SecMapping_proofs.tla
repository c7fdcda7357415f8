--------------------------- MODULE SecMapping_proofs ---------------------------
(* Theorems about SecMapping: its types, and that keyframes of a second mapping    *)
(* stand on the whole map, for maps and sessions of any length.                   *)

EXTENDS SecMapping, TLAPS

-------------------------------------------------------------------------------
(* The inductive invariant.                                                      *)

\* How far a load has come tells what is in the store.
LoadInv ==
    /\ store.scs <= disk.scs /\ store.poses <= disk.poses /\ store.clouds <= store.poses
    /\ load \in {"poses", "clouds", "publish", "running"} => store.scs = disk.scs
    /\ load \in {"clouds", "publish", "running"} => store.poses = disk.poses
    /\ load \in {"publish", "running"} => store.clouds = disk.poses /\ store.ready

\* A scan needs a running session, a match needs a scan, and a success a match:
\* what is read after a success is the whole map.
SuccessInv ==
    /\ scanned => load = "running"
    /\ reloc = "match" => scanned
    /\ success => load = "running"

\* One attempt beyond the allowed ones, and then the thread has given up.
CountInv ==
    count > Times => reloc = "count" \/ (reloc = "idle" /\ status = "RelocalizeFailed")

\* The loop thread collects the whole map, while the back end still waits for it.
TakenInv ==
    /\ loop # "idle" => load = "running" /\ ~be.ready /\ taken.clouds = disk.poses
    /\ loop \notin {"idle", "poses"} => taken.poses = disk.poses
    /\ loop \notin {"idle", "poses", "scs"} => taken.scs = disk.scs
    /\ loop = "append" => be.clouds = disk.poses

\* A keyframe in the making is one of those allowed.
OwnInv == lio = "cloud" => own < MaxScans

IInv ==
    /\ TypeOK
    /\ LoadInv
    /\ SuccessInv
    /\ CountInv
    /\ TakenInv
    /\ OwnInv
    /\ MapUnderOwnKeyFrames

-------------------------------------------------------------------------------
(* It holds at the start: nothing has been read, taken or added.                  *)
LEMMA InitIInv == Init => IInv
<1> SUFFICES ASSUME Init PROVE IInv
  OBVIOUS
<1> USE NumbersAssumption
<1>1. TypeOK
  <2>1. 0 \in Lengths /\ "none" \in Clouds /\ 0 \in 0..(Times + 1) /\ 0 \in 0..MaxScans
    BY DEF Lengths, Clouds
  <2> QED
    BY <2>1 DEF Init, TypeOK
<1>2. LoadInv /\ SuccessInv /\ CountInv /\ TakenInv /\ OwnInv
  BY DEF Init, LoadInv, SuccessInv, CountInv, TakenInv, OwnInv, Maps
<1>3. MapUnderOwnKeyFrames
  BY DEF Init, MapUnderOwnKeyFrames, Maps
<1> QED
  BY <1>1, <1>2, <1>3 DEF IInv

-------------------------------------------------------------------------------
\* The lengths on disk are bounded, and those in the store are numbers.
LEMMA LengthsAreNumbers ==
  ASSUME IInv
  PROVE  /\ disk.scs \in 0..MaxLen /\ disk.poses \in 0..MaxLen /\ disk.clouds \in 0..MaxLen
         /\ store.scs \in Nat /\ store.poses \in Nat /\ store.clouds \in Nat
  BY NumbersAssumption DEF IInv, TypeOK, Maps, Lengths

(* The callback loads: it writes the store, its own place and the success flag.    *)
LEMMA LoadStep == IInv /\ Load => IInv'
<1> SUFFICES ASSUME IInv, Load PROVE IInv'
  OBVIOUS
<1> USE LengthsAreNumbers, NumbersAssumption DEF IInv
<1>1. CASE ResetMap
  <2>1. TypeOK'
    <3>1. store' \in [cloud : Clouds, scs : Lengths, poses : Lengths, clouds : Lengths,
                      ready : BOOLEAN]
      BY <1>1 DEF ResetMap, TypeOK, Clouds
    <3>2. load' \in {"failed", "fill"} /\ success' = FALSE
      BY <1>1 DEF ResetMap
    <3>3. UNCHANGED <<disk, status, reloc, copy, count, loop, taken, lio, own, scanned, be>>
      BY <1>1 DEF ResetMap, loops, lios
    <3> QED
      BY <3>1, <3>2, <3>3, ZenonT(30) DEF TypeOK
  <2>2. LoadInv' /\ SuccessInv' /\ CountInv' /\ TakenInv' /\ OwnInv'
    BY <1>1 DEF ResetMap, loops, lios, TypeOK, LoadInv, SuccessInv, CountInv, TakenInv, OwnInv
  <2>3. MapUnderOwnKeyFrames'
    BY <1>1 DEF ResetMap, loops, lios, MapUnderOwnKeyFrames
  <2> QED
    BY <2>1, <2>2, <2>3 DEF IInv
<1>2. CASE FillCloud
  BY <1>2 DEF FillCloud, WholeCloud, relocs, loops, lios, TypeOK, Clouds, Lengths, LoadInv,
        SuccessInv, CountInv, TakenInv, OwnInv, MapUnderOwnKeyFrames
<1>3. CASE LoadLine
  BY <1>3 DEF LoadLine, relocs, loops, lios, TypeOK, Clouds, Lengths, LoadInv, SuccessInv,
        CountInv, TakenInv, OwnInv, MapUnderOwnKeyFrames
<1>4. CASE LoadPose
  BY <1>4 DEF LoadPose, relocs, loops, lios, TypeOK, Clouds, Lengths, LoadInv, SuccessInv,
        CountInv, TakenInv, OwnInv, MapUnderOwnKeyFrames
<1>5. CASE LoadKeyCloud
  <2>1. TypeOK'
    <3>1. store' \in [cloud : Clouds, scs : Lengths, poses : Lengths, clouds : Lengths,
                      ready : BOOLEAN]
      <4>1. store.clouds < disk.clouds => store.clouds + 1 \in Lengths
        BY DEF Lengths
      <4>2. \/ store' = store
            \/ store' = [store EXCEPT !.clouds = @ + 1] /\ store.clouds < disk.clouds
            \/ store' = [store EXCEPT !.ready = TRUE]
        BY <1>5 DEF LoadKeyCloud
      <4> QED
        BY <4>1, <4>2 DEF TypeOK
    <3>2. load' \in {"clouds", "failed", "publish"}
      BY <1>5 DEF LoadKeyCloud
    <3> QED
      BY <1>5, <3>1, <3>2 DEF LoadKeyCloud, relocs, loops, lios, TypeOK
  <2>2. LoadInv' /\ SuccessInv' /\ CountInv' /\ TakenInv' /\ OwnInv'
    BY <1>5 DEF LoadKeyCloud, relocs, loops, lios, TypeOK, Lengths, LoadInv, SuccessInv, CountInv,
          TakenInv, OwnInv
  <2>3. MapUnderOwnKeyFrames'
    BY <1>5 DEF LoadKeyCloud, loops, lios, MapUnderOwnKeyFrames
  <2> QED
    BY <2>1, <2>2, <2>3 DEF IInv
<1>6. CASE StartSession
  BY <1>6 DEF StartSession, relocs, loops, lios, TypeOK, Clouds, Lengths, LoadInv, SuccessInv,
        CountInv, TakenInv, OwnInv, MapUnderOwnKeyFrames
<1> QED
  BY <1>1, <1>2, <1>3, <1>4, <1>5, <1>6 DEF Load

\* The relocalization writes its copies, the count, the status and the success flag.
LEMMA RelocalizeStep == IInv /\ Relocalize => IInv'
<1> SUFFICES ASSUME IInv, Relocalize PROVE IInv'
  OBVIOUS
<1> USE LengthsAreNumbers, NumbersAssumption DEF IInv
<1>1. CASE BeginPeriod
  BY <1>1 DEF BeginPeriod, loader, loops, lios, TypeOK, Clouds, Lengths, LoadInv, SuccessInv,
        CountInv, TakenInv, OwnInv, MapUnderOwnKeyFrames
<1>2. CASE SetGlobalMap
  BY <1>2 DEF SetGlobalMap, loader, loops, lios, TypeOK, Clouds, Lengths, LoadInv, SuccessInv,
        CountInv, TakenInv, OwnInv, MapUnderOwnKeyFrames
<1>3. CASE FillScManager
  BY <1>3 DEF FillScManager, loader, loops, lios, TypeOK, Clouds, Lengths, LoadInv, SuccessInv,
        CountInv, TakenInv, OwnInv, MapUnderOwnKeyFrames
<1>4. CASE Match
  <2>1. /\ reloc = "match" /\ count <= Times /\ load = "running"
    BY <1>4 DEF Match, SuccessInv, CountInv, TypeOK
  <2>2. \/ success' = TRUE /\ reloc' = "announce" /\ count' = count
        \/ success' = FALSE /\ reloc' = "count" /\ count' = count + 1
    BY <1>4 DEF Match, Counted
  <2>3. /\ UNCHANGED <<disk, load, store, status, copy, loop, taken, lio, own, scanned, be>>
    BY <1>4 DEF Match, loader, loops, lios
  <2>4. TypeOK'
    <3>1. count' \in 0..(Times + 1)
      BY <2>1, <2>2 DEF TypeOK
    <3>2. success' \in BOOLEAN /\ reloc' \in {"idle", "map", "scs", "match", "announce", "count"}
      BY <2>2
    <3> QED
      BY <2>3, <3>1, <3>2 DEF TypeOK
  <2>5. LoadInv' /\ SuccessInv' /\ CountInv' /\ TakenInv' /\ OwnInv' /\ MapUnderOwnKeyFrames'
    BY <2>1, <2>2, <2>3 DEF TypeOK, LoadInv, SuccessInv, CountInv, TakenInv, OwnInv,
          MapUnderOwnKeyFrames
  <2> QED
    BY <2>4, <2>5
<1>5. CASE Announce
  BY <1>5 DEF Announce, loader, loops, lios, TypeOK, Clouds, Lengths, LoadInv, SuccessInv,
        CountInv, TakenInv, OwnInv, MapUnderOwnKeyFrames
<1>6. CASE EndPeriod
  BY <1>6 DEF EndPeriod, Exceeded, loader, loops, lios, TypeOK, Clouds, Lengths, LoadInv,
        SuccessInv, CountInv, TakenInv, OwnInv, MapUnderOwnKeyFrames
<1> QED
  BY <1>1, <1>2, <1>3, <1>4, <1>5, <1>6 DEF Relocalize

\* The loop thread writes what it takes, and at last the back end.
LEMMA LoopClosureStep == IInv /\ LoopClosure => IInv'
<1> SUFFICES ASSUME IInv, LoopClosure PROVE IInv'
  OBVIOUS
<1> USE LengthsAreNumbers, NumbersAssumption DEF IInv
<1>1. CASE TakeClouds
  BY <1>1 DEF TakeClouds, MayTake, loader, relocs, lios, TypeOK, Clouds, Lengths, LoadInv,
        SuccessInv, CountInv, TakenInv, OwnInv, MapUnderOwnKeyFrames
<1>2. CASE TakePoses
  BY <1>2 DEF TakePoses, loader, relocs, lios, TypeOK, Clouds, Lengths, LoadInv, SuccessInv,
        CountInv, TakenInv, OwnInv, MapUnderOwnKeyFrames
<1>3. CASE TakeScs
  BY <1>3 DEF TakeScs, loader, relocs, lios, TypeOK, Clouds, Lengths, LoadInv, SuccessInv,
        CountInv, TakenInv, OwnInv, MapUnderOwnKeyFrames
<1>4. CASE CheckMapData
  BY <1>4 DEF CheckMapData, loader, relocs, lios, TypeOK, Clouds, Lengths, LoadInv, SuccessInv,
        CountInv, TakenInv, OwnInv, MapUnderOwnKeyFrames
<1>5. CASE ClearPoses
  BY <1>5 DEF ClearPoses, loader, relocs, lios, TypeOK, Clouds, Lengths, LoadInv, SuccessInv,
        CountInv, TakenInv, OwnInv, MapUnderOwnKeyFrames
<1>6. CASE AssignClouds
  BY <1>6 DEF AssignClouds, loader, relocs, lios, TypeOK, Clouds, Lengths, LoadInv, SuccessInv,
        CountInv, TakenInv, OwnInv, MapUnderOwnKeyFrames
<1>7. CASE AppendPoses
  <2>1. /\ loop = "append" /\ loop' = "idle"
        /\ be' = [poses |-> disk.poses, clouds |-> disk.poses, scs |-> disk.poses, ready |-> TRUE]
    <3>1. /\ be.poses = 0 /\ be.scs = 0 /\ be.clouds = disk.poses /\ taken.poses = disk.poses
          /\ loop = "append"
      BY <1>7 DEF AppendPoses, TakenInv, MapUnderOwnKeyFrames
    <3>2. be = [poses |-> be.poses, clouds |-> be.clouds, scs |-> be.scs, ready |-> be.ready]
      BY DEF TypeOK
    <3>3. /\ loop' = "idle"
          /\ be' = [be EXCEPT !.poses = @ + taken.poses, !.scs = @ + taken.poses, !.ready = TRUE]
      BY <1>7 DEF AppendPoses
    <3>4. be' = [poses |-> 0 + disk.poses, clouds |-> disk.poses, scs |-> 0 + disk.poses,
                 ready |-> TRUE]
      BY <3>1, <3>2, <3>3
    <3>5. 0 + disk.poses = disk.poses
      OBVIOUS
    <3> QED
      BY <3>1, <3>3, <3>4, <3>5
  <2>2. own = 0 /\ lio = "idle"
    BY <2>1 DEF TakenInv, MapUnderOwnKeyFrames
  <2>3. UNCHANGED <<disk, load, store, success, status, reloc, copy, count, taken, lio, own, scanned>>
    BY <1>7 DEF AppendPoses, loader, relocs, lios
  <2>4. TypeOK'
    <3>1. disk.poses \in Lengths
      BY DEF Lengths
    <3> QED
      BY <2>1, <2>3, <3>1 DEF TypeOK
  <2>5. LoadInv' /\ SuccessInv' /\ CountInv' /\ TakenInv' /\ OwnInv' /\ MapUnderOwnKeyFrames'
    BY <2>1, <2>2, <2>3 DEF LoadInv, SuccessInv, CountInv, TakenInv, OwnInv, MapUnderOwnKeyFrames
  <2> QED
    BY <2>4, <2>5
<1> QED
  BY <1>1, <1>2, <1>3, <1>4, <1>5, <1>6, <1>7 DEF LoopClosure

\* The LIO thread writes its own keyframes, and those into the back end.
LEMMA LioStep == IInv /\ Lio => IInv'
<1> SUFFICES ASSUME IInv, Lio PROVE IInv'
  OBVIOUS
<1> USE LengthsAreNumbers, NumbersAssumption DEF IInv
<1>1. CASE Scan
  BY <1>1 DEF Scan, Running, loader, relocs, loops, TypeOK, Clouds, Lengths, LoadInv, SuccessInv,
        CountInv, TakenInv, OwnInv, MapUnderOwnKeyFrames
<1>2. CASE AddPose
  BY <1>2 DEF AddPose, MayAdd, Running, loader, relocs, loops, TypeOK, Clouds, Lengths, LoadInv,
        SuccessInv, CountInv, TakenInv, OwnInv, MapUnderOwnKeyFrames
<1>3. CASE AddCloud
  <2>1. /\ lio = "cloud" /\ lio' = "idle" /\ own' = own + 1 /\ own \in 0..(MaxScans - 1)
        /\ be' = [be EXCEPT !.clouds = @ + 1, !.scs = @ + 1]
    BY <1>3 DEF AddCloud, OwnInv, TypeOK
  <2>2. be.ready /\ loop = "idle" /\ be.clouds = disk.poses + own /\ be.scs = disk.poses + own
        /\ be.poses = disk.poses + own + 1
    BY <2>1 DEF TakenInv, MapUnderOwnKeyFrames
  <2>3. UNCHANGED <<disk, load, store, success, status, reloc, copy, count, loop, taken, scanned>>
    BY <1>3 DEF AddCloud, loader, relocs, loops
  <2>4. TypeOK'
    <3>1. be.clouds + 1 \in Lengths /\ be.scs + 1 \in Lengths
      BY <2>1, <2>2 DEF Lengths
    <3>2. be' \in [poses : Lengths, clouds : Lengths, scs : Lengths, ready : BOOLEAN]
      BY <2>1, <3>1 DEF TypeOK
    <3> QED
      BY <2>1, <2>3, <3>2 DEF TypeOK
  <2>5. LoadInv' /\ SuccessInv' /\ CountInv' /\ TakenInv' /\ OwnInv'
    BY <2>1, <2>2, <2>3 DEF LoadInv, SuccessInv, CountInv, TakenInv, OwnInv
  <2>6. MapUnderOwnKeyFrames'
    <3>1. /\ be'.clouds = disk.poses + own + 1 /\ be'.scs = disk.poses + own + 1
          /\ be'.poses = be.poses /\ be'.ready = be.ready
      BY <2>1, <2>2 DEF TypeOK
    <3> QED
      BY <2>1, <2>2, <2>3, <3>1 DEF MapUnderOwnKeyFrames
  <2> QED
    BY <2>4, <2>5, <2>6
<1> QED
  BY <1>1, <1>2, <1>3 DEF Lio

-------------------------------------------------------------------------------
\* Every step keeps the invariant.
LEMMA NextIInv == IInv /\ [Next]_vars => IInv'
<1>1. ASSUME IInv, UNCHANGED vars PROVE IInv'
  BY <1>1 DEF vars, loader, relocs, loops, lios, IInv, TypeOK, LoadInv, SuccessInv, CountInv,
        TakenInv,
              OwnInv, MapUnderOwnKeyFrames
<1> QED
  BY <1>1, LoadStep, RelocalizeStep, LoopClosureStep, LioStep DEF Next

\* IInv always holds.
LEMMA Invariant == Spec => []IInv
  BY InitIInv, NextIInv, PTL DEF Spec

(* The vectors of a second mapping, the places of its four threads and the count of   *)
(* its attempts keep their types, whatever the length of the map and of the session.  *)
THEOREM SecondTypeCorrect == Spec => []TypeOK
<1>1. IInv => TypeOK
  BY DEF IInv
<1> QED
  BY <1>1, Invariant, PTL

(* The back end of a second mapping holds nothing or the whole map with the keyframes  *)
(* of the session behind it: the copies of sec_mapping_loopClosureThread need no lock    *)
(* against load_map, because a success needs a scan and a scan a loaded map.           *)
THEOREM OnTheWholeMap == Spec => []MapUnderOwnKeyFrames
<1>1. IInv => MapUnderOwnKeyFrames
  BY DEF IInv
<1> QED
  BY <1>1, Invariant, PTL

-------------------------------------------------------------------------------
\* The cloud is in parts only while the file is read, and ready is set after it.
ReadInv ==
    /\ store.cloud = "part" => load = "fill"
    /\ store.ready => load \in {"publish", "running"}

LEMMA ReadInvariant == Spec => []ReadInv
<1>1. Init => ReadInv
  BY DEF Init, ReadInv
<1>2. IInv /\ ReadInv /\ [Next]_vars => ReadInv'
  <2> SUFFICES ASSUME IInv, ReadInv, [Next]_vars PROVE ReadInv'
    OBVIOUS
  <2> USE DEF ReadInv, IInv, TypeOK
  <2>1. CASE ResetMap
    BY <2>1 DEF ResetMap
  <2>2. CASE FillCloud
    BY <2>2 DEF FillCloud, WholeCloud
  <2>3. CASE LoadLine
    BY <2>3 DEF LoadLine
  <2>4. CASE LoadPose
    BY <2>4 DEF LoadPose
  <2>5. CASE LoadKeyCloud
    BY <2>5 DEF LoadKeyCloud
  <2>6. CASE StartSession
    BY <2>6 DEF StartSession
  <2>7. CASE UNCHANGED loader
    BY <2>7 DEF loader
  <2>8. UNCHANGED vars \/ Relocalize \/ LoopClosure \/ Lio => UNCHANGED loader
    BY DEF vars, loader, Relocalize, BeginPeriod, SetGlobalMap, FillScManager, Match, Announce,
           EndPeriod, LoopClosure, TakeClouds, TakePoses, TakeScs, CheckMapData, ClearPoses,
           AssignClouds, AppendPoses, Lio, Scan, AddPose, AddCloud
  <2> QED
    BY <2>1, <2>2, <2>3, <2>4, <2>5, <2>6, <2>7, <2>8 DEF Next, Load
<1> QED
  BY <1>1, <1>2, Invariant, PTL DEF Spec

(* Half a map is copied only while the callback is still reading it, and what was    *)
(* copied stays: global_localization_for_sec_mapping_thread never takes it again.    *)
THEOREM HalfMapStays == Spec => HalfMapIsFinal
<1>1. IInv /\ ReadInv /\ [Next]_vars =>
        [/\ Stale => Stale'
         /\ Stale' /\ ~Stale => ~store.ready]_vars
  <2> SUFFICES ASSUME IInv, ReadInv, [Next]_vars
               PROVE  /\ Stale => Stale'
                      /\ Stale' /\ ~Stale => ~store.ready
    OBVIOUS
  <2> USE LengthsAreNumbers, NumbersAssumption DEF Stale
  <2>1. disk' = disk
    BY DEF Next, Load, ResetMap, FillCloud, LoadLine, LoadPose, LoadKeyCloud, StartSession,
           Relocalize, BeginPeriod, SetGlobalMap, FillScManager, Match, Announce, EndPeriod,
           LoopClosure, TakeClouds, TakePoses, TakeScs, CheckMapData, ClearPoses, AssignClouds,
           AppendPoses, Lio, Scan, AddPose, AddCloud, vars
  <2>2. store.ready => store.cloud # "part" /\ store.scs = disk.scs
    BY DEF ReadInv, IInv, LoadInv
  <2>3. copy \in [cloud : Clouds, scs : Lengths] /\ copy.scs \in Nat
    BY DEF IInv, TypeOK, Lengths
  <2>4. CASE SetGlobalMap
    BY <2>1, <2>2, <2>3, <2>4 DEF SetGlobalMap
  <2>5. CASE FillScManager
    BY <2>1, <2>2, <2>3, <2>5 DEF FillScManager
  <2>6. CASE UNCHANGED copy
    BY <2>1, <2>6
  <2>7. SetGlobalMap \/ FillScManager \/ UNCHANGED copy
    BY DEF Next, Load, ResetMap, FillCloud, LoadLine, LoadPose, LoadKeyCloud, StartSession, relocs,
           Relocalize, BeginPeriod, Match, Announce, EndPeriod,
           LoopClosure, TakeClouds, TakePoses, TakeScs, CheckMapData, ClearPoses, AssignClouds,
           AppendPoses, Lio, Scan, AddPose, AddCloud, vars
  <2> QED
    BY <2>4, <2>5, <2>6, <2>7
<1> QED
  BY <1>1, Invariant, ReadInvariant, PTL DEF Spec, HalfMapIsFinal
===============================================================================
