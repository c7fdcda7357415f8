---------------------------- MODULE FrontEnd_proofs ----------------------------
(* Which updates of the filter the IMU callback can miss, what its pose is made *)
(* of and how far it has come: for any number of samples and scans and any      *)
(* clock of the IMU.  At the end, three algorithms that run calls for a scan and *)
(* which keep a state of their own: the loop of the iterated update, the box of  *)
(* the local map, and what UndistortPcl makes of a measure.                     *)

EXTENDS FrontEnd, IteratedUpdate, LocalMap, ImuProcess, Prefixes, FiniteSetTheorems

\* The records, as far as the updates go.
UpdateTypes ==
    /\ mode \in Modes /\ updated \in BOOLEAN /\ success \in BOOLEAN /\ late \in Nat
    /\ DOMAIN base = {"t", "id"} /\ base.id \in Nat
    /\ DOMAIN cur = {"t", "id", "used"} /\ cur.id \in Nat
    /\ DOMAIN cb = {"pc", "msg", "base", "t"}

\* While the callback has the flag still to clear, every update since its
\* upsampling is counted; otherwise those that came earlier are late or in the pose.
LateInv ==
    /\ cb.pc = "clear" => cur.id + late >= base.id
    /\ cb.pc \notin {"rebased", "upsample", "clear"} /\ pc # "flag" /\ ~updated =>
          cur.id + late >= base.id

\* The copy of the base may be older than the base.
CopyInv == cb.pc = "choose" => cb.base.id \in Nat

UpdateInv == UpdateTypes /\ LateInv /\ CopyInv

-------------------------------------------------------------------------------

LEMMA UpdateInvInit == Init => UpdateInv
<1>. SUFFICES ASSUME Init PROVE UpdateInv
  OBVIOUS
<1>. USE DEF Init, Base, Pose, Idle
<1>1. UpdateTypes
  BY DEF UpdateTypes
<1>2. LateInv /\ CopyInv
  BY DEF LateInv, CopyInv
<1>. QED
  BY <1>1, <1>2 DEF UpdateInv

\* imu_cbk.
LEMMA UpdateInvCallback ==
  ASSUME UpdateInv, ImuCallback
  PROVE  UpdateInv'
<1>. USE ModesAssumption DEF UpdateInv, UpdateTypes, LateInv, CopyInv, Upsampling, Callback,
            shared, lio, callback, ghosts, Base, Pose, Idle
<1>1. CASE ImuCbk
  BY <1>1 DEF ImuCbk
<1>2. CASE Copy
  BY <1>2 DEF Copy
<1>3. CASE Rebase
  BY <1>3 DEF Rebase
<1>4. CASE TestFlag
  BY <1>4 DEF TestFlag
<1>5. CASE UpsampleAfterRebase
  BY <1>5 DEF UpsampleAfterRebase, Upsampled, Carried
<1>6. CASE UpsamplingCurrentPose
  BY <1>6 DEF UpsamplingCurrentPose, Upsampled, Carried
<1>7. CASE ClearFlag
  BY <1>7 DEF ClearFlag
<1>8. CASE Integrate
  BY <1>8 DEF Integrate, Carried
<1>. QED
  BY <1>1, <1>2, <1>3, <1>4, <1>5, <1>6, <1>7, <1>8 DEF ImuCallback

\* run: only UpdateBase and SetFlag touch what the callback looks at.
LEMMA UpdateInvRun ==
  ASSUME UpdateInv, Run
  PROVE  UpdateInv'
<1>. USE DEF UpdateInv, UpdateTypes, LateInv, CopyInv, Upsampling, Callback,
            shared, lio, callback, ghosts, Base, Return
<1>1. CASE UpdateBase
  BY <1>1 DEF UpdateBase
<1>2. CASE SetFlag
  BY <1>2 DEF SetFlag
<1>3. CASE Sync
  BY <1>3 DEF Sync
<1>4. CASE \/ SyncFails \/ TooFewPoints \/ CheckOcclusion \/ FirstScan \/ ImuInit \/ Process
           \/ VelAbnormalInPredict \/ AfterDownSample \/ BuildTree \/ IteratedUpdate
           \/ VelAbnormalInUpdate \/ Finish
  BY <1>4 DEF SyncFails, TooFewPoints, CheckOcclusion, FirstScan, ImuInit, Process,
              VelAbnormalInPredict, AfterDownSample, BuildTree, IteratedUpdate, VelAbnormalInUpdate,
              Finish
<1>. QED
  BY <1>1, <1>2, <1>3, <1>4 DEF Run

LEMMA UpdateInvStep ==
  ASSUME UpdateInv, [Next]_vars
  PROVE  UpdateInv'
<1>. USE DEF UpdateInv, UpdateTypes, LateInv, CopyInv, Upsampling, shared, lio, callback, ghosts
<1>1. CASE LidarGap
  BY <1>1 DEF LidarGap
<1>2. CASE GlobalSuccess \/ GlobalLost
  BY <1>2 DEF GlobalSuccess, GlobalLost
<1>3. CASE UNCHANGED vars
  BY <1>3 DEF vars
<1>. QED
  BY <1>1, <1>2, <1>3, UpdateInvCallback, UpdateInvRun DEF Next

\* The flag laser_updated_ loses no update but those that run leaves between the
\* upsampling of a callback and its clearing of the flag.  (imu_cbk, run.)
THEOREM OnlyLateMissed == Spec => []OnlyLateIsMissed
<1>1. UpdateInv => OnlyLateIsMissed
  BY DEF UpdateInv, LateInv, OnlyLateIsMissed
<1>2. UpdateInv /\ [Next]_vars => UpdateInv'
  BY UpdateInvStep
<1>. QED
  BY <1>1, <1>2, UpdateInvInit, PTL DEF Spec

-------------------------------------------------------------------------------
(* The types.                                                                  *)

InScan == pc \in {"guards", "process", "predicted", "update"}

\* The updates are counted in order: each scan gives one at most, and neither the
\* pose nor the copy of the base is ahead of the base.  A scan gets to an update
\* only with a tree.
CountInv ==
    /\ base.id <= scans /\ (InScan => base.id < scans)
    /\ cur.id <= base.id /\ cb.base.id <= base.id /\ late <= base.id
    /\ pc \in {"update", "flag", "tail"} => tree

\* The buffer is in order, and ends with the last stamp at most.
BufferInOrder ==
    /\ \A i, j \in DOMAIN imuBuf : i < j => imuBuf[i] <= imuBuf[j]
    /\ \A i \in DOMAIN imuBuf : imuBuf[i] <= lastImu

TypeInv == TypeOK /\ CountInv /\ BufferInOrder

\* What sync_packages pops from the buffer is not later than the end of the scan.
LEMMA PoppedIs ==
  ASSUME imuBuf \in Seq(Nat), NEW end \in Nat
  PROVE  Popped(end) \in 0..Len(imuBuf) /\ \A i \in 1..Popped(end) : imuBuf[i] <= end
<1>. DEFINE T == {n \in 0..Len(imuBuf) : \A i \in 1..n : imuBuf[i] < end}
            before == Max(T)
            more == before \in 1..(Len(imuBuf) - 1) /\ imuBuf[before + 1] = end
<1>1. Len(imuBuf) \in Nat /\ \A i \in 1..Len(imuBuf) : imuBuf[i] \in Nat
  OBVIOUS
<1>2. T \subseteq 0..Len(imuBuf) /\ 0 \in T
  BY <1>1
<1>3. before \in T
  BY <1>1, <1>2, Greatest
<1>4. before \in 0..Len(imuBuf) /\ \A i \in 1..before : imuBuf[i] < end
  BY <1>3
<1>5. Popped(end) = IF more THEN before + 1 ELSE before
  BY DEF Popped
<1>. HIDE DEF before
<1>6. CASE more
  <2>1. Popped(end) = before + 1 /\ before + 1 \in 0..Len(imuBuf)
    BY <1>1, <1>5, <1>6
  <2>2. ASSUME NEW i \in 1..(before + 1) PROVE imuBuf[i] <= end
    <3>1. i = before + 1 \/ i \in 1..before
      BY <1>4
    <3>2. imuBuf[i] \in Nat
      BY <2>1, <1>1
    <3>. QED
      BY <3>1, <3>2, <1>4, <1>6
  <2>. QED
    BY <2>1, <2>2
<1>7. CASE ~more
  <2>1. \A i \in 1..before : imuBuf[i] \in Nat
    BY <1>1, <1>4
  <2>. QED
    BY <2>1, <1>4, <1>5, <1>7
<1>. QED
  BY <1>6, <1>7

\* A pose that is carried forward stands at its own time or at the latest of the
\* samples.
LEMMA CarriedIs ==
  ASSUME NEW p, p.t \in Nat, NEW n \in Nat, NEW stamps, stamps \subseteq 0..n
  PROVE  /\ Carried(p, stamps) = [t |-> Carried(p, stamps).t, id |-> p.id, used |-> p.used \cup stamps]
         /\ Carried(p, stamps).t \in {p.t} \cup stamps
         /\ p.t <= Carried(p, stamps).t /\ \A s \in stamps : s <= Carried(p, stamps).t
<1>. DEFINE T == {p.t} \cup stamps
            m == Later(n, p.t)
<1>1. m \in Nat /\ T \subseteq 0..m /\ T # {}
  <2>1. m \in Nat /\ n <= m /\ p.t <= m
    BY DEF Later
  <2>. HIDE DEF m
  <2>2. p.t \in 0..m /\ \A s \in stamps : s \in 0..m
    BY <2>1
  <2>. QED
    BY <2>1, <2>2
<1>. HIDE DEF m
<1>2. Max(T) \in T /\ \A x \in T : x <= Max(T)
  BY <1>1, GreatestOf
<1>3. Carried(p, stamps).t = Max(T)
  BY DEF Carried, Pose
<1>. HIDE DEF T
<1>4. Carried(p, stamps).t \in T /\ \A x \in T : x <= Carried(p, stamps).t
  BY <1>2, <1>3
<1>5. Carried(p, stamps) = [t |-> Carried(p, stamps).t, id |-> p.id, used |-> p.used \cup stamps]
  BY DEF Carried, Pose
<1>. QED
  BY <1>4, <1>5 DEF T

\* In a buffer that is in order, the samples that advance a pose are those after it.
LEMMA AdvancingIs ==
  ASSUME NEW buf \in Seq(Nat), NEW t \in Nat
  PROVE  /\ Advancing(buf, t) \subseteq {buf[i] : i \in DOMAIN buf} /\ Advancing(buf, t) \subseteq Nat
         /\ \A s \in Advancing(buf, t) : s > t
         /\ (\A i, j \in DOMAIN buf : i < j => buf[i] <= buf[j]) =>
              \A i \in DOMAIN buf : buf[i] > t => buf[i] \in Advancing(buf, t)
<1>. DEFINE First(k) == buf[k] > t /\ \A j \in 1..(k - 1) : buf[j] < buf[k]
<1>1. Advancing(buf, t) = {buf[i] : i \in {k \in DOMAIN buf : First(k)}}
  BY DEF Advancing
<1>2. /\ Advancing(buf, t) \subseteq {buf[i] : i \in DOMAIN buf} /\ Advancing(buf, t) \subseteq Nat
      /\ \A s \in Advancing(buf, t) : s > t
  BY <1>1
<1>3. ASSUME \A i, j \in DOMAIN buf : i < j => buf[i] <= buf[j], NEW i \in DOMAIN buf, buf[i] > t
      PROVE  buf[i] \in Advancing(buf, t)
  <2>. DEFINE Same == {k \in DOMAIN buf : buf[k] = buf[i]}
  <2>1. Same \subseteq Nat /\ Same # {}
    OBVIOUS
  <2>2. PICK k \in Same : \A l \in Same : k <= l
    BY <2>1, Least
  <2>3. k \in DOMAIN buf /\ buf[k] = buf[i] /\ k \in Nat
    BY <2>1, <2>2
  <2>4. ASSUME NEW j \in 1..(k - 1) PROVE buf[j] < buf[k]
    <3>1. j \in DOMAIN buf /\ j < k /\ buf[j] \in Nat /\ buf[k] \in Nat
      BY <2>3
    <3>2. buf[j] <= buf[k]
      BY <3>1, <2>3, <1>3
    <3>3. buf[j] # buf[k]
      <4>1. j \in Same => k <= j
        BY <2>2
      <4>. QED
        BY <3>1, <2>3, <4>1
    <3>. QED
      BY <3>1, <3>2, <3>3
  <2>5. First(k)
    BY <2>3, <2>4, <1>3
  <2>. QED
    BY <2>3, <2>5, <1>1
<1>. QED
  BY <1>2, <1>3

LEMMA IdleIs == Idle \in Callbacks /\ Idle.pc = "idle" /\ Idle.base.id = 0
<1>1. 0 \in 0..MaxScans
  BY BoundsAssumption
<1>2. Base(0, 0) \in Bases /\ Base(0, 0).id = 0
  BY <1>1 DEF Base, Bases
<1>. HIDE DEF Base
<1>. QED
  BY <1>2 DEF Idle, Callbacks, Places

LEMMA PlaceIs ==
  ASSUME NEW c \in Callbacks, NEW label \in Places
  PROVE  /\ [c EXCEPT !.pc = label] \in Callbacks
         /\ [c EXCEPT !.pc = label].base = c.base /\ [c EXCEPT !.pc = label].msg = c.msg
         /\ [c EXCEPT !.pc = label].t = c.t /\ [c EXCEPT !.pc = label].pc = label
  BY DEF Callbacks

LEMMA TypeInit == Init => TypeInv
<1>. SUFFICES ASSUME Init PROVE TypeInv
  OBVIOUS
<1>. USE DEF Init, Base, Pose, Idle
<1>1. 0 \in 0..MaxScans /\ 0 \in 0..MaxImu
  BY BoundsAssumption
<1>2. base \in Bases
  BY <1>1 DEF Bases
<1>3. cb \in Callbacks
  BY <1>2, IdleIs
<1>4. filter \in [need : BOOLEAN, fast : BOOLEAN] /\ meas \in [beg : Nat, end : Nat]
  OBVIOUS
<1>5. DOMAIN cur = {"t", "id", "used"} /\ cur.t \in Nat /\ cur.id \in 0..MaxScans /\ cur.used \subseteq Nat
  BY <1>1
<1>10. {updated, success, first, tree, processed, popped} \subseteq BOOLEAN /\ (processed => tree)
       /\ skipped \subseteq Nat
  OBVIOUS
<1>6. /\ mode \in Modes /\ imuBuf \in Seq(Nat) /\ lastImu \in Nat /\ lidar \in Nat
      /\ pc \in {"idle", "guards", "process", "predicted", "update", "flag", "tail"}
      /\ cloud \in Clouds /\ status \in Statuses
  BY DEF Clouds, Statuses
<1>7. imus \in 0..MaxImu /\ scans \in 0..MaxScans /\ late \in 0..MaxScans
  BY <1>1
<1>8. TypeOK
  BY <1>2, <1>3, <1>4, <1>5, <1>6, <1>7, <1>10 DEF TypeOK
<1>9. CountInv /\ BufferInOrder
  BY DEF CountInv, InScan, BufferInOrder
<1>. QED
  BY <1>8, <1>9 DEF TypeInv

\* The records that run and the callbacks build.
LEMMA RecordTypes ==
  ASSUME TypeInv
  PROVE  /\ base.t \in Nat /\ base.id \in 0..MaxScans /\ base = Base(base.t, base.id)
         /\ cb.msg \in Nat /\ cb.t \in Nat /\ cb.base.t \in Nat /\ cb.base.id \in 0..MaxScans
         /\ meas.beg \in Nat /\ meas.end \in Nat /\ lastImu \in Nat /\ lidar \in Nat
         /\ cur.t \in Nat /\ cur.id \in 0..MaxScans /\ cur.used \subseteq Nat
         /\ imuBuf \in Seq(Nat) /\ scans \in 0..MaxScans /\ MaxScans \in Nat /\ late \in 0..MaxScans
         /\ skipped \subseteq Nat
  BY BoundsAssumption DEF TypeInv, TypeOK, Base, Bases, Callbacks

\* The pose as upsampling_current_pose leaves it.
LEMMA UpsampledIs ==
  ASSUME TypeInv
  PROVE  /\ DOMAIN Upsampled = {"t", "id", "used"} /\ Upsampled.t \in Nat
         /\ Upsampled.id = base.id /\ Upsampled.used = Advancing(imuBuf, base.t)
         /\ Upsampled.used \subseteq {imuBuf[i] : i \in DOMAIN imuBuf} /\ Upsampled.used \subseteq Nat
         /\ Upsampled.t \in {base.t} \cup Upsampled.used
         /\ base.t <= Upsampled.t /\ \A s \in Upsampled.used : s <= Upsampled.t
<1>. DEFINE p == Pose(base.t, base.id, {})
            stamps == Advancing(imuBuf, base.t)
<1>1. base.t \in Nat /\ imuBuf \in Seq(Nat)
  BY RecordTypes
<1>2. stamps \subseteq {imuBuf[i] : i \in DOMAIN imuBuf} /\ stamps \subseteq Nat
  BY <1>1, AdvancingIs
<1>3. p.t = base.t /\ p.id = base.id /\ p.used = {}
  BY DEF Pose
<1>4. Upsampled = Carried(p, stamps)
  BY DEF Upsampled
<1>. HIDE DEF p, stamps
<1>5. PICK n \in Nat : stamps \subseteq 0..n
  <2>1. \A i \in DOMAIN imuBuf : imuBuf[i] \in Nat /\ imuBuf[i] <= lastImu
    BY <1>1 DEF TypeInv, BufferInOrder
  <2>2. lastImu \in Nat
    BY RecordTypes
  <2>3. \A x \in stamps : x \in 0..lastImu
    BY <1>2, <2>1, <2>2
  <2>. QED
    BY <2>2, <2>3
<1>6. /\ Upsampled = [t |-> Upsampled.t, id |-> p.id, used |-> p.used \cup stamps]
      /\ Upsampled.t \in {p.t} \cup stamps
      /\ p.t <= Upsampled.t /\ \A x \in stamps : x <= Upsampled.t
  BY <1>1, <1>3, <1>4, <1>5, CarriedIs
<1>7. Upsampled.id = base.id /\ Upsampled.used = stamps /\ DOMAIN Upsampled = {"t", "id", "used"}
  BY ONLY <1>3, <1>6
<1>. QED
  BY <1>1, <1>2, <1>3, <1>6, <1>7 DEF stamps

\* And as the end of imu_cbk leaves it.
LEMMA IntegratedIs ==
  ASSUME TypeInv, Integrate
  PROVE  /\ DOMAIN cur' = {"t", "id", "used"} /\ cur'.t \in Nat /\ cur'.id = cur.id
         /\ cur'.used = cur.used \cup (IF cb.msg > cur.t THEN {cb.msg} ELSE {})
         /\ cur'.t = (IF cb.msg > cur.t THEN cb.msg ELSE cur.t)
<1>. DEFINE stamps == Advancing(<<cb.msg>>, cur.t)
<1>1. cur.t \in Nat /\ cb.msg \in Nat /\ cur.id \in 0..MaxScans /\ cur.used \subseteq Nat
  BY RecordTypes
<1>2. stamps = IF cb.msg > cur.t THEN {cb.msg} ELSE {}
  <2>1. DOMAIN <<cb.msg>> = {1} /\ <<cb.msg>>[1] = cb.msg /\ 1..(1 - 1) = {}
    OBVIOUS
  <2>. QED
    BY <2>1 DEF Advancing
<1>3. cur' = Carried(cur, stamps)
  BY DEF Integrate
<1>. HIDE DEF stamps
<1>4. stamps \subseteq 0..cb.msg
  BY <1>1, <1>2
<1>5. /\ cur' = [t |-> cur'.t, id |-> cur.id, used |-> cur.used \cup stamps]
      /\ cur'.t \in {cur.t} \cup stamps
      /\ cur.t <= cur'.t /\ \A x \in stamps : x <= cur'.t
  BY <1>1, <1>3, <1>4, CarriedIs
<1>6. DOMAIN cur' = {"t", "id", "used"} /\ cur'.id = cur.id /\ cur'.used = cur.used \cup stamps
  BY ONLY <1>5
<1>7. cur'.t = IF cb.msg > cur.t THEN cb.msg ELSE cur.t
  BY <1>1, <1>2, <1>5
<1>. QED
  BY <1>1, <1>2, <1>6, <1>7

LEMMA TypeImuCbk ==
  ASSUME TypeInv, ImuCbk
  PROVE  TypeInv'
<1>1. PICK step \in ImuSteps \cup {-Back} :
         LET t == lastImu + step
             lost == step > Gap
             buf == IF step < 0 THEN <<>> ELSE IF lost THEN <<t>> ELSE Append(imuBuf, t)
         IN
         /\ t > 0 /\ lastImu' = t /\ imuBuf' = buf
         /\ base' = IF lost THEN [base EXCEPT !.t = t] ELSE base
         /\ cur' = IF lost THEN [cur EXCEPT !.t = t] ELSE cur
         /\ cb' = IF DoNothing(buf) THEN Idle ELSE [Idle EXCEPT !.pc = "copy", !.msg = t]
         /\ popped' = (popped \/ step < 0 \/ lost)
  BY DEF ImuCbk
<1>. DEFINE t == lastImu + step
            lost == step > Gap
<1>2. step \in Int /\ t \in Nat /\ Gap \in Nat /\ t > 0 /\ lastImu' = t
  <2>1. lastImu \in Nat
    BY RecordTypes
  <2>2. step \in Int
    BY TimeAssumption, BackAssumption
  <2>. QED
    BY <1>1, <2>1, <2>2, TimeAssumption
<1>3. imuBuf' = IF step < 0 THEN <<>> ELSE IF lost THEN <<t>> ELSE Append(imuBuf, t)
  BY <1>1
<1>4. base' \in Bases /\ base'.id = base.id
  <2>1. base \in Bases
    BY DEF TypeInv, TypeOK
  <2>2. base' = [base EXCEPT !.t = t] \/ base' = base
    BY <1>1
  <2>. QED
    BY <1>2, <2>1, <2>2 DEF Bases
<1>5. DOMAIN cur' = {"t", "id", "used"} /\ cur'.t \in Nat /\ cur'.id = cur.id /\ cur'.used = cur.used
  <2>1. DOMAIN cur = {"t", "id", "used"} /\ cur.t \in Nat
    BY DEF TypeInv, TypeOK
  <2>2. cur' = [cur EXCEPT !.t = t] \/ cur' = cur
    BY <1>1
  <2>. QED
    BY <1>2, <2>1, <2>2
<1>6. cb' = Idle \/ cb' = [Idle EXCEPT !.pc = "copy", !.msg = t]
  BY <1>1
<1>7. popped' \in BOOLEAN
  BY <1>1 DEF TypeInv, TypeOK
<1>. HIDE DEF t
<1>8. cb'.base.id = 0 /\ cb' \in Callbacks
  <2>1. [Idle EXCEPT !.pc = "copy", !.msg = t].base = Idle.base
        /\ [Idle EXCEPT !.pc = "copy", !.msg = t] \in Callbacks
    BY <1>2, IdleIs DEF Callbacks, Places
  <2>. QED
    BY <1>6, <2>1, IdleIs
<1>9. imus' \in 0..MaxImu /\ UNCHANGED <<mode, updated, success, lio, lidar, late, skipped>>
  <2>1. imus \in 0..MaxImu /\ MaxImu \in Nat /\ imus < MaxImu /\ imus' = imus + 1
    BY BoundsAssumption DEF ImuCbk, TypeInv, TypeOK
  <2>2. UNCHANGED <<mode, updated, success, lio, lidar, late, skipped>>
    BY DEF ImuCbk
  <2>. QED
    BY <2>1, <2>2
<1>10. imuBuf' \in Seq(Nat) /\ BufferInOrder'
  <2>1. imuBuf \in Seq(Nat)
    BY RecordTypes
  <2>2. CASE step < 0 \/ lost
    <3>1. imuBuf' = <<>> \/ imuBuf' = <<t>>
      BY <1>3, <2>2
    <3>2. CASE imuBuf' = <<>>
      BY <3>2 DEF BufferInOrder
    <3>3. CASE imuBuf' = <<t>>
      <4>1. DOMAIN imuBuf' = {1} /\ imuBuf'[1] = t
        BY <3>3
      <4>2. imuBuf' \in Seq(Nat)
        BY <1>2, <3>3
      <4>. QED
        BY <4>1, <4>2, <1>2 DEF BufferInOrder
    <3>. QED
      BY <3>1, <3>2, <3>3
  <2>3. CASE ~(step < 0 \/ lost)
    <3>1. imuBuf' = Append(imuBuf, t) /\ lastImu <= t
      <4>1. lastImu <= lastImu + step
        BY <1>2, <2>3, RecordTypes
      <4>. QED
        BY <1>3, <2>3, <4>1 DEF t
    <3>2. \A i \in DOMAIN imuBuf : imuBuf[i] \in Nat /\ imuBuf[i] <= t
      <4>1. \A i \in DOMAIN imuBuf : imuBuf[i] \in Nat /\ imuBuf[i] <= lastImu
        BY <2>1 DEF TypeInv, BufferInOrder
      <4>. QED
        BY <4>1, <3>1, <1>2, RecordTypes
    <3>3. DOMAIN imuBuf' = 1..(Len(imuBuf) + 1) /\ imuBuf'[Len(imuBuf) + 1] = t
          /\ \A i \in DOMAIN imuBuf : imuBuf'[i] = imuBuf[i]
      BY <2>1, <1>2, <3>1
    <3>4. \A i \in DOMAIN imuBuf' : i = Len(imuBuf) + 1 \/ i \in DOMAIN imuBuf
      BY <2>1, <3>3
    <3>5. \A i \in DOMAIN imuBuf' : imuBuf'[i] <= t
      BY <1>2, <3>2, <3>3, <3>4
    <3>6. ASSUME NEW i \in DOMAIN imuBuf', NEW j \in DOMAIN imuBuf', i < j
          PROVE  imuBuf'[i] <= imuBuf'[j]
      <4>1. i \in DOMAIN imuBuf
        BY <2>1, <3>3, <3>6
      <4>2. CASE j \in DOMAIN imuBuf
        BY <3>3, <3>6, <4>1, <4>2 DEF TypeInv, BufferInOrder
      <4>3. CASE j = Len(imuBuf) + 1
        BY <3>2, <3>3, <4>1, <4>3
      <4>. QED
        BY <3>4, <4>2, <4>3
    <3>. QED
      BY <1>2, <2>1, <3>1, <3>5, <3>6 DEF BufferInOrder
  <2>. QED
    BY <2>2, <2>3
<1>11. TypeOK'
  <2>1. TypeOK
    BY DEF TypeInv
  <2>. QED
    BY <1>2, <1>4, <1>5, <1>7, <1>8, <1>9, <1>10, <2>1 DEF TypeOK, lio
<1>12. CountInv'
  BY <1>4, <1>5, <1>8, <1>9, RecordTypes DEF TypeInv, CountInv, InScan, lio
<1>. QED
  BY <1>10, <1>11, <1>12 DEF TypeInv

LEMMA TypeCallback ==
  ASSUME TypeInv, ImuCallback
  PROVE  TypeInv'
<1>. USE DEF shared, lio, callback, ghosts
<1>1. CASE ImuCbk
  BY <1>1, TypeImuCbk
<1>2. CASE Copy \/ TestFlag \/ ClearFlag
  <2>1. /\ UNCHANGED <<lastImu, cur, imus, lio, lidar, late, popped, mode, imuBuf, base, success>>
        /\ updated' \in BOOLEAN
    BY <1>2 DEF Copy, TestFlag, ClearFlag, TypeInv, TypeOK
  <2>3. skipped' \subseteq Nat
    <3>1. skipped \subseteq Nat /\ cb.msg \in Nat
      BY RecordTypes
    <3>2. skipped' = skipped \/ skipped' = skipped \cup {cb.msg}
      BY <1>2 DEF Copy, TestFlag, ClearFlag
    <3>. QED
      BY <3>1, <3>2
  <2>2. cb'.base.id <= base.id
        /\ cb' \in Callbacks
    <3>1. cb \in Callbacks /\ cb.base.id <= base.id /\ Idle.base.id <= base.id
      BY RecordTypes, IdleIs DEF TypeInv, TypeOK, CountInv
    <3>2. CASE Copy
      <4>. DEFINE c == [cb EXCEPT !.pc = "choose", !.base = base, !.t = cur.t]
      <4>1. base \in Bases /\ cur.t \in Nat /\ base.id <= base.id
        BY RecordTypes DEF TypeInv, TypeOK
      <4>2. c \in Callbacks /\ c.base = base
        BY <3>1, <4>1 DEF Callbacks, Places
      <4>3. cb' = c \/ cb' = Idle
        BY <3>2 DEF Copy
      <4>. HIDE DEF c
      <4>. QED
        BY <3>1, <4>1, <4>2, <4>3, IdleIs
    <3>3. CASE TestFlag \/ ClearFlag
      <4>1. PICK label \in Places : cb' = [cb EXCEPT !.pc = label]
        BY <3>3 DEF TestFlag, ClearFlag, Places
      <4>. QED
        BY <3>1, <4>1, PlaceIs
    <3>. QED
      BY <1>2, <3>2, <3>3
  <2>. QED
    BY <2>1, <2>2, <2>3 DEF TypeInv, TypeOK, CountInv, BufferInOrder, InScan
<1>3. CASE Rebase
  <2>1. /\ UNCHANGED <<lastImu, imus, shared, lio, lidar, ghosts>>
        /\ cur' = Pose(cb.base.t, cb.base.id, {}) /\ cb' = [cb EXCEPT !.pc = "rebased"]
    BY <1>3 DEF Rebase
  <2>2. DOMAIN cur' = {"t", "id", "used"} /\ cur'.t = cb.base.t /\ cur'.id = cb.base.id /\ cur'.used = {}
    BY <2>1 DEF Pose
  <2>3. cb' \in Callbacks /\ cb'.base = cb.base
    BY <2>1, PlaceIs DEF TypeInv, TypeOK, Places
  <2>. QED
    BY <2>1, <2>2, <2>3, RecordTypes DEF TypeInv, TypeOK, CountInv, BufferInOrder, InScan
<1>4. CASE UpsampleAfterRebase \/ UpsamplingCurrentPose
  <2>1. /\ UNCHANGED <<lastImu, imus, shared, lio, lidar, popped>> /\ cur' = Upsampled
        /\ late' = late \/ late' = 0
        /\ skipped' = {}
    BY <1>4 DEF UpsampleAfterRebase, UpsamplingCurrentPose
  <2>2. /\ DOMAIN cur' = {"t", "id", "used"} /\ cur'.t \in Nat /\ cur'.id = base.id
        /\ cur'.used \subseteq Nat
    BY <2>1, UpsampledIs
  <2>3. 0 \in 0..MaxScans /\ 0 <= base.id
    BY RecordTypes, SMTT(30)
  <2>4. cb'.base.id <= base.id
        /\ cb' \in Callbacks
    <3>1. cb \in Callbacks /\ cb.base.id <= base.id
      BY DEF TypeInv, TypeOK, CountInv
    <3>2. cb' = Idle \/ cb' = [cb EXCEPT !.pc = "clear"]
      BY <1>4 DEF UpsampleAfterRebase, UpsamplingCurrentPose
    <3>3. "clear" \in Places
      BY DEF Places
    <3>4. CASE cb' = Idle
      BY <2>3, <3>4, IdleIs
    <3>5. CASE cb' = [cb EXCEPT !.pc = "clear"]
      BY <3>1, <3>3, <3>5, PlaceIs
    <3>. QED
      BY <3>2, <3>4, <3>5
  <2>5. late' \in 0..MaxScans /\ late' <= base.id
    BY <2>1, <2>3 DEF TypeInv, TypeOK, CountInv
  <2>6. cur'.id \in 0..MaxScans /\ cur'.id <= base.id
    BY <2>2, RecordTypes, SMTT(30)
  <2>7. TypeOK' /\ BufferInOrder'
    BY <2>1, <2>2, <2>4, <2>5, <2>6 DEF TypeInv, TypeOK, BufferInOrder
  <2>8. CountInv'
    BY <2>1, <2>4, <2>5, <2>6 DEF TypeInv, CountInv, InScan
  <2>. QED
    BY <2>7, <2>8 DEF TypeInv
<1>5. CASE Integrate
  <2>1. UNCHANGED <<lastImu, imus, shared, lio, lidar, ghosts>> /\ cb' = Idle
    BY <1>5 DEF Integrate
  <2>2. /\ DOMAIN cur' = {"t", "id", "used"} /\ cur'.t \in Nat /\ cur'.id = cur.id
        /\ cur'.used \subseteq Nat
    BY <1>5, IntegratedIs, RecordTypes
  <2>3. 0 \in 0..MaxScans /\ 0 <= base.id
    BY RecordTypes, SMTT(30)
  <2>4. cb'.base.id = 0
        /\ cb' \in Callbacks
    BY <2>1, IdleIs
  <2>. QED
    BY <2>1, <2>2, <2>3, <2>4, RecordTypes DEF TypeInv, TypeOK, CountInv, BufferInOrder, InScan
<1>. QED
  BY <1>1, <1>2, <1>3, <1>4, <1>5 DEF ImuCallback

LEMMA TypeSync ==
  ASSUME TypeInv, Sync
  PROVE  TypeInv'
<1>1. PICK pause \in Pauses :
         LET beg == Later(meas.end, lidar) + pause
             end == beg + Scan
             n == Popped(end)
         IN
         /\ end <= lastImu /\ imuBuf # <<>>
         /\ meas' = [beg |-> beg, end |-> end]
         /\ imuBuf' = SubSeq(imuBuf, n + 1, Len(imuBuf))
         /\ popped' = (popped \/ \E i \in 1..n : imuBuf[i] > base.t)
         /\ IF \E i \in 1..n : imuBuf[i] > beg
              THEN pc' = "guards" /\ UNCHANGED status
              ELSE Return("SyncFailed")
  BY DEF Sync
<1>. DEFINE beg == Later(meas.end, lidar) + pause
            end == beg + Scan
<1>2. beg \in Nat /\ end \in Nat
  <2>1. pause \in Nat /\ Scan \in Nat /\ meas.end \in Nat /\ lidar \in Nat
    BY RecordTypes, TimeAssumption
  <2>2. Later(meas.end, lidar) \in Nat
    BY <2>1 DEF Later
  <2>. QED
    BY <2>1, <2>2
<1>3. /\ meas' = [beg |-> beg, end |-> end]
      /\ imuBuf' = SubSeq(imuBuf, Popped(end) + 1, Len(imuBuf))
  BY <1>1
<1>4. popped' \in BOOLEAN
  BY <1>1 DEF TypeInv, TypeOK
<1>5. pc' \in {"guards", "idle"} /\ status' \in Statuses
  BY <1>1 DEF Return, Statuses, TypeInv, TypeOK
<1>. HIDE DEF beg, end
<1>6. imuBuf' \in Seq(Nat) /\ BufferInOrder'
  <2>1. imuBuf \in Seq(Nat) /\ Popped(end) \in 0..Len(imuBuf) /\ Len(imuBuf) \in Popped(end)..Len(imuBuf)
    BY <1>2, RecordTypes, PoppedIs
  <2>. DEFINE n == Popped(end)
  <2>. HIDE DEF n
  <2>2. /\ imuBuf' \in Seq(Nat)
        /\ \A i \in DOMAIN imuBuf' : imuBuf'[i] = imuBuf[i + n] /\ i + n \in DOMAIN imuBuf
    BY <1>3, <2>1, SubSeqIs, SMTT(30) DEF n
  <2>3. \A i, j \in DOMAIN imuBuf' : i < j => i + n < j + n
    BY <2>1, <2>2 DEF n
  <2>4. UNCHANGED lastImu
    BY DEF Sync, callback
  <2>. QED
    BY <2>2, <2>3, <2>4 DEF TypeInv, BufferInOrder
<1>7. /\ scans' = scans + 1 /\ scans < MaxScans
      /\ UNCHANGED <<mode, filter, first, cloud, tree, processed, base, updated, success, callback, lidar, late,
                     skipped>>
  BY DEF Sync
<1>8. TypeOK'
  <2>1. TypeOK /\ scans' \in 0..MaxScans
    <3>1. TypeOK
      BY DEF TypeInv
    <3>2. scans \in 0..MaxScans /\ MaxScans \in Nat
      BY RecordTypes
    <3>3. scans' = scans + 1 /\ scans < MaxScans
      BY <1>7
    <3>. QED
      BY <3>1, <3>2, <3>3
  <2>2. meas' \in [beg : Nat, end : Nat]
    BY <1>2, <1>3
  <2>. QED
    BY <1>4, <1>5, <1>6, <1>7, <2>1, <2>2 DEF TypeOK, callback
<1>9. CountInv'
  BY <1>5, <1>7, RecordTypes, SMTT(30) DEF TypeInv, CountInv, InScan, callback
<1>. QED
  BY <1>6, <1>8, <1>9 DEF TypeInv

LEMMA TypeRun ==
  ASSUME TypeInv, Run
  PROVE  TypeInv'
<1>. USE DEF shared, callback, ghosts, Return
<1>1. CASE Sync
  BY <1>1, TypeSync
<1>2. CASE \/ SyncFails \/ TooFewPoints \/ CheckOcclusion \/ VelAbnormalInPredict \/ AfterDownSample
           \/ VelAbnormalInUpdate \/ Finish
  <2>1. /\ UNCHANGED <<meas, filter, first, cloud, tree, scans, shared, callback, lidar, ghosts>>
        /\ pc' = "idle" /\ status' \in Statuses
        /\ processed' = processed \/ (pc = "tail" /\ processed' = TRUE)
    BY <1>2 DEF SyncFails, TooFewPoints, CheckOcclusion, VelAbnormalInPredict, AfterDownSample,
                VelAbnormalInUpdate, Finish, Statuses
  <2>2. processed' \in BOOLEAN /\ (processed' => tree)
    <3>1. processed \in BOOLEAN /\ (processed => tree) /\ (pc = "tail" => tree)
      BY DEF TypeInv, TypeOK, CountInv
    <3>2. CASE processed' = processed
      BY <3>1, <3>2
    <3>3. CASE pc = "tail" /\ processed' = TRUE
      BY <3>1, <3>3
    <3>. QED
      BY <2>1, <3>2, <3>3
  <2>3. TypeOK' /\ BufferInOrder'
    BY <2>1, <2>2 DEF TypeInv, TypeOK, BufferInOrder
  <2>4. CountInv'
    BY <2>1 DEF TypeInv, CountInv, InScan
  <2>. QED
    BY <2>3, <2>4 DEF TypeInv
<1>3. CASE FirstScan \/ ImuInit \/ Process
  <2>1. /\ UNCHANGED <<meas, tree, processed, scans, shared, callback, lidar, ghosts>>
        /\ pc = "guards" /\ pc' \in {"idle", "predicted"}
        /\ first' \in BOOLEAN /\ cloud' \in Clouds /\ status' \in Statuses
        /\ filter' \in [need : BOOLEAN, fast : BOOLEAN]
    <3>1. /\ first \in BOOLEAN /\ cloud \in Clouds /\ status \in Statuses
          /\ filter \in [need : BOOLEAN, fast : BOOLEAN]
      BY DEF TypeInv, TypeOK
    <3>2. CASE FirstScan
      BY <3>1, <3>2 DEF FirstScan
    <3>3. CASE ImuInit
      BY <3>1, <3>3 DEF ImuInit, Clouds, Statuses
    <3>4. CASE Process
      BY <3>1, <3>4 DEF Process, Clouds
    <3>. QED
      BY <1>3, <3>2, <3>3, <3>4
  <2>2. TypeOK' /\ BufferInOrder'
    BY <2>1 DEF TypeInv, TypeOK, BufferInOrder
  <2>3. CountInv'
    BY <2>1 DEF TypeInv, CountInv, InScan
  <2>. QED
    BY <2>2, <2>3 DEF TypeInv
<1>4. CASE BuildTree \/ IteratedUpdate
  <2>1. /\ UNCHANGED <<meas, first, cloud, status, processed, scans, shared, callback, lidar, ghosts>>
        /\ pc = "predicted" /\ pc' \in {"idle", "update"} /\ (pc' = "update" => tree')
        /\ tree' \in BOOLEAN /\ (tree => tree')
        /\ filter' \in [need : BOOLEAN, fast : BOOLEAN]
    <3>1. tree \in BOOLEAN /\ filter \in [need : BOOLEAN, fast : BOOLEAN]
      BY DEF TypeInv, TypeOK
    <3>2. CASE BuildTree
      BY <3>1, <3>2 DEF BuildTree
    <3>3. CASE IteratedUpdate
      BY <3>1, <3>3 DEF IteratedUpdate
    <3>. QED
      BY <1>4, <3>2, <3>3
  <2>2. TypeOK' /\ BufferInOrder'
    BY <2>1 DEF TypeInv, TypeOK, BufferInOrder
  <2>3. CountInv'
    BY <2>1 DEF TypeInv, CountInv, InScan
  <2>. QED
    BY <2>2, <2>3 DEF TypeInv
<1>5. CASE UpdateBase
  <2>1. /\ UNCHANGED <<mode, imuBuf, updated, success, meas, filter, first, cloud, tree, status, processed,
                       scans, callback, lidar, skipped>>
        /\ pc = "update" /\ pc' = "flag" /\ popped' = FALSE
        /\ base' = Base(meas.end, base.id + 1) /\ late' \in {late, late + 1}
    BY <1>5 DEF UpdateBase
  <2>2. base.id < scans /\ late <= base.id
    BY <2>1 DEF TypeInv, CountInv, InScan
  <2>7. /\ base.id \in Nat /\ base.id + 1 \in 0..MaxScans /\ late \in Nat /\ meas.end \in Nat
        /\ cur.id \in Nat /\ cb.base.id \in Nat /\ scans \in Nat
    <3>1. base.id \in 0..MaxScans /\ late \in 0..MaxScans /\ scans \in 0..MaxScans /\ MaxScans \in Nat
      BY RecordTypes
    <3>2. meas.end \in Nat /\ cur.id \in 0..MaxScans /\ cb.base.id \in 0..MaxScans
      BY RecordTypes
    <3>3. base.id \in Nat /\ base.id + 1 \in 0..MaxScans /\ late \in Nat /\ scans \in Nat
      BY ONLY <3>1, <2>2
    <3>. QED
      BY ONLY <3>1, <3>2, <3>3
  <2>3. base' \in Bases /\ base'.id = base.id + 1
    BY <2>1, <2>7 DEF Base, Bases
  <2>4. late' \in 0..MaxScans /\ late' <= base.id + 1
    <3>1. base.id + 1 <= MaxScans /\ MaxScans \in Nat
      BY <2>7, RecordTypes
    <3>. QED
      BY <2>1, <2>2, <2>7, <3>1
  <2>5. TypeOK' /\ BufferInOrder'
    BY <2>1, <2>3, <2>4 DEF TypeInv, TypeOK, BufferInOrder
  <2>6. CountInv'
    BY <2>1, <2>2, <2>3, <2>4, <2>7 DEF TypeInv, CountInv, InScan
  <2>. QED
    BY <2>5, <2>6 DEF TypeInv
<1>6. CASE SetFlag
  <2>1. /\ UNCHANGED <<mode, imuBuf, base, success, meas, filter, first, cloud, tree, status, processed,
                       scans, callback, lidar, ghosts>>
        /\ pc = "flag" /\ pc' = "tail" /\ updated' = TRUE
    BY <1>6 DEF SetFlag
  <2>. QED
    BY <2>1 DEF TypeInv, TypeOK, CountInv, BufferInOrder, InScan
<1>. QED
  BY <1>1, <1>2, <1>3, <1>4, <1>5, <1>6 DEF Run

LEMMA TypeStep ==
  ASSUME TypeInv, [Next]_vars
  PROVE  TypeInv'
<1>1. CASE LidarGap
  <2>1. PICK t \in Nat : base' = [base EXCEPT !.t = t] /\ lidar' = t
    <3>1. Later(meas.beg, lidar) + Gap + 1 \in Nat
      <4>1. Gap \in Nat /\ meas.beg \in Nat /\ lidar \in Nat
        BY TimeAssumption, RecordTypes
      <4>2. Later(meas.beg, lidar) \in Nat
        BY <4>1 DEF Later
      <4>. QED
        BY <4>1, <4>2
    <3>. QED
      BY <1>1, <3>1 DEF LidarGap
  <2>2. /\ UNCHANGED <<mode, imuBuf, updated, success, callback, lio, late, skipped>> /\ popped' = TRUE
        /\ base' \in Bases /\ base'.id = base.id
    BY <1>1, <2>1 DEF LidarGap, TypeInv, TypeOK, Bases
  <2>. QED
    BY <2>1, <2>2 DEF TypeInv, TypeOK, CountInv, BufferInOrder, InScan, callback, lio
<1>2. CASE GlobalSuccess \/ GlobalLost
  <2>1. UNCHANGED <<mode, imuBuf, base, updated, lio, callback, lidar, ghosts>> /\ success' \in BOOLEAN
    BY <1>2 DEF GlobalSuccess, GlobalLost
  <2>2. UNCHANGED <<lastImu, cur, cb, imus, pc, meas, filter, first, cloud, tree, status, processed,
                    scans, late, popped, skipped>>
    BY <2>1 DEF callback, lio, ghosts
  <2>3. {updated, success, first, tree, processed, popped}' \subseteq BOOLEAN
    BY <2>1, <2>2 DEF TypeInv, TypeOK
  <2>4. TypeOK'
    BY <2>1, <2>2, <2>3 DEF TypeInv, TypeOK
  <2>5. CountInv' /\ BufferInOrder'
    BY <2>1, <2>2 DEF TypeInv, CountInv, BufferInOrder, InScan
  <2>. QED
    BY <2>4, <2>5 DEF TypeInv
<1>3. CASE UNCHANGED vars
  BY <1>3 DEF vars, TypeInv, TypeOK, CountInv, BufferInOrder, InScan, callback, lio, shared, ghosts
<1>. QED
  BY <1>1, <1>2, <1>3, TypeCallback, TypeRun DEF Next

LEMMA TypeInvariant == Spec => []TypeInv
<1>1. TypeInv /\ [Next]_vars => TypeInv'
  BY TypeStep
<1>. QED
  BY <1>1, TypeInit, PTL DEF Spec

\* The variables have their types, whatever comes; and what counts as the first laser
\* the filter has processed has found a tree.  (run, imu_cbk.)
THEOREM Typed == Spec => []TypeOK
<1>1. TypeInv => TypeOK
  BY DEF TypeInv
<1>. QED
  BY <1>1, TypeInvariant, PTL

-------------------------------------------------------------------------------
(* The samples.                                                                *)

\* A pose that started from the newest base stands at the base or at a sample it
\* was carried forward with, and what it has not got is the first sample in the
\* buffer, one that came while the vehicle was not on the map, or the one the callback
\* has in hand.
PoseInv ==
    cb.pc # "rebased" /\ cur.id = base.id /\ base.id > 0 /\ ~popped =>
      /\ cur.t = base.t \/ cur.t \in cur.used
      /\ \A s \in cur.used : s <= lastImu
      /\ \A i \in 2..Len(imuBuf) :
            imuBuf[i] > base.t =>
               imuBuf[i] \in cur.used \cup skipped \/ (cb.pc # "idle" /\ imuBuf[i] = cb.msg)

InBuffer == \E i \in DOMAIN imuBuf : imuBuf[i] = cb.msg

\* The sample the callback has in hand is the last; if it has left the buffer, it
\* belongs to the scan of run, and to the base unless popped says otherwise.
MsgInv ==
    cb.pc # "idle" =>
      /\ cb.msg = lastImu
      /\ InBuffer \/ cb.msg <= meas.end
      /\ popped \/ InBuffer \/ cb.msg <= base.t

SampleInv == PoseInv /\ MsgInv

LEMMA SampleInvInit == Init => SampleInv
BY DEF Init, SampleInv, PoseInv, MsgInv, Pose, Base, Idle

\* The sample joins the buffer, or the callback ends with nothing done.
LEMMA SampleInvCbk ==
  ASSUME TypeInv, SampleInv, ImuCbk
  PROVE  SampleInv'
<1>. USE DEF SampleInv
<1>1. PICK step \in ImuSteps \cup {-Back} :
         LET t == lastImu + step
             lost == step > Gap
             buf == IF step < 0 THEN <<>> ELSE IF lost THEN <<t>> ELSE Append(imuBuf, t)
         IN
         /\ t > 0 /\ lastImu' = t /\ imuBuf' = buf
         /\ base' = IF lost THEN [base EXCEPT !.t = t] ELSE base
         /\ cur' = IF lost THEN [cur EXCEPT !.t = t] ELSE cur
         /\ cb' = IF DoNothing(buf) THEN Idle ELSE [Idle EXCEPT !.pc = "copy", !.msg = t]
         /\ popped' = (popped \/ step < 0 \/ lost)
  BY DEF ImuCbk
<1>2. cb.pc = "idle" /\ UNCHANGED <<meas, skipped>>
  BY DEF ImuCbk, Callback, lio
<1>. DEFINE t == lastImu + step
            lost == step > Gap
<1>3. step \in Int /\ t \in Nat /\ t > 0 /\ lastImu \in Nat /\ imuBuf \in Seq(Nat)
  <2>1. lastImu \in Nat /\ imuBuf \in Seq(Nat)
    BY RecordTypes
  <2>2. step \in Int
    BY TimeAssumption, BackAssumption
  <2>. QED
    BY <1>1, <2>1, <2>2
<1>5. CASE step < 0 \/ lost
  <2>1. popped' = TRUE /\ (imuBuf' = <<>> \/ imuBuf' = <<t>>)
    BY <1>1, <1>5
  <2>2. DoNothing(imuBuf')
    <3>1. Len(<<>>) <= 1 /\ Len(<<t>>) <= 1
      OBVIOUS
    <3>. QED
      BY <2>1, <3>1 DEF DoNothing
  <2>3. cb' = Idle
    BY <1>1, <2>2
  <2>. QED
    BY <2>1, <2>3, IdleIs DEF PoseInv, MsgInv
<1>6. CASE ~(step < 0 \/ lost)
  <2>1. /\ base' = base /\ cur' = cur /\ popped' = popped
        /\ imuBuf' = Append(imuBuf, t) /\ lastImu' = t /\ lastImu <= t
        /\ cb' = IF DoNothing(imuBuf') THEN Idle ELSE [Idle EXCEPT !.pc = "copy", !.msg = t]
    <3>1. popped \in BOOLEAN
      BY DEF TypeInv, TypeOK
    <3>2. lastImu <= lastImu + step
      BY <1>3, <1>6
    <3>. QED
      BY <1>1, <1>6, <3>1, <3>2
  <2>. HIDE DEF t
  <2>2. /\ DOMAIN imuBuf' = 1..(Len(imuBuf) + 1) /\ Len(imuBuf') = Len(imuBuf) + 1
        /\ imuBuf'[Len(imuBuf) + 1] = t
        /\ \A i \in 1..Len(imuBuf) : imuBuf'[i] = imuBuf[i]
    BY <1>3, <2>1
  <2>3. CASE Len(imuBuf) = 0
    <3>1. cb' = Idle
      BY <2>1, <2>2, <2>3 DEF DoNothing
    <3>2. ASSUME cur.id = base.id, base.id > 0, ~popped
          PROVE  /\ cur.t = base.t \/ cur.t \in cur.used
                 /\ \A s \in cur.used : s <= lastImu'
      <4>1. \A s \in cur.used : s \in Nat /\ s <= lastImu
        BY <1>2, <3>2, RecordTypes DEF PoseInv
      <4>. QED
        BY <1>2, <1>3, <2>1, <3>2, <4>1 DEF PoseInv
    <3>3. PoseInv'
      BY <1>2, <2>1, <2>2, <2>3, <3>2 DEF PoseInv
    <3>. QED
      BY <3>1, <3>3, IdleIs DEF MsgInv
  <2>4. CASE Len(imuBuf) # 0
    <3>1. cb' = [Idle EXCEPT !.pc = "copy", !.msg = t]
      BY <1>3, <2>1, <2>2, <2>4 DEF DoNothing
    <3>2. cb'.pc = "copy" /\ cb'.msg = t
      BY <3>1, <1>3, IdleIs DEF Callbacks
    <3>3. MsgInv'
      BY <1>3, <2>1, <2>2, <3>2 DEF MsgInv, InBuffer
    <3>4. ASSUME cur.id = base.id, base.id > 0, ~popped
          PROVE  /\ cur.t = base.t \/ cur.t \in cur.used
                 /\ \A s \in cur.used : s <= lastImu'
                 /\ \A i \in 2..Len(imuBuf') :
                       imuBuf'[i] > base.t => imuBuf'[i] \in cur.used \cup skipped \/ imuBuf'[i] = t
      <4>1. \A s \in cur.used : s \in Nat /\ s <= lastImu
        BY <1>2, <3>4, RecordTypes DEF PoseInv
      <4>2. \A i \in 2..Len(imuBuf) : imuBuf[i] > base.t => imuBuf[i] \in cur.used \cup skipped
        BY <1>2, <3>4 DEF PoseInv
      <4>3. \A i \in 2..Len(imuBuf') : i = Len(imuBuf) + 1 \/ i \in 2..Len(imuBuf)
        BY <1>3, <2>2
      <4>4. \A i \in 2..Len(imuBuf) : imuBuf'[i] = imuBuf[i]
        BY <1>3, <2>2
      <4>5. cur.t = base.t \/ cur.t \in cur.used
        BY <1>2, <3>4 DEF PoseInv
      <4>. QED
        BY <1>3, <2>1, <2>2, <4>1, <4>2, <4>3, <4>4, <4>5
    <3>5. PoseInv'
      BY <1>2, <2>1, <3>2, <3>4 DEF PoseInv
    <3>. QED
      BY <3>3, <3>5
  <2>. QED
    BY <2>3, <2>4
<1>. QED
  BY <1>5, <1>6

\* The upsampling takes every sample after the base.
LEMMA SampleInvUpsample ==
  ASSUME TypeInv, SampleInv, UpsampleAfterRebase \/ UpsamplingCurrentPose
  PROVE  SampleInv'
<1>1. /\ UNCHANGED <<lastImu, imus, shared, lio, lidar, popped>> /\ cur' = Upsampled
      /\ cb' = Idle \/ cb' = [cb EXCEPT !.pc = "clear"]
      /\ cb.pc # "idle"
  BY DEF UpsampleAfterRebase, UpsamplingCurrentPose, Callback
<1>3. MsgInv'
  <2>1. CASE cb' = Idle
    BY <2>1, IdleIs DEF MsgInv
  <2>2. CASE cb' = [cb EXCEPT !.pc = "clear"]
    <3>1. cb'.msg = cb.msg
      BY <2>2, PlaceIs DEF TypeInv, TypeOK, Places
    <3>. QED
      BY <1>1, <3>1 DEF SampleInv, MsgInv, InBuffer, shared, lio
  <2>. QED
    BY <1>1, <2>1, <2>2
<1>4. PoseInv'
  <2>1. /\ Upsampled.used = Advancing(imuBuf, base.t)
        /\ Upsampled.used \subseteq {imuBuf[i] : i \in DOMAIN imuBuf}
        /\ Upsampled.t \in {base.t} \cup Upsampled.used
    BY UpsampledIs
  <2>2. \A i \in DOMAIN imuBuf : imuBuf[i] > base.t => imuBuf[i] \in Upsampled.used
    <3>1. \A i, j \in DOMAIN imuBuf : i < j => imuBuf[i] <= imuBuf[j]
      BY DEF TypeInv, BufferInOrder
    <3>. QED
      <4>1. imuBuf \in Seq(Nat) /\ base.t \in Nat
        BY RecordTypes
      <4>2. \A i \in DOMAIN imuBuf : imuBuf[i] > base.t => imuBuf[i] \in Advancing(imuBuf, base.t)
        BY <3>1, <4>1, AdvancingIs
      <4>. QED
        BY <2>1, <4>2
  <2>3. \A s \in Upsampled.used : s <= lastImu
    BY <2>1 DEF TypeInv, BufferInOrder
  <2>4. \A i \in 2..Len(imuBuf) : i \in DOMAIN imuBuf
    BY RecordTypes
  <2>. QED
    BY <1>1, <2>1, <2>2, <2>3, <2>4 DEF PoseInv, shared
<1>. QED
  BY <1>3, <1>4 DEF SampleInv

\* The sample in hand is added, unless the pose has it or the base is later.
LEMMA SampleInvIntegrate ==
  ASSUME TypeInv, SampleInv, Integrate
  PROVE  SampleInv'
<1>1. /\ UNCHANGED <<lastImu, imus, shared, lio, lidar, ghosts>> /\ cb' = Idle /\ cb.pc = "integrate"
      /\ cb'.pc = "idle"
  BY IdleIs DEF Integrate, Callback
<1>2. /\ cur'.id = cur.id
      /\ cur'.used = cur.used \cup (IF cb.msg > cur.t THEN {cb.msg} ELSE {})
      /\ cur'.t = (IF cb.msg > cur.t THEN cb.msg ELSE cur.t)
  BY IntegratedIs
<1>3. MsgInv'
  BY <1>1 DEF MsgInv
<1>4. PoseInv'
  <2>. SUFFICES ASSUME cur.id = base.id, base.id > 0, ~popped
                PROVE  /\ cur'.t = base.t \/ cur'.t \in cur'.used
                       /\ \A s \in cur'.used : s <= lastImu
                       /\ \A i \in 2..Len(imuBuf) : imuBuf[i] > base.t => imuBuf[i] \in cur'.used \cup skipped
    BY <1>1, <1>2 DEF PoseInv, shared, ghosts
  <2>1. cb.msg = lastImu /\ cb.msg \in Nat /\ cur.t \in Nat /\ base.t \in Nat
    BY <1>1, RecordTypes DEF SampleInv, MsgInv
  <2>2. /\ cur.t = base.t \/ cur.t \in cur.used
        /\ \A s \in cur.used : s <= lastImu
        /\ \A i \in 2..Len(imuBuf) :
              imuBuf[i] > base.t => imuBuf[i] \in cur.used \cup skipped \/ imuBuf[i] = cb.msg
    BY <1>1 DEF SampleInv, PoseInv
  <2>3. CASE cb.msg > cur.t
    <3>1. cur'.t = cb.msg /\ cur'.used = cur.used \cup {cb.msg}
      BY <1>2, <2>3
    <3>. QED
      BY <2>1, <2>2, <3>1
  <2>4. CASE ~(cb.msg > cur.t)
    <3>1. cur'.t = cur.t /\ cur'.used = cur.used
      BY <1>2, <2>4
    <3>2. cb.msg > base.t => cb.msg \in cur.used
      BY <2>1, <2>2, <2>4
    <3>. QED
      BY <2>2, <3>1, <3>2
  <2>. QED
    BY <2>3, <2>4
<1>. QED
  BY <1>3, <1>4 DEF SampleInv

LEMMA SampleInvCallback ==
  ASSUME TypeInv, SampleInv, ImuCallback
  PROVE  SampleInv'
<1>1. CASE ImuCbk
  BY <1>1, SampleInvCbk
<1>2. CASE Copy /\ ~Upsampling
  <2>1. /\ UNCHANGED <<lastImu, cur, imus, shared, lio, lidar, late, popped>>
        /\ cb.pc = "copy" /\ cb'.pc = "idle" /\ skipped' = skipped \cup {cb.msg}
    BY <1>2, IdleIs DEF Copy, Callback
  <2>. QED
    BY <2>1 DEF SampleInv, PoseInv, MsgInv, shared
<1>3. CASE (Copy /\ Upsampling) \/ TestFlag \/ ClearFlag
  <2>1. /\ UNCHANGED <<lastImu, cur, imus, lio, lidar, ghosts, mode, imuBuf, base, success>>
        /\ cb.pc \in {"copy", "choose", "clear"}
    BY <1>3 DEF Copy, TestFlag, ClearFlag, Callback, shared, ghosts
  <2>2. cb'.pc \notin {"idle", "rebased"} /\ cb'.msg = cb.msg
    <3>1. cb \in Callbacks
      BY DEF TypeInv, TypeOK
    <3>2. CASE Copy /\ Upsampling
      BY <3>1, <3>2 DEF Copy, Callbacks
    <3>3. CASE TestFlag \/ ClearFlag
      <4>1. PICK label \in {"upsample", "integrate"} : cb' = [cb EXCEPT !.pc = label]
        BY <3>3 DEF TestFlag, ClearFlag
      <4>2. label \in Places
        BY DEF Places
      <4>3. cb'.pc = label /\ cb'.msg = cb.msg
        BY <3>1, <4>1, <4>2, PlaceIs
      <4>. QED
        BY <4>3
    <3>. QED
      BY <1>3, <3>2, <3>3
  <2>3. MsgInv'
    BY <2>1, <2>2 DEF SampleInv, MsgInv, InBuffer, lio, ghosts
  <2>4. PoseInv'
    BY <2>1, <2>2 DEF SampleInv, PoseInv, ghosts
  <2>. QED
    BY <2>3, <2>4 DEF SampleInv
<1>6. CASE Rebase
  <2>1. /\ UNCHANGED <<lastImu, imus, shared, lio, lidar, ghosts>> /\ cb.pc = "choose"
        /\ cb' = [cb EXCEPT !.pc = "rebased"]
    BY <1>6 DEF Rebase, Callback
  <2>2. cb'.pc = "rebased" /\ cb'.msg = cb.msg
    BY <2>1, PlaceIs DEF TypeInv, TypeOK, Places
  <2>. QED
    BY <2>1, <2>2 DEF SampleInv, PoseInv, MsgInv, InBuffer, shared, lio, ghosts
<1>4. CASE UpsampleAfterRebase \/ UpsamplingCurrentPose
  BY <1>4, SampleInvUpsample
<1>5. CASE Integrate
  BY <1>5, SampleInvIntegrate
<1>. QED
  BY <1>1, <1>2, <1>3, <1>4, <1>5, <1>6 DEF ImuCallback

\* A sample that sync_packages takes belongs to the scan, and popped tells if it was
\* later than the base.
LEMMA SampleInvSync ==
  ASSUME TypeInv, SampleInv, Sync
  PROVE  SampleInv'
<1>1. PICK pause \in Pauses :
         LET beg == Later(meas.end, lidar) + pause
             end == beg + Scan
             n == Popped(end)
         IN
         /\ end <= lastImu /\ imuBuf # <<>>
         /\ meas' = [beg |-> beg, end |-> end]
         /\ imuBuf' = SubSeq(imuBuf, n + 1, Len(imuBuf))
         /\ popped' = (popped \/ \E i \in 1..n : imuBuf[i] > base.t)
         /\ IF \E i \in 1..n : imuBuf[i] > beg
              THEN pc' = "guards" /\ UNCHANGED status
              ELSE Return("SyncFailed")
  BY DEF Sync
<1>. DEFINE beg == Later(meas.end, lidar) + pause
            last == beg + Scan
<1>2. meas'.end = last /\ last \in Nat /\ meas.end <= last
  <2>1. pause \in Nat /\ Scan \in Nat /\ meas.end \in Nat /\ lidar \in Nat
    BY RecordTypes, TimeAssumption
  <2>2. Later(meas.end, lidar) \in Nat /\ meas.end <= Later(meas.end, lidar)
    BY <2>1 DEF Later
  <2>. QED
    BY <1>1, <2>1, <2>2
<1>3. PICK end \in Nat, n \in 0..Len(imuBuf) :
        /\ meas'.end = end /\ meas.end <= end
        /\ \A i \in 1..n : imuBuf[i] <= end
        /\ imuBuf' = SubSeq(imuBuf, n + 1, Len(imuBuf))
        /\ popped' = (popped \/ \E i \in 1..n : imuBuf[i] > base.t)
  <2>1. /\ imuBuf' = SubSeq(imuBuf, Popped(last) + 1, Len(imuBuf))
        /\ popped' = (popped \/ \E i \in 1..Popped(last) : imuBuf[i] > base.t)
    BY <1>1
  <2>. HIDE DEF last
  <2>2. Popped(last) \in 0..Len(imuBuf) /\ \A i \in 1..Popped(last) : imuBuf[i] <= last
    BY <1>2, PoppedIs, RecordTypes
  <2>. QED
    BY <1>2, <2>1, <2>2
<1>. HIDE DEF beg, last
<1>4. imuBuf \in Seq(Nat) /\ imuBuf' = SubSeq(imuBuf, n + 1, Len(imuBuf))
  BY <1>3, RecordTypes
<1>4a. (popped => popped') /\ \A i \in 1..n : imuBuf[i] > base.t => popped'
  BY <1>3, Zenon
<1>5. /\ imuBuf' \in Seq(Nat) /\ Len(imuBuf') = Len(imuBuf) - n /\ DOMAIN imuBuf' = 1..(Len(imuBuf) - n)
      /\ \A i \in DOMAIN imuBuf' : imuBuf'[i] = imuBuf[i + n] /\ i + n \in DOMAIN imuBuf
  <2>1. Len(imuBuf) \in n..Len(imuBuf) /\ n \in 0..Len(imuBuf)
    BY <1>4
  <2>2. /\ imuBuf' \in Seq(Nat) /\ Len(imuBuf') = Len(imuBuf) - n
        /\ DOMAIN imuBuf' = 1..(Len(imuBuf) - n)
        /\ \A i \in 1..(Len(imuBuf) - n) : imuBuf'[i] = imuBuf[i + n] /\ i + n \in DOMAIN imuBuf
    <3>. DEFINE tail == SubSeq(imuBuf, n + 1, Len(imuBuf))
    <3>1. /\ tail \in Seq(Nat) /\ Len(tail) = Len(imuBuf) - n
          /\ DOMAIN tail = 1..(Len(imuBuf) - n)
          /\ \A i \in 1..(Len(imuBuf) - n) : tail[i] = imuBuf[i + n] /\ i + n \in DOMAIN imuBuf
      BY <1>4, <2>1, SubSeqIs, SMTT(30)
    <3>2. imuBuf' = tail
      BY <1>4
    <3>. HIDE DEF tail
    <3>. QED
      BY <3>1, <3>2
  <2>. QED
    BY <2>2
<1>6. UNCHANGED <<base, lastImu, cur, cb, skipped>>
  BY DEF Sync, callback
<1>8. PoseInv'
  <2>1. ~popped' => ~popped
    BY <1>4a
  <2>2. \A i \in 2..Len(imuBuf') : i + n \in 2..Len(imuBuf) /\ imuBuf'[i] = imuBuf[i + n]
    <3>1. Len(imuBuf) \in Nat /\ n \in Nat /\ DOMAIN imuBuf = 1..Len(imuBuf)
      BY <1>4
    <3>2. Len(imuBuf') = Len(imuBuf) - n /\ DOMAIN imuBuf' = 1..(Len(imuBuf) - n)
      BY <1>5
    <3>. SUFFICES ASSUME NEW i \in 2..Len(imuBuf')
                  PROVE  i + n \in 2..Len(imuBuf) /\ imuBuf'[i] = imuBuf[i + n]
      OBVIOUS
    <3>3. i \in Nat /\ 2 <= i /\ i \in DOMAIN imuBuf'
      BY <3>1, <3>2
    <3>4. imuBuf'[i] = imuBuf[i + n] /\ i + n \in DOMAIN imuBuf
      BY <1>5, <3>3
    <3>. QED
      BY <3>1, <3>3, <3>4
  <2>. QED
    BY <1>6, <2>1, <2>2 DEF SampleInv, PoseInv
<1>9. MsgInv'
  <2>. SUFFICES ASSUME cb.pc # "idle"
                PROVE  /\ InBuffer' \/ cb.msg <= end
                       /\ popped' \/ InBuffer' \/ cb.msg <= base.t
    BY <1>3, <1>6 DEF SampleInv, MsgInv
  <2>0. cb.msg \in Nat /\ meas.end \in Nat /\ base.t \in Nat
    BY RecordTypes
  <2>1. CASE InBuffer
    <3>1. PICK i \in DOMAIN imuBuf : imuBuf[i] = cb.msg
      BY <2>1 DEF InBuffer
    <3>2. CASE i \in 1..n
      <4>1. cb.msg <= end
        BY <1>3, <3>1, <3>2
      <4>2. imuBuf[i] > base.t => popped'
        BY <1>4a, <3>2
      <4>3. imuBuf[i] > base.t \/ cb.msg <= base.t
        BY <2>0, <3>1
      <4>. QED
        BY <4>1, <4>2, <4>3
    <3>3. CASE i \notin 1..n
      <4>1. i - n \in DOMAIN imuBuf' /\ (i - n) + n = i
        BY <1>4, <1>5, <3>1, <3>3, SMTT(30)
      <4>2. imuBuf'[i - n] = cb.msg
        BY <1>5, <3>1, <4>1
      <4>. QED
        BY <1>6, <4>1, <4>2 DEF InBuffer
    <3>. QED
      BY <3>2, <3>3
  <2>2. CASE ~InBuffer
    <3>1. cb.msg <= meas.end /\ (popped \/ cb.msg <= base.t)
      BY <2>2 DEF SampleInv, MsgInv
    <3>2. cb.msg <= end
      BY <1>3, <2>0, <3>1
    <3>. QED
      BY <1>4a, <3>1, <3>2
  <2>. QED
    BY <2>1, <2>2
<1>. QED
  BY <1>8, <1>9 DEF SampleInv

LEMMA SampleInvRun ==
  ASSUME TypeInv, SampleInv, Run
  PROVE  SampleInv'
<1>1. CASE Sync
  BY <1>1, SampleInvSync
<1>2. CASE UpdateBase
  <2>1. /\ UNCHANGED <<imuBuf, meas, callback, skipped>> /\ popped' = FALSE
        /\ base' = Base(meas.end, base.id + 1)
    BY <1>2 DEF UpdateBase
  <2>2. base'.t = meas.end /\ base'.id = base.id + 1
    BY <2>1 DEF Base
  <2>3. cur.id <= base.id /\ cur.id \in Nat /\ base.id \in Nat
    BY RecordTypes DEF TypeInv, CountInv
  <2>4. cur'.id # base'.id
    BY <2>1, <2>2, <2>3 DEF callback
  <2>. QED
    BY <2>1, <2>2, <2>4 DEF SampleInv, PoseInv, MsgInv, InBuffer, callback
<1>3. CASE \/ SyncFails \/ TooFewPoints \/ CheckOcclusion \/ FirstScan \/ ImuInit \/ Process
           \/ VelAbnormalInPredict \/ AfterDownSample \/ BuildTree \/ IteratedUpdate
           \/ VelAbnormalInUpdate \/ SetFlag \/ Finish
  <2>1. UNCHANGED <<imuBuf, base, meas, callback, popped, skipped>>
    BY <1>3 DEF SyncFails, TooFewPoints, CheckOcclusion, FirstScan, ImuInit, Process,
                VelAbnormalInPredict, AfterDownSample, BuildTree, IteratedUpdate, VelAbnormalInUpdate,
                SetFlag, Finish, shared, ghosts
  <2>. QED
    BY <2>1 DEF SampleInv, PoseInv, MsgInv, InBuffer, callback
<1>. QED
  BY <1>1, <1>2, <1>3 DEF Run

LEMMA SampleInvStep ==
  ASSUME TypeInv, SampleInv, [Next]_vars
  PROVE  SampleInv'
<1>1. CASE LidarGap
  <2>1. UNCHANGED <<imuBuf, meas, callback, skipped>> /\ popped' = TRUE
    BY <1>1 DEF LidarGap, lio
  <2>. QED
    BY <2>1 DEF SampleInv, PoseInv, MsgInv, InBuffer, callback
<1>2. CASE GlobalSuccess \/ GlobalLost
  <2>1. UNCHANGED <<imuBuf, base, meas, callback, popped, skipped>>
    BY <1>2 DEF GlobalSuccess, GlobalLost, lio, ghosts
  <2>. QED
    BY <2>1 DEF SampleInv, PoseInv, MsgInv, InBuffer, callback
<1>3. CASE UNCHANGED vars
  BY <1>3 DEF vars, SampleInv, PoseInv, MsgInv, InBuffer, callback, lio, shared, ghosts
<1>. QED
  BY <1>1, <1>2, <1>3, SampleInvCallback, SampleInvRun DEF Next

LEMMA SampleInvariant == Spec => []SampleInv
<1>1. TypeInv /\ SampleInv /\ [Next]_vars => SampleInv'
  BY SampleInvStep
<1>. QED
  BY <1>1, TypeInvariant, SampleInvInit, PTL DEF Spec

\* A pose that started from the newest base holds every later sample of the buffer
\* but perhaps the first, and those that came while the vehicle was not on the map,
\* unless run has taken samples for its next scan: also when localization is lost and
\* found again between any two steps.  (imu_cbk, upsampling_current_pose,
\* localizationThread.)
THEOREM SamplesHeld == Spec => []SamplesSinceBase
<1>1. SampleInv => SamplesSinceBase
  BY DEF SampleInv, PoseInv, SamplesSinceBase
<1>. QED
  BY <1>1, SampleInvariant, PTL

\* A callback that upsamples leaves the pose at its sample's time or later, unless run
\* has taken the sample away while the pose was being set back.  (imu_cbk.)
THEOREM PoseComesToSample == Spec => PoseIsCurrent
<1>1. ASSUME TypeInv, SampleInv, [Next]_vars
      PROVE  [cb.pc \in {"integrate", "rebased"} /\ cb'.pc = "idle" /\ ~popped => cur'.t >= cb.msg]_vars
  <2>. SUFFICES ASSUME cb.pc \in {"integrate", "rebased"}, cb'.pc = "idle", ~popped
                PROVE  cur'.t >= cb.msg
    OBVIOUS
  <2>0. cb.msg \in Nat /\ cur.t \in Nat /\ base.t \in Nat /\ imuBuf \in Seq(Nat)
    BY RecordTypes, <1>1
  <2>1. CASE Integrate
    BY <1>1, <2>0, <2>1, IntegratedIs
  <2>2. CASE UpsampleAfterRebase
    <3>1. cur' = Upsampled
      BY <2>2 DEF UpsampleAfterRebase
    <3>2. /\ Upsampled.used = Advancing(imuBuf, base.t) /\ Upsampled.t \in Nat
          /\ base.t <= Upsampled.t /\ \A s \in Upsampled.used : s <= Upsampled.t
      BY <1>1, UpsampledIs
    <3>3. CASE cb.msg <= base.t
      BY <2>0, <3>1, <3>2, <3>3
    <3>4. CASE ~(cb.msg <= base.t)
      <4>1. PICK i \in DOMAIN imuBuf : imuBuf[i] = cb.msg
        BY <1>1, <3>4 DEF SampleInv, MsgInv, InBuffer
      <4>2. \A k, l \in DOMAIN imuBuf : k < l => imuBuf[k] <= imuBuf[l]
        BY <1>1 DEF TypeInv, BufferInOrder
      <4>3. \A k \in DOMAIN imuBuf : imuBuf[k] > base.t => imuBuf[k] \in Advancing(imuBuf, base.t)
        BY <2>0, <4>2, AdvancingIs
      <4>4. cb.msg \in Upsampled.used
        BY <2>0, <3>2, <3>4, <4>1, <4>3
      <4>. QED
        BY <2>0, <3>1, <3>2, <4>4
    <3>. QED
      BY <3>3, <3>4
  <2>3. cb' # cb
    OBVIOUS
  <2>4. CASE ImuCbk \/ Copy \/ Rebase \/ TestFlag \/ UpsamplingCurrentPose \/ ClearFlag
    BY <2>4 DEF ImuCbk, Copy, Rebase, TestFlag, UpsamplingCurrentPose, ClearFlag, Callback
  <2>5. ASSUME Run \/ LidarGap \/ GlobalSuccess \/ GlobalLost \/ UNCHANGED vars PROVE FALSE
    <3>1. UNCHANGED callback
      BY <2>5 DEF Run, SyncFails, Sync, TooFewPoints, CheckOcclusion, FirstScan, ImuInit, Process,
                  VelAbnormalInPredict, AfterDownSample, BuildTree, IteratedUpdate, VelAbnormalInUpdate,
                  UpdateBase, SetFlag, Finish, LidarGap, GlobalSuccess, GlobalLost, vars
    <3>. QED
      BY <2>3, <3>1 DEF callback
  <2>. QED
    BY <1>1, <2>1, <2>2, <2>4, <2>5 DEF Next, ImuCallback
<1>. QED
  BY <1>1, TypeInvariant, SampleInvariant, PTL DEF Spec, PoseIsCurrent


-------------------------------------------------------------------------------
(* The loop of the iterated update, as far as it has come.                      *)
LoopTypes ==
    update \in [pass : 1..(LastPass + 1), converge : BOOLEAN, t : 0..2, done : BOOLEAN,
                searched : SUBSET (1..LastPass), moved : SUBSET (1..LastPass),
                covered : SUBSET (1..LastPass), dark : SUBSET (1..LastPass)]

SearchedLater == \E p \in update.searched : p > 1

\* As long as it runs: the covariance is not written; a first small correction asks
\* for a search in the next pass, and so does the last pass but one without any.
LoopRuns ==
    ~update.done =>
        /\ update.pass <= LastPass /\ update.covered = {} /\ update.t <= 1
        /\ update.pass = 1 => update.converge /\ update.t = 0
        /\ update.dark = {} =>
              /\ update.pass > 1 => 1 \in update.searched
              /\ update.t = 1 => update.converge \/ SearchedLater
              /\ update.t = 0 /\ update.pass = LastPass => update.converge

\* When it is over.
LoopOver ==
    update.done =>
        /\ update.covered \subseteq {update.pass - 1} /\ update.covered \subseteq update.moved
        /\ update.dark = {} => update.covered # {} /\ 1 \in update.searched /\ SearchedLater
        /\ update.covered = {} => LastPass \in update.dark

LoopInv == LoopTypes /\ LoopRuns /\ LoopOver

LEMMA LoopStarts == UpdateInit => LoopInv
<1> SUFFICES ASSUME UpdateInit PROVE LoopInv
  OBVIOUS
<1>0. LastPass \in Nat /\ LastPass >= 2 /\ (LastPass < 1) = FALSE
  BY IterAssumption DEF LastPass
<1>1. update = [pass |-> 1, converge |-> TRUE, t |-> 0, done |-> FALSE, searched |-> {},
               moved |-> {}, covered |-> {}, dark |-> {}]
  BY <1>0, Zenon DEF UpdateInit, Start
<1>2. LoopTypes
  BY <1>0, <1>1 DEF LoopTypes
<1>3. LoopRuns /\ LoopOver
  BY <1>0, <1>1 DEF LoopRuns, LoopOver, SearchedLater
<1> QED
  BY <1>2, <1>3 DEF LoopInv

LEMMA LoopGoesOn == LoopInv /\ [UpdateStep]_update => LoopInv'
<1> SUFFICES ASSUME LoopInv, [UpdateStep]_update PROVE LoopInv'
  OBVIOUS
<1> USE DEF LoopInv
<1>0. LastPass \in Nat /\ LastPass >= 2
  BY IterAssumption DEF LastPass
<1>1. CASE UNCHANGED update
  BY <1>1 DEF LoopTypes, LoopRuns, LoopOver, SearchedLater
<1>2. CASE UpdateStep
  <2>1. /\ ~update.done /\ update.pass \in 1..LastPass /\ update.covered = {} /\ update.t \in 0..1
        /\ update.pass = 1 => update.converge /\ update.t = 0
    BY <1>0, <1>2 DEF UpdateStep, LoopTypes, LoopRuns
  <2>2. Searched(update) \subseteq 1..LastPass /\ update.searched \subseteq Searched(update)
    BY <1>0, <2>1 DEF Searched, LoopTypes
  <2>3. update.converge => update.pass \in Searched(update)
    BY DEF Searched
  <2>4. CASE update' = DarkPass(update)
    <3>1. /\ update'.pass = update.pass + 1 /\ update'.t = update.t
          /\ update'.done <=> update.pass = LastPass
          /\ update'.covered = {} /\ update'.dark = update.dark \cup {update.pass}
      BY <2>1, <2>4 DEF DarkPass, LoopTypes
    <3>2. LoopTypes'
      <4> DEFINE last == update.pass = LastPass
      <4>1. update' = [update EXCEPT !.searched = Searched(update), !.dark = update.dark \cup {update.pass},
                                    !.pass = update.pass + 1, !.done = last]
        BY <2>4, Zenon DEF DarkPass
      <4> DEFINE searched == Searched(update)
                 dark == update.dark \cup {update.pass}
                 pass == update.pass + 1
      <4>2. /\ last \in BOOLEAN /\ pass \in 1..(LastPass + 1)
            /\ searched \in SUBSET (1..LastPass) /\ dark \in SUBSET (1..LastPass)
        BY <1>0, <2>1, <2>2 DEF LoopTypes
      <4>3. update' = [update EXCEPT !.searched = searched, !.dark = dark, !.pass = pass, !.done = last]
        BY <4>1
      <4> HIDE DEF last, searched, dark, pass
      <4> QED
        BY <4>2, <4>3 DEF LoopTypes
    <3>3. LoopRuns' /\ LoopOver'
      BY <1>0, <2>1, <3>1 DEF LoopRuns, LoopOver
    <3> QED
      BY <3>2, <3>3
  <2>5. ASSUME NEW small \in BOOLEAN, update' = LitPass(update, small)
        PROVE  LoopInv'
    <3> DEFINE t == update.t + (IF small THEN 1 ELSE 0)
    <3>1. /\ update'.pass = update.pass + 1 /\ update'.t = t /\ (update'.done <=> Ends(update, t))
          /\ (update'.converge <=> (small \/ Forced(update, t)))
          /\ update'.searched = Searched(update) /\ update'.dark = update.dark
          /\ update'.moved = update.moved \cup {update.pass}
          /\ update'.covered = IF Ends(update, t) THEN {update.pass} ELSE {}
      BY <2>1, <2>5 DEF LitPass, LoopTypes
    <3>2. t \in 0..2 /\ Ends(update, t) \in BOOLEAN /\ Forced(update, t) \in BOOLEAN
      BY <2>1 DEF Ends, Forced
    <3>3. LoopTypes'
      <4> DEFINE again == small \/ Forced(update, t)
                 ends == Ends(update, t)
                 covered == IF ends THEN update.covered \cup {update.pass} ELSE update.covered
      <4>1. update' = [update EXCEPT !.searched = Searched(update), !.moved = update.moved \cup {update.pass},
                                    !.t = t, !.converge = again, !.covered = covered,
                                    !.pass = update.pass + 1, !.done = ends]
        BY <2>5, Zenon DEF LitPass
      <4> DEFINE searched == Searched(update)
                 moved == update.moved \cup {update.pass}
                 pass == update.pass + 1
      <4>2. /\ again \in BOOLEAN /\ ends \in BOOLEAN /\ pass \in 1..(LastPass + 1) /\ t \in 0..2
            /\ searched \in SUBSET (1..LastPass) /\ moved \in SUBSET (1..LastPass)
            /\ covered \in SUBSET (1..LastPass)
        BY <1>0, <2>1, <2>2, <3>2 DEF LoopTypes
      <4>3. update' = [update EXCEPT !.searched = searched, !.moved = moved, !.t = t, !.converge = again,
                                    !.covered = covered, !.pass = pass, !.done = ends]
        BY <4>1
      <4> HIDE DEF t, again, ends, covered, searched, moved, pass
      <4> QED
        BY <4>2, <4>3 DEF LoopTypes
    <3>4. ASSUME update.dark = {}
          PROVE  /\ 1 \in Searched(update)
                 /\ update.t = 1 \/ update.pass = LastPass => \E p \in Searched(update) : p > 1
      <4>1. 1 \in Searched(update)
        BY <1>0, <2>1, <2>2, <2>3, <3>4 DEF LoopRuns
      <4>2. CASE update.t = 1
        BY <1>0, <2>1, <2>2, <2>3, <3>4, <4>2 DEF LoopRuns, SearchedLater
      <4>3. CASE update.t = 0 /\ update.pass = LastPass
        BY <1>0, <2>1, <2>2, <2>3, <3>4, <4>3 DEF LoopRuns
      <4> QED
        BY <2>1, <4>1, <4>2, <4>3
    <3>5. LoopRuns'
      <4> SUFFICES ASSUME ~update'.done PROVE LoopRuns'
        BY DEF LoopRuns
      <4>1. t <= 1 /\ update.pass < LastPass
        BY <1>0, <2>1, <3>1, <3>2 DEF Ends
      <4>2. update'.pass <= LastPass /\ update'.covered = {} /\ update'.t <= 1 /\ update'.pass > 1
        BY <1>0, <2>1, <3>1, <4>1
      <4>3. ASSUME update'.dark = {}
            PROVE  /\ 1 \in update'.searched
                   /\ update'.t = 1 => update'.converge \/ SearchedLater'
                   /\ update'.t = 0 /\ update'.pass = LastPass => update'.converge
        <5>1. 1 \in update'.searched
          BY <3>1, <3>4, <4>3
        <5>2. CASE t = 0
          BY <1>0, <2>1, <3>1, <5>1, <5>2 DEF Forced
        <5>3. CASE t = 1 /\ small
          BY <3>1, <5>1, <5>3
        <5>4. CASE t = 1 /\ ~small
          <6>1. update.t = 1
            BY <2>1, <5>4
          <6> QED
            BY <3>1, <3>4, <4>3, <5>1, <5>4, <6>1 DEF SearchedLater
        <5> QED
          BY <3>2, <4>1, <5>2, <5>3, <5>4
      <4> QED
        BY <2>1, <4>2, <4>3 DEF LoopRuns
    <3>6. LoopOver'
      <4> SUFFICES ASSUME update'.done PROVE LoopOver'
        BY DEF LoopOver
      <4>1. update.t = 1 \/ update.pass = LastPass
        BY <2>1, <3>1, <3>2 DEF Ends
      <4>2. update'.covered = {update.pass} /\ update'.pass - 1 = update.pass
        BY <2>1, <3>1
      <4>3. update'.dark = {} => 1 \in update'.searched /\ SearchedLater'
        BY <3>1, <3>4, <4>1 DEF SearchedLater
      <4> QED
        BY <3>1, <4>2, <4>3 DEF LoopOver
    <3> QED
      BY <3>3, <3>5, <3>6
  <2> QED
    BY <1>2, <2>4, <2>5 DEF UpdateStep
<1> QED
  BY <1>1, <1>2

(* One call of update_iterated_dyn_share_modified, with any number of passes and any  *)
(* outcome of each: the covariance is written at most once, by the pass that ends the *)
(* loop; a call that found points in every pass has written it and has searched again. *)
THEOREM Updates == UpdateSpec => []UpdateEnds
<1>1. LoopInv => UpdateEnds
  <2> SUFFICES ASSUME LoopInv, update.done PROVE UpdateEnds
    BY DEF UpdateEnds
  <2>1. ASSUME update.dark = {} PROVE Cardinality(update.searched) > 1
    <3>1. PICK p \in update.searched : p > 1
      BY <2>1 DEF LoopInv, LoopOver, SearchedLater
    <3>2. {1, p} \subseteq update.searched /\ p # 1
      BY <2>1, <3>1 DEF LoopInv, LoopOver
    <3>3. IsFiniteSet(update.searched)
      <4>1. LastPass \in Int /\ update.searched \subseteq 1..LastPass
        BY IterAssumption DEF LoopInv, LoopTypes, LastPass
      <4> QED
        BY <4>1, FS_Interval, FS_Subset
    <3>4. Cardinality({1, p}) <= Cardinality(update.searched)
      BY <3>2, <3>3, FS_Subset
    <3>5. Cardinality({1, p}) = 2
      <4>1. Cardinality({1}) = 1 /\ IsFiniteSet({1})
        BY FS_Singleton
      <4>2. {1, p} = {1} \cup {p} /\ p \notin {1}
        BY <3>2
      <4> QED
        <5>1. Cardinality({1} \cup {p}) = Cardinality({1}) + 1
          BY <4>1, <4>2, FS_AddElement
        <5> QED
          BY <4>1, <4>2, <5>1
    <3> QED
      BY <3>3, <3>4, <3>5, FS_CardinalityType
  <2> QED
    BY <2>1 DEF LoopInv, LoopOver, UpdateEnds
<1> QED
  BY LoopStarts, LoopGoesOn, <1>1, PTL DEF UpdateSpec

-------------------------------------------------------------------------------
(* The box of the local map.                                                   *)

IsBox(box) == /\ box = [lo |-> box.lo, hi |-> box.hi]
              /\ box.lo \in [Dims -> Int] /\ box.hi \in [Dims -> Int]

\* The box is as wide as it was made, the lidar farther than the edge from each of
\* its sides, and the box, and what was cut off, what the lidar's place makes of the
\* box before.
BoxInv ==
    /\ localMap.pos \in [Dims -> Int] /\ IsBox(localMap.box) /\ IsBox(localMap.before)
    /\ \A d \in Dims : /\ localMap.box.hi[d] - localMap.box.lo[d] = CubeLen
                      /\ localMap.pos[d] - localMap.box.lo[d] > Edge
                      /\ localMap.box.hi[d] - localMap.pos[d] > Edge
    /\ \A d \in Dims :
          LET shift == Shift(localMap.before, localMap.pos, d) IN
          /\ localMap.box.lo[d] = localMap.before.lo[d] + shift
          /\ localMap.box.hi[d] = localMap.before.hi[d] + shift
    /\ localMap.removed = RemovedSlabs(localMap.before, localMap.pos)

\* A box is wide enough to be moved: the lidar is then far from its other side, too.
LEMMA Lengths ==
    /\ Edge \in Nat /\ MoveDist \in Nat /\ MoveDist > 0
    /\ 2 * Edge + MoveDist < CubeLen
    /\ CubeLen \in Nat /\ CubeLen = 2 * (CubeLen \div 2) /\ CubeLen \div 2 \in Nat
<1>1. PICK c \in Nat : CubeLen = 2 * c
  BY MapAssumption
<1>2. PICK r \in Nat : DetRange = 2 * r
  BY MapAssumption
<1>3. Edge = 3 * r /\ r > 0 /\ 7 * r < 2 * c
  BY <1>1, <1>2, MapAssumption, StrideAssumption DEF Edge
<1>4. DetRange \div 2 = r /\ CubeLen \div 2 = c
  BY <1>1, <1>2
<1> DEFINE most == (9 * (CubeLen - 2 * Edge)) \div 20
<1>5. most \in Int /\ 20 * most <= 9 * (CubeLen - 2 * Edge)
  BY <1>1, <1>3
<1>6. MoveDist = IF most > r THEN most ELSE r
  BY <1>4 DEF MoveDist
<1> HIDE DEF most
<1> QED
  BY <1>1, <1>3, <1>4, <1>5, <1>6

\* What the place of the lidar does to a side of the box it is still inside of.
LEMMA ShiftIs ==
    ASSUME NEW box, NEW pos, NEW d, box.lo[d] \in Int, box.hi[d] \in Int, pos[d] \in Int,
           box.lo[d] <= pos[d], pos[d] <= box.hi[d]
    PROVE  /\ NearSide(box, pos, d) \in {"low", "high", "none"}
           /\ NearSide(box, pos, d) = "low" <=> pos[d] - box.lo[d] <= Edge
           /\ NearSide(box, pos, d) = "high" <=> /\ pos[d] - box.lo[d] > Edge
                                              /\ box.hi[d] - pos[d] <= Edge
           /\ Shift(box, pos, d) = CASE NearSide(box, pos, d) = "low" -> -MoveDist
                                     [] NearSide(box, pos, d) = "high" -> MoveDist
                                     [] NearSide(box, pos, d) = "none" -> 0
<1>1. Apart(pos[d], box.lo[d]) = pos[d] - box.lo[d] /\ Apart(pos[d], box.hi[d]) = box.hi[d] - pos[d]
  BY DEF Apart
<1>2. Edge \in Nat /\ MoveDist \in Nat
  BY Lengths
<1>3. /\ NearSide(box, pos, d) \in {"low", "high", "none"}
      /\ NearSide(box, pos, d) = "low" <=> pos[d] - box.lo[d] <= Edge
      /\ NearSide(box, pos, d) = "high" <=> /\ pos[d] - box.lo[d] > Edge
                                         /\ box.hi[d] - pos[d] <= Edge
  BY <1>1, <1>2 DEF NearSide
<1> QED
  BY <1>3 DEF Shift

LEMMA BoxStarts == MapInit => BoxInv
<1> SUFFICES ASSUME MapInit PROVE BoxInv
  OBVIOUS
<1> DEFINE half == CubeLen \div 2
<1>1. half \in Nat /\ half > Edge /\ CubeLen = half + half /\ Edge \in Nat
  BY Lengths
<1>2. /\ localMap.pos \in [Dims -> Int] /\ \A d \in Dims : localMap.pos[d] = 0
      /\ IsBox(localMap.box) /\ localMap.before = localMap.box /\ localMap.removed = {}
      /\ \A d \in Dims : localMap.box.lo[d] = 0 - half /\ localMap.box.hi[d] = half
  BY <1>1 DEF MapInit, BoxAround, IsBox
<1> HIDE DEF half
<1>3. \A d \in Dims : NearSide(localMap.before, localMap.pos, d) = "none"
  BY <1>1, <1>2, ShiftIs
<1>4. \A d \in Dims : Shift(localMap.before, localMap.pos, d) = 0
  BY <1>3 DEF Shift
<1>5. RemovedSlabs(localMap.before, localMap.pos) = {}
  BY <1>3 DEF RemovedSlabs
<1> QED
  BY <1>1, <1>2, <1>4, <1>5 DEF BoxInv, IsBox

LEMMA BoxGoesOn == BoxInv /\ [MapStep]_localMap => BoxInv'
<1> SUFFICES ASSUME BoxInv, [MapStep]_localMap PROVE BoxInv'
  OBVIOUS
<1>1. CASE UNCHANGED localMap
  <2>1. RemovedSlabs(localMap.before, localMap.pos)' = RemovedSlabs(localMap.before, localMap.pos)
    BY <1>1
  <2> QED
    BY <1>1 DEF BoxInv, IsBox
<1>2. ASSUME NEW stride \in [Dims -> Strides],
             localMap' = [pos |-> [d \in Dims |-> localMap.pos[d] + stride[d]],
                          box |-> Moved(localMap.box, [d \in Dims |-> localMap.pos[d] + stride[d]]),
                          before |-> localMap.box,
                          removed |-> RemovedSlabs(localMap.box, [d \in Dims |-> localMap.pos[d] + stride[d]])]
      PROVE  BoxInv'
  <2> DEFINE pos == [d \in Dims |-> localMap.pos[d] + stride[d]]
             box == localMap.box
  <2>0. ASSUME NEW d \in Dims
        PROVE  stride[d] \in Int /\ stride[d] <= MaxStride /\ -MaxStride <= stride[d]
    <3>1. stride[d] \in Strides
      OBVIOUS
    <3>2. MaxStride \in Nat /\ Strides \subseteq -MaxStride..MaxStride
      BY StrideAssumption
    <3>3. stride[d] \in -MaxStride..MaxStride
      BY <3>1, <3>2
    <3> QED
      BY <3>2, <3>3
  <2>1. /\ localMap'.pos = pos /\ localMap'.box = Moved(box, pos)
        /\ localMap'.before = box /\ localMap'.removed = RemovedSlabs(box, pos)
    BY <1>2
  <2>2. /\ Edge \in Nat /\ MoveDist \in Nat /\ MaxStride \in Nat /\ MaxStride <= Edge
        /\ MaxStride <= MoveDist /\ 2 * Edge + MoveDist < CubeLen /\ CubeLen \in Nat
    BY Lengths, StrideAssumption
  <2>3. pos \in [Dims -> Int] /\ IsBox(box)
    <3>1. \A d \in Dims : localMap.pos[d] \in Int /\ stride[d] \in Int
      BY <2>0 DEF BoxInv
    <3> QED
      BY <3>1 DEF BoxInv
  <2>4. ASSUME NEW d \in Dims
        PROVE  /\ box.lo[d] \in Int /\ box.hi[d] \in Int /\ pos[d] \in Int
               /\ box.hi[d] - box.lo[d] = CubeLen
               /\ pos[d] - box.lo[d] > Edge - MaxStride
               /\ box.hi[d] - pos[d] > Edge - MaxStride
    <3>1. stride[d] \in Int /\ stride[d] <= MaxStride /\ -MaxStride <= stride[d]
      BY <2>0
    <3>2. pos[d] = localMap.pos[d] + stride[d] /\ localMap.pos[d] \in Int
      BY DEF BoxInv
    <3>3. box.lo[d] \in Int /\ box.hi[d] \in Int
      BY <2>3 DEF IsBox
    <3>4. /\ box.hi[d] - box.lo[d] = CubeLen
          /\ localMap.pos[d] - box.lo[d] > Edge /\ box.hi[d] - localMap.pos[d] > Edge
      BY DEF BoxInv
    <3> HIDE DEF pos, box
    <3> QED
      BY <2>2, <3>1, <3>2, <3>3, <3>4
  <2> HIDE DEF pos, box
  <2>5. ASSUME NEW d \in Dims
        PROVE  /\ Shift(box, pos, d) \in Int
               /\ pos[d] - (box.lo[d] + Shift(box, pos, d)) > Edge
               /\ (box.hi[d] + Shift(box, pos, d)) - pos[d] > Edge
    <3>1. box.lo[d] <= pos[d] /\ pos[d] <= box.hi[d]
      BY <2>2, <2>4
    <3>2. CASE NearSide(box, pos, d) = "low"
      BY <2>2, <2>4, <3>1, <3>2, ShiftIs
    <3>3. CASE NearSide(box, pos, d) = "high"
      BY <2>2, <2>4, <3>1, <3>3, ShiftIs
    <3>4. CASE NearSide(box, pos, d) = "none"
      BY <2>2, <2>4, <3>1, <3>4, ShiftIs
    <3> QED
      BY <2>4, <3>1, <3>2, <3>3, <3>4, ShiftIs
  <2>6. /\ IsBox(Moved(box, pos))
        /\ \A d \in Dims : /\ Moved(box, pos).lo[d] = box.lo[d] + Shift(box, pos, d)
                          /\ Moved(box, pos).hi[d] = box.hi[d] + Shift(box, pos, d)
    BY <2>4, <2>5 DEF Moved, IsBox
  <2>7. \A d \in Dims : /\ Moved(box, pos).hi[d] - Moved(box, pos).lo[d] = CubeLen
                      /\ pos[d] - Moved(box, pos).lo[d] > Edge
                      /\ Moved(box, pos).hi[d] - pos[d] > Edge
    BY <2>2, <2>4, <2>5, <2>6
  <2> QED
    BY <2>1, <2>3, <2>6, <2>7 DEF BoxInv, IsBox
<1> QED
  BY <1>1, <1>2 DEF MapStep

\* A box and the one it is moved to: of the old one, the slabs lie outside of the new.
LEMMA SlabsAreLeftOut ==
    ASSUME BoxInv, NEW cell \in [Dims -> Int], Within(cell, localMap.before)
    PROVE  ~Within(cell, localMap.box) <=> \E slab \in localMap.removed : Within(cell, slab)
<1> DEFINE box == localMap.before
           pos == localMap.pos
<1>1. ASSUME NEW d \in Dims
      PROVE  /\ box.lo[d] \in Int /\ box.hi[d] \in Int /\ pos[d] \in Int /\ cell[d] \in Int
             /\ box.lo[d] <= cell[d] /\ cell[d] < box.hi[d]
             /\ Shift(box, pos, d) = IF NearSide(box, pos, d) = "low" THEN -MoveDist
                                    ELSE IF NearSide(box, pos, d) = "high" THEN MoveDist ELSE 0
             /\ NearSide(box, pos, d) \in {"low", "high", "none"}
             /\ localMap.box.lo[d] = box.lo[d] + Shift(box, pos, d)
             /\ localMap.box.hi[d] = box.hi[d] + Shift(box, pos, d)
  BY DEF BoxInv, IsBox, Within, Shift, NearSide
<1>2. MoveDist \in Nat
  BY Lengths
<1> DEFINE Out(d) == \/ NearSide(box, pos, d) = "low" /\ cell[d] >= box.hi[d] - MoveDist
                     \/ NearSide(box, pos, d) = "high" /\ cell[d] < box.lo[d] + MoveDist
<1>3. ASSUME NEW d \in Dims
      PROVE  ~(localMap.box.lo[d] <= cell[d] /\ cell[d] < localMap.box.hi[d]) <=> Out(d)
  BY <1>1, <1>2
<1>4. ASSUME NEW d \in Dims, NearSide(box, pos, d) # "none"
      PROVE  Within(cell, Slab(box, pos, d)) <=> Out(d)
  <2>1. CASE NearSide(box, pos, d) = "low"
    <3>1. Slab(box, pos, d) = [lo |-> [box.lo EXCEPT ![d] = box.hi[d] - MoveDist], hi |-> box.hi]
      BY <2>1 DEF Slab, BoxInv, IsBox
    <3> DEFINE lo == [box.lo EXCEPT ![d] = box.hi[d] - MoveDist]
    <3>2. \A e \in Dims : lo[e] = IF e = d THEN box.hi[d] - MoveDist ELSE box.lo[e]
      BY DEF BoxInv, IsBox
    <3>3. Within(cell, Slab(box, pos, d)) <=> \A e \in Dims : lo[e] <= cell[e] /\ cell[e] < box.hi[e]
      BY <3>1 DEF Within
    <3> HIDE DEF box, pos, lo
    <3> QED
      BY <1>1, <1>2, <2>1, <3>2, <3>3
  <2>2. CASE NearSide(box, pos, d) = "high"
    <3>1. Slab(box, pos, d) = [lo |-> box.lo, hi |-> [box.hi EXCEPT ![d] = box.lo[d] + MoveDist]]
      BY <2>2 DEF Slab, BoxInv, IsBox
    <3> DEFINE hi == [box.hi EXCEPT ![d] = box.lo[d] + MoveDist]
    <3>2. \A e \in Dims : hi[e] = IF e = d THEN box.lo[d] + MoveDist ELSE box.hi[e]
      BY DEF BoxInv, IsBox
    <3>3. Within(cell, Slab(box, pos, d)) <=> \A e \in Dims : box.lo[e] <= cell[e] /\ cell[e] < hi[e]
      BY <3>1 DEF Within
    <3> HIDE DEF box, pos, hi
    <3> QED
      BY <1>1, <1>2, <2>2, <3>2, <3>3
  <2> QED
    BY <1>1, <1>4, <2>1, <2>2
<1>5. ~Within(cell, localMap.box) <=> \E d \in Dims : Out(d)
  BY <1>3 DEF Within
<1>6. (\E slab \in localMap.removed : Within(cell, slab)) <=> \E d \in Dims : Out(d)
  <2>1. localMap.removed = {Slab(box, pos, d) : d \in {e \in Dims : NearSide(box, pos, e) # "none"}}
    BY DEF BoxInv, RemovedSlabs
  <2>2. \A d \in Dims : Out(d) => NearSide(box, pos, d) # "none"
    OBVIOUS
  <2> HIDE DEF Out, box, pos
  <2> QED
    BY <1>4, <2>1, <2>2
<1> QED
  BY <1>5, <1>6

(* lasermap_fov_segment along any drive, with any number of scans, as long as the    *)
(* lidar gets no farther between two scans than the edge and than the box moves: it   *)
(* stays away from the sides, and what is cut off is what the box leaves out.        *)
THEOREM MapIsFollowed == MapSpec => []MapFollows
<1>1. BoxInv => MapFollows
  <2> SUFFICES ASSUME BoxInv PROVE MapFollows
    OBVIOUS
  <2>1. \A d \in Dims : /\ localMap.pos[d] - localMap.box.lo[d] > MaxStride
                      /\ localMap.box.hi[d] - localMap.pos[d] > MaxStride
    <3>1. MaxStride \in Nat /\ MaxStride <= Edge /\ Edge \in Nat
      BY Lengths, StrideAssumption
    <3> QED
      BY <3>1 DEF BoxInv, IsBox
  <2>2. ASSUME localMap.box = localMap.before PROVE localMap.removed = {}
    <3>1. ASSUME NEW d \in Dims PROVE NearSide(localMap.before, localMap.pos, d) = "none"
      <4>1. /\ localMap.before.lo[d] \in Int
            /\ localMap.before.lo[d] = localMap.before.lo[d] + Shift(localMap.before, localMap.pos, d)
        BY <2>2 DEF BoxInv, IsBox
      <4>2. MoveDist \in Nat /\ MoveDist > 0
        BY Lengths
      <4> QED
        BY <4>1, <4>2 DEF Shift, NearSide
    <3> QED
      BY <3>1 DEF BoxInv, RemovedSlabs
  <2>3. ASSUME NEW cell \in Surroundings(localMap.before), Within(cell, localMap.before)
        PROVE  ~Within(cell, localMap.box) <=> \E slab \in localMap.removed : Within(cell, slab)
    <3>1. cell \in [Dims -> Int]
      <4> DEFINE least == Min({localMap.before.lo[d] : d \in Dims})
                 most == Max({localMap.before.hi[d] : d \in Dims})
      <4>1. cell \in [Dims -> least..most]
        BY <2>3 DEF Surroundings
      <4> HIDE DEF least, most
      <4>2. least..most \subseteq Int
        OBVIOUS
      <4> QED
        BY <4>1, <4>2
    <3> QED
      BY <2>3, <3>1, SlabsAreLeftOut
  <2> QED
    BY <2>1, <2>2, <2>3 DEF MapFollows
<1> QED
  BY BoxStarts, BoxGoesOn, <1>1, PTL DEF MapSpec

-------------------------------------------------------------------------------
(* UndistortPcl, loop by loop.                                                  *)
UndistortTypes ==
    /\ measure \in Measures /\ at \in {"forward", "backward", "done"}
    /\ head \in 1..Len(measure.imu) /\ (at # "forward" => head = Len(measure.imu))
    /\ segments \in Seq([from : Nat, dt : Nat])
    /\ poses \in Seq(Int) /\ kp \in 1..Len(poses)
    /\ front \in Nat \ {0} /\ pcl \in Nat
    /\ at = "backward" => pcl \in DOMAIN measure.points

\* How far the filter has been taken.
Reached == IF at = "forward" THEN measure.imu[head] ELSE measure.end

\* The segments follow one another, up to where the filter has been taken, and leave
\* out no moment but where a gap is too long.
SegmentsInv ==
    /\ \A i \in DOMAIN segments :
          /\ measure.imu[1] <= segments[i].from /\ segments[i].from + segments[i].dt <= Reached
          /\ measure.last <= segments[i].from \/ measure.imu[Len(measure.imu)] <= segments[i].from
    /\ \A i, j \in DOMAIN segments : i < j => segments[i].from + segments[i].dt <= segments[j].from
    /\ Gapless(measure) =>
          \A t \in Moments(measure) : t < Reached => \E i \in DOMAIN segments : t \in Ticks(segments[i])

\* What was used lies in front of the datum and the interval it stands at.
WheelInv ==
    /\ \A u \in used : /\ u.datum \in 1..(front - 1) /\ u.interval \in 1..(head - 1)
                      /\ measure.imu[u.interval] <= measure.wheel[u.datum]
                      /\ measure.wheel[u.datum] < measure.imu[u.interval + 1]
    /\ \A u, v \in used : u.datum = v.datum <=> u.interval = v.interval

\* Of sparse data all those passed were used, and the next lies ahead.
SparseInv ==
    Sparse(measure) =>
      /\ \A d \in DOMAIN measure.wheel : d < front => \E u \in used : u.datum = d
      /\ front \in DOMAIN measure.wheel => measure.imu[head] <= measure.wheel[front]

\* Points behind the one it stands on are done with, others are not yet moved; but the
\* first, once it stands on it, has been moved with every pair so far.
PointsInv ==
    /\ at = "forward" => deskewed = {}
    /\ at # "forward" => \A k \in DOMAIN measure.points :
          /\ k > pcl /\ k # 1 => MovedBy(k) = {j \in Before(k) : \A i \in Before(k) : i <= j}
          /\ k <= pcl /\ k # 1 => MovedBy(k) = {}
          /\ k = 1 => MovedBy(k) = {j \in Before(k) : j >= kp}
          /\ k <= pcl /\ pcl > 1 => \A j \in Before(k) : j < kp
    /\ at = "done" /\ measure.points # <<>> => kp = 1

UndistortInv == UndistortTypes /\ SegmentsInv /\ WheelInv /\ SparseInv /\ PointsInv

\* Append, by its elements.
LEMMA AppendIs ==
  ASSUME NEW S, NEW s \in Seq(S), NEW x \in S
  PROVE  /\ Append(s, x) \in Seq(S) /\ Len(Append(s, x)) = Len(s) + 1 /\ Len(s) \in Nat
         /\ DOMAIN s = 1..Len(s) /\ DOMAIN Append(s, x) = 1..(Len(s) + 1)
         /\ \A i \in 1..Len(s) : Append(s, x)[i] = s[i] /\ s[i] \in S
         /\ Append(s, x)[Len(s) + 1] = x
  OBVIOUS

\* A measure, in the words the steps are about.
LEMMA MeasureIs ==
  ASSUME measure \in Measures
  PROVE  /\ Len(measure.imu) \in Nat \ {0} /\ DOMAIN measure.imu = 1..Len(measure.imu)
         /\ \A i \in 1..Len(measure.imu) : measure.imu[i] \in Nat /\ measure.imu[i] <= measure.end
         /\ \A i, j \in 1..Len(measure.imu) : i <= j => measure.imu[i] <= measure.imu[j]
         /\ measure.last \in Nat /\ measure.beg \in Nat /\ measure.end \in Nat
         /\ Len(measure.wheel) \in Nat /\ \A i \in 1..Len(measure.wheel) : measure.wheel[i] \in Nat
         /\ Len(measure.points) \in Nat /\ DOMAIN measure.points = 1..Len(measure.points)
         /\ \A i \in 1..Len(measure.points) : measure.points[i] \in Nat
         /\ \A i, j \in 1..Len(measure.points) : i <= j => measure.points[i] <= measure.points[j]
         /\ measure.points # <<>> <=> Len(measure.points) >= 1
<1>1. IsMeasure(measure)
  BY MeasureAssumption
<1>2. /\ Len(measure.imu) \in Nat \ {0} /\ DOMAIN measure.imu = 1..Len(measure.imu)
      /\ \A i \in 1..Len(measure.imu) : measure.imu[i] \in Nat /\ measure.imu[i] <= measure.end
  BY <1>1 DEF IsMeasure
<1>3. \A i, j \in 1..Len(measure.imu) : i <= j => measure.imu[i] <= measure.imu[j]
  <2>1. \A i, j \in 1..Len(measure.imu) : i < j => measure.imu[i] <= measure.imu[j]
    BY <1>1, <1>2 DEF IsMeasure
  <2> QED
    BY <1>2, <2>1
<1>4. Len(measure.points) \in Nat /\ DOMAIN measure.points = 1..Len(measure.points)
  BY <1>1 DEF IsMeasure
<1>5. \A i \in 1..Len(measure.points) : measure.points[i] \in Nat
  BY <1>1, SMTT(30) DEF IsMeasure
<1>6. \A i, j \in 1..Len(measure.points) : i <= j => measure.points[i] <= measure.points[j]
  <2>1. \A i, j \in 1..Len(measure.points) : i < j => measure.points[i] <= measure.points[j]
    BY <1>1, <1>4 DEF IsMeasure
  <2> QED
    BY <1>4, <1>5, <2>1
<1>7. measure.points # <<>> <=> Len(measure.points) >= 1
  BY <1>1 DEF IsMeasure
<1>8. /\ measure.last \in Nat /\ measure.beg \in Nat /\ measure.end \in Nat
      /\ Len(measure.wheel) \in Nat /\ \A i \in 1..Len(measure.wheel) : measure.wheel[i] \in Nat
  BY <1>1, SMTT(30) DEF IsMeasure
<1> QED
  BY <1>2, <1>3, <1>4, <1>5, <1>6, <1>7, <1>8

LEMMA ElementIs ==
  ASSUME NEW S, NEW s \in Seq(S)
  PROVE  \A i \in DOMAIN s : s[i] \in S
  OBVIOUS

LEMMA SegmentIs ==
  ASSUME UndistortTypes
  PROVE  \A i \in DOMAIN segments :
            segments[i] \in [from : Nat, dt : Nat] /\ segments[i].from \in Nat /\ segments[i].dt \in Nat
<1>1. segments \in Seq([from : Nat, dt : Nat])
  BY DEF UndistortTypes
<1>2. \A i \in DOMAIN segments : segments[i] \in [from : Nat, dt : Nat]
  BY <1>1, ElementIs, ZenonT(30)
<1> QED
  BY <1>2

LEMMA UndistortInvInit == UndistortInit => UndistortInv
<1> SUFFICES ASSUME UndistortInit PROVE UndistortInv
  OBVIOUS
<1>1. /\ measure \in Measures /\ at = "forward" /\ head = 1 /\ segments = <<>> /\ poses = <<0>>
      /\ front = 1 /\ used = {} /\ kp = 1 /\ pcl = 1 /\ deskewed = {}
  BY DEF UndistortInit, UndistortBegins
<1>2. UndistortTypes
  BY <1>1, MeasureIs DEF UndistortTypes
<1>3. SegmentsInv
  <2>1. Reached = measure.imu[1] /\ DOMAIN segments = {}
    BY <1>1 DEF Reached
  <2>2. \A t \in Moments(measure) : ~(t < measure.imu[1])
    BY <1>1, MeasureIs DEF Moments
  <2> QED
    BY <2>1, <2>2 DEF SegmentsInv
<1>4. WheelInv /\ PointsInv
  BY <1>1 DEF WheelInv, PointsInv
<1>5. SparseInv
  <2>1. measure \in Measures /\ front = 1 /\ head = 1
    BY <1>1
  <2>2. 1 \in DOMAIN measure.imu /\ \A d \in DOMAIN measure.wheel : ~(d < 1)
    BY <2>1, MeasureIs
  <2>. QED
    BY <2>1, <2>2 DEF SparseInv, Sparse
<1> QED
  BY <1>2, <1>3, <1>4, <1>5 DEF UndistortInv

LEMMA UndistortTypesStep ==
  ASSUME UndistortTypes, UndistortStep
  PROVE  UndistortTypes'
<1> USE DEF UndistortTypes
<1>0. /\ Len(measure.imu) \in Nat \ {0} /\ measure.last \in Nat /\ measure.beg \in Nat /\ measure.end \in Nat
      /\ \A i \in 1..Len(measure.imu) : measure.imu[i] \in Nat /\ measure.imu[i] <= measure.end
      /\ Len(measure.points) \in Nat /\ DOMAIN measure.points = 1..Len(measure.points)
      /\ measure.points # <<>> <=> Len(measure.points) >= 1
  BY MeasureIs
<1>1. CASE SkipInterval
  BY <1>0, <1>1 DEF SkipInterval, InInterval
<1>2. CASE Predict
  <2>1. /\ head + 1 \in 1..Len(measure.imu) /\ HeadTime \in Nat /\ TailTime \in Nat
        /\ TailTime >= measure.last /\ at = "forward"
    <3>1. /\ at = "forward" /\ head < Len(measure.imu) /\ TailTime >= measure.last
      BY <1>2 DEF Predict, InInterval
    <3>2. head \in 1..Len(measure.imu) /\ head + 1 \in 1..Len(measure.imu)
      <4>1. head \in Nat \ {0} /\ Len(measure.imu) \in Nat
        BY <1>0
      <4> QED
        BY <3>1, <4>1
    <3> QED
      BY <1>0, <3>1, <3>2 DEF HeadTime, TailTime
  <2>2. Segment \in [from : Nat, dt : Nat]
    <3> DEFINE from == IF HeadTime < measure.last THEN measure.last ELSE HeadTime
    <3>1. from \in Nat /\ from <= TailTime
      <4>1. CASE at = "forward" /\ HeadTime <= TailTime
        BY <1>0, <2>1, <4>1
      <4>2. HeadTime <= TailTime
        <5>1. head \in 1..Len(measure.imu) /\ head + 1 \in 1..Len(measure.imu) /\ head <= head + 1
          BY <2>1
        <5>2. \A i, j \in 1..Len(measure.imu) : i <= j => measure.imu[i] <= measure.imu[j]
          BY MeasureIs
        <5> QED
          BY <5>1, <5>2 DEF HeadTime, TailTime
      <4> QED
        BY <2>1, <4>1, <4>2
    <3>2. Segment = [from |-> from, dt |-> Clipped(TailTime - from)]
      BY DEF Segment
    <3> HIDE DEF from
    <3>3. Clipped(TailTime - from) \in Nat
      BY <2>1, <3>1, MeasureAssumption DEF Clipped, Abs
    <3> QED
      BY <3>1, <3>2, <3>3
  <2>3. segments' \in Seq([from : Nat, dt : Nat])
    <3>1. segments' = Append(segments, Segment)
      BY <1>2 DEF Predict
    <3> HIDE DEF UndistortTypes
    <3>2. segments \in Seq([from : Nat, dt : Nat])
      BY DEF UndistortTypes
    <3> QED
      BY <2>2, <3>1, <3>2, AppendIs
  <2>4. poses' \in Seq(Int) /\ Len(poses') = Len(poses) + 1
    BY <1>0, <1>2, <2>1 DEF Predict
  <2>5. front' \in Nat \ {0}
    BY <1>2 DEF Predict, WheelUpdate
  <2> QED
    BY <1>0, <1>2, <2>1, <2>3, <2>4, <2>5 DEF Predict
<1>3. CASE LastPredict
  <2>1. [from |-> HeadTime, dt |-> Abs(measure.end - HeadTime)] \in [from : Nat, dt : Nat]
    <3>1. HeadTime \in Nat /\ HeadTime <= measure.end
      BY <1>0 DEF HeadTime
    <3>2. Abs(measure.end - HeadTime) \in Nat
      BY <1>0, <3>1, SMTT(30) DEF Abs
    <3> QED
      BY <3>1, <3>2
  <2>2. segments' \in Seq([from : Nat, dt : Nat])
    <3>1. segments' = Append(segments, [from |-> HeadTime, dt |-> Abs(measure.end - HeadTime)])
      BY <1>3 DEF LastPredict
    <3> HIDE DEF UndistortTypes
    <3>2. segments \in Seq([from : Nat, dt : Nat])
      BY DEF UndistortTypes
    <3> QED
      BY <2>1, <3>1, <3>2, AppendIs
  <2>3. Len(poses) \in 1..Len(poses)
    OBVIOUS
  <2> QED
    BY <1>0, <1>3, <2>2, <2>3 DEF LastPredict
<1>4. CASE MovePoint
  BY <1>0, <1>4, SMTT(30) DEF MovePoint, InPair
<1>5. CASE NextPair
  BY <1>5 DEF NextPair, InPair
<1>6. CASE EndOfPairs
  BY <1>6 DEF EndOfPairs
<1> QED
  BY <1>1, <1>2, <1>3, <1>4, <1>5, <1>6 DEF UndistortStep

\* Of the segments: the one that is new begins where the filter had been taken, or later,
\* and leaves nothing out.
LEMMA SegmentsAppend ==
  ASSUME UndistortTypes, SegmentsInv, measure' = measure, NEW from \in Nat, NEW dt \in Nat,
         segments' = Append(segments, [from |-> from, dt |-> dt]),
         Reached \in Nat, Reached' \in Nat, Reached <= from, from + dt <= Reached',
         measure.imu[1] <= Reached, measure.imu[1] \in Nat,
         measure.last <= from \/ measure.imu[Len(measure.imu)] <= from,
         Gapless(measure) => \A t \in Moments(measure) : Reached <= t /\ t < Reached' => t \in from..(from + dt - 1)
  PROVE  SegmentsInv'
<1> DEFINE new == [from |-> from, dt |-> dt]
<1>1. new \in [from : Nat, dt : Nat] /\ new.from = from /\ new.dt = dt
  OBVIOUS
<1>2. segments \in Seq([from : Nat, dt : Nat]) /\ segments' = Append(segments, new)
  BY DEF UndistortTypes
<1> HIDE DEF new
<1>3. /\ Len(segments) \in Nat /\ DOMAIN segments = 1..Len(segments)
      /\ DOMAIN segments' = 1..(Len(segments) + 1)
      /\ \A i \in 1..Len(segments) : segments'[i] = segments[i]
      /\ segments'[Len(segments) + 1] = new
  BY <1>1, <1>2, AppendIs
<1>4. \A i \in 1..Len(segments) : segments[i].from \in Nat /\ segments[i].dt \in Nat
  BY <1>3, SegmentIs
<1>5. ASSUME NEW i \in DOMAIN segments'
      PROVE  /\ measure.imu[1] <= segments'[i].from /\ segments'[i].from + segments'[i].dt <= Reached'
             /\ measure.last <= segments'[i].from \/ measure.imu[Len(measure.imu)] <= segments'[i].from
  <2>1. CASE i \in 1..Len(segments)
    <3>1. /\ measure.imu[1] <= segments[i].from /\ segments[i].from + segments[i].dt <= Reached
          /\ measure.last <= segments[i].from \/ measure.imu[Len(measure.imu)] <= segments[i].from
      BY <1>3, <2>1 DEF SegmentsInv
    <3> QED
      BY <1>3, <1>4, <2>1, <3>1
  <2>2. CASE i = Len(segments) + 1
    BY <1>1, <1>3, <2>2
  <2> QED
    BY <1>3, <2>1, <2>2
<1>6. ASSUME NEW i \in DOMAIN segments', NEW j \in DOMAIN segments', i < j
      PROVE  segments'[i].from + segments'[i].dt <= segments'[j].from
  <2>1. i \in 1..Len(segments)
    BY <1>3, <1>6
  <2>2. CASE j \in 1..Len(segments)
    BY <1>3, <1>6, <2>1, <2>2 DEF SegmentsInv
  <2>3. CASE j = Len(segments) + 1
    <3>1. segments[i].from + segments[i].dt <= Reached
      BY <1>3, <2>1 DEF SegmentsInv
    <3> QED
      BY <1>1, <1>3, <1>4, <2>1, <2>3, <3>1
  <2> QED
    BY <1>3, <2>2, <2>3
<1>7. ASSUME Gapless(measure), NEW t \in Moments(measure), t < Reached'
      PROVE  \E i \in DOMAIN segments' : t \in Ticks(segments'[i])
  <2>0. t \in Int
    BY DEF Moments
  <2>1. CASE t < Reached
    <3>1. PICK i \in DOMAIN segments : t \in Ticks(segments[i])
      BY <1>7, <2>1 DEF SegmentsInv
    <3> QED
      BY <1>3, <3>1
  <2>2. CASE Reached <= t
    <3>1. t \in Ticks(segments'[Len(segments) + 1])
      BY <1>1, <1>3, <1>7, <2>2 DEF Ticks
    <3> QED
      BY <1>3, <3>1
  <2> QED
    BY <2>0, <2>1, <2>2
<1> QED
  BY <1>5, <1>6, <1>7 DEF SegmentsInv

LEMMA SegmentsInvStep ==
  ASSUME UndistortTypes, SegmentsInv, UndistortStep
  PROVE  SegmentsInv'
<1>0. /\ measure \in Measures /\ measure' = measure /\ head \in 1..Len(measure.imu)
      /\ at \in {"forward", "backward", "done"}
  BY DEF UndistortTypes, UndistortStep, SkipInterval, Predict, LastPredict, MovePoint, NextPair, EndOfPairs
<1>1. /\ Len(measure.imu) \in Nat \ {0} /\ measure.last \in Nat /\ measure.end \in Nat
      /\ \A i \in 1..Len(measure.imu) : measure.imu[i] \in Nat /\ measure.imu[i] <= measure.end
      /\ \A i, j \in 1..Len(measure.imu) : i <= j => measure.imu[i] <= measure.imu[j]
  BY <1>0, MeasureIs
<1>2. 1 \in 1..Len(measure.imu) /\ measure.imu[1] \in Nat /\ measure.imu[1] <= Reached /\ Reached \in Nat
  BY <1>0, <1>1 DEF Reached
<1>3. CASE SkipInterval
  <2>1. /\ at = "forward" /\ at' = at /\ head + 1 \in 1..Len(measure.imu) /\ head' = head + 1
        /\ TailTime < measure.last /\ segments' = segments /\ TailTime = measure.imu[head + 1]
    BY <1>0, <1>1, <1>3 DEF SkipInterval, InInterval, TailTime
  <2>2. Reached <= Reached' /\ Reached' = TailTime /\ Reached' \in Nat
    BY <1>0, <1>1, <2>1 DEF Reached
  <2>3. ASSUME Gapless(measure), NEW t \in Moments(measure), t < Reached'
        PROVE  \E i \in DOMAIN segments : t \in Ticks(segments[i])
    <3>1. t < Reached
      <4>1. t \in Int /\ (t >= measure.last \/ t >= measure.imu[Len(measure.imu)])
        BY DEF Moments
      <4>2. TailTime <= measure.imu[Len(measure.imu)] /\ TailTime \in Nat
        BY <1>1, <2>1
      <4>3. t < TailTime
        BY <2>2, <2>3
      <4> QED
        <5>1. measure.last \in Nat /\ measure.imu[Len(measure.imu)] \in Nat /\ TailTime < measure.last
          BY <1>1, <2>1
        <5> QED
          BY <4>1, <4>2, <4>3, <5>1
    <3> QED
      BY <2>3, <3>1 DEF SegmentsInv
  <2>4. \A i \in DOMAIN segments : segments[i].from \in Nat /\ segments[i].dt \in Nat
    BY SegmentIs
  <2>5. \A i \in DOMAIN segments : segments[i].from + segments[i].dt <= Reached'
    BY <1>2, <2>2, <2>4 DEF SegmentsInv
  <2> QED
    BY <1>0, <2>1, <2>3, <2>5 DEF SegmentsInv
<1>4. CASE Predict
  <2> DEFINE from == IF HeadTime < measure.last THEN measure.last ELSE HeadTime
             dt == Clipped(TailTime - from)
  <2>1. /\ at = "forward" /\ at' = at /\ head + 1 \in 1..Len(measure.imu) /\ head' = head + 1
        /\ TailTime >= measure.last /\ TailTime = measure.imu[head + 1] /\ HeadTime = measure.imu[head]
        /\ segments' = Append(segments, [from |-> from, dt |-> dt])
    BY <1>0, <1>1, <1>4 DEF Predict, InInterval, TailTime, HeadTime, Segment
  <2>2. /\ HeadTime \in Nat /\ TailTime \in Nat /\ HeadTime <= TailTime
        /\ Reached = HeadTime /\ Reached' = TailTime
    BY <1>0, <1>1, <2>1 DEF Reached
  <2>3. /\ from \in Nat /\ HeadTime <= from /\ measure.last <= from /\ from <= TailTime
    BY <1>1, <2>1, <2>2
  <2>4. /\ dt \in Nat /\ from + dt <= TailTime
        /\ TailTime - HeadTime <= MaxDt => from + dt = TailTime
    <3>1. MaxDt \in Nat \ {0} /\ TailTime - from \in Nat
      BY <2>2, <2>3, MeasureAssumption
    <3>2. dt = IF TailTime - from >= MaxDt THEN MaxDt ELSE TailTime - from
      BY <3>1 DEF Clipped, Abs
    <3> QED
      BY <2>2, <2>3, <3>1, <3>2
  <2>5. Gapless(measure) => TailTime - HeadTime <= MaxDt
    <3>1. head \in 1..(Len(measure.imu) - 1)
      BY <1>0, <1>1, <2>1
    <3> QED
      BY <2>1, <3>1 DEF Gapless
  <2> HIDE DEF from, dt
  <2>6. \A t \in Moments(measure) : Reached <= t /\ t < Reached' /\ from + dt = TailTime => t \in from..(from + dt - 1)
    <3> SUFFICES ASSUME NEW t \in Moments(measure), HeadTime <= t, t < TailTime, from + dt = TailTime
                 PROVE  t \in from..(from + dt - 1)
      BY <2>2
    <3>1. t \in Int /\ (t >= measure.last \/ t >= measure.imu[Len(measure.imu)])
      BY DEF Moments
    <3>2. TailTime <= measure.imu[Len(measure.imu)]
      BY <1>1, <2>1
    <3>3. t >= measure.last
      <4>1. measure.imu[Len(measure.imu)] \in Nat
        BY <1>1
      <4> QED
        BY <1>1, <2>2, <3>1, <3>2, <4>1
    <3>4. t >= from
      BY <2>2, <3>3 DEF from
    <3> QED
      BY <2>2, <2>3, <2>4, <3>1, <3>4
  <2> QED
    <3>1. Reached <= from /\ from + dt <= Reached'
      BY <2>2, <2>3, <2>4
    <3>2. Gapless(measure) =>
             \A t \in Moments(measure) : Reached <= t /\ t < Reached' => t \in from..(from + dt - 1)
      BY <2>4, <2>5, <2>6
    <3> QED
      BY <1>0, <1>2, <2>1, <2>2, <2>3, <2>4, <3>1, <3>2, SegmentsAppend
<1>5. CASE LastPredict
  <2> DEFINE from == HeadTime
             dt == Abs(measure.end - HeadTime)
  <2>1. /\ at = "forward" /\ at' # "forward" /\ head = Len(measure.imu) /\ HeadTime = measure.imu[head]
        /\ segments' = Append(segments, [from |-> from, dt |-> dt])
    BY <1>5 DEF LastPredict, HeadTime
  <2>2. /\ HeadTime \in Nat /\ HeadTime <= measure.end /\ Reached = HeadTime /\ Reached' = measure.end
    BY <1>0, <1>1, <2>1 DEF Reached
  <2>3. dt \in Nat /\ from + dt = measure.end
    BY <1>1, <2>2 DEF Abs
  <2>4. \A t \in Moments(measure) : Reached <= t /\ t < Reached' => t \in from..(from + dt - 1)
    BY <1>1, <2>2, <2>3 DEF Moments
  <2> HIDE DEF from, dt
  <2>5. from \in Nat /\ Reached <= from /\ measure.imu[Len(measure.imu)] <= from
    BY <2>1, <2>2 DEF from
  <2> QED
    <3>1. from + dt <= Reached' /\ Reached' \in Nat /\ measure' = measure
      BY <1>0, <1>1, <2>2, <2>3
    <3>2. Gapless(measure) =>
             \A t \in Moments(measure) : Reached <= t /\ t < Reached' => t \in from..(from + dt - 1)
      BY <2>4
    <3> QED
      BY <1>2, <2>1, <2>3, <2>5, <3>1, <3>2, SegmentsAppend
<1>6. CASE MovePoint \/ NextPair \/ EndOfPairs
  <2>1. segments' = segments /\ measure' = measure /\ at # "forward" /\ at' # "forward"
    BY <1>6 DEF MovePoint, NextPair, EndOfPairs, InPair
  <2>2. Reached' = Reached
    BY <2>1 DEF Reached
  <2> QED
    BY <2>1, <2>2 DEF SegmentsInv
<1> QED
  BY <1>3, <1>4, <1>5, <1>6 DEF UndistortStep

LEMMA WheelInvStep ==
  ASSUME UndistortTypes, WheelInv, UndistortStep
  PROVE  WheelInv'
<1>0. /\ measure' = measure /\ head \in Nat /\ front \in Nat
  BY DEF UndistortTypes, UndistortStep, SkipInterval, Predict, LastPredict, MovePoint, NextPair, EndOfPairs
<1>1. ASSUME used' = used, front' \in Nat, head' \in Nat, front' >= front, head' >= head PROVE WheelInv'
  BY <1>0, <1>1 DEF WheelInv
<1>2. CASE SkipInterval \/ LastPredict \/ MovePoint \/ NextPair \/ EndOfPairs
  <2>1. used' = used /\ front' = front /\ head' \in {head, head + 1}
    BY <1>2 DEF SkipInterval, LastPredict, MovePoint, NextPair, EndOfPairs
  <2> QED
    BY <1>0, <1>1, <2>1
<1>3. CASE Predict
  <2>0. head' = head + 1 /\ WheelUpdate
    BY <1>3 DEF Predict
  <2>1. CASE used' = used
    BY <1>0, <1>1, <2>0, <2>1 DEF WheelUpdate
  <2>2. CASE used' # used
    <3> DEFINE new == [datum |-> front, interval |-> head]
    <3>1. /\ used' = used \cup {new} /\ front' = front + 1
          /\ ~(measure.wheel[front] < HeadTime) /\ ~(front > Len(measure.wheel))
          /\ ~(measure.wheel[front] >= TailTime)
      BY <2>0, <2>2 DEF WheelUpdate
    <3>2. measure.wheel[front] \in Nat /\ HeadTime \in Nat /\ TailTime \in Nat
      <4>1. front \in 1..Len(measure.wheel) /\ head \in 1..Len(measure.imu) /\ head + 1 \in 1..Len(measure.imu)
        <5>1. Len(measure.wheel) \in Nat /\ Len(measure.imu) \in Nat
          BY MeasureIs DEF UndistortTypes
        <5>2. front \in Nat \ {0} /\ head \in 1..Len(measure.imu) /\ head < Len(measure.imu)
          BY <1>3 DEF UndistortTypes, Predict, InInterval
        <5> QED
          BY <3>1, <5>1, <5>2
      <4> QED
        BY <4>1, MeasureIs DEF UndistortTypes, HeadTime, TailTime
    <3>3. /\ new.datum = front /\ new.interval = head
          /\ measure.imu[head] <= measure.wheel[front] /\ measure.wheel[front] < measure.imu[head + 1]
      BY <3>1, <3>2 DEF HeadTime, TailTime
    <3>4. front \in 1..front /\ head \in 1..head
      BY DEF UndistortTypes
    <3> HIDE DEF new
    <3>5. ASSUME NEW u \in used'
          PROVE  /\ u.datum \in 1..(front' - 1) /\ u.interval \in 1..(head' - 1)
                 /\ measure.imu[u.interval] <= measure.wheel[u.datum]
                 /\ measure.wheel[u.datum] < measure.imu[u.interval + 1]
      <4>1. CASE u \in used
        BY <1>0, <2>0, <3>1, <4>1 DEF WheelInv
      <4>2. CASE u = new
        BY <1>0, <2>0, <3>1, <3>3, <3>4, <4>2
      <4> QED
        BY <3>1, <4>1, <4>2
    <3>6. \A u \in used : u.datum # new.datum /\ u.interval # new.interval
      BY <1>0, <3>3 DEF WheelInv
    <3>7. \A u, v \in used' : u.datum = v.datum <=> u.interval = v.interval
      BY <3>1, <3>6 DEF WheelInv
    <3> QED
      BY <1>0, <3>5, <3>7 DEF WheelInv
  <2> QED
    BY <2>1, <2>2
<1> QED
  BY <1>2, <1>3 DEF UndistortStep

LEMMA SparseInvStep ==
  ASSUME UndistortTypes, SparseInv, UndistortStep
  PROVE  SparseInv'
<1>0. /\ measure \in Measures /\ measure' = measure /\ head \in DOMAIN measure.imu
      /\ head \in Nat /\ front \in Nat \ {0}
  <2>1. measure' = measure
    BY DEF UndistortStep, SkipInterval, Predict, LastPredict, MovePoint, NextPair, EndOfPairs
  <2>2. measure \in Measures /\ head \in 1..Len(measure.imu) /\ front \in Nat \ {0}
    BY DEF UndistortTypes
  <2>3. DOMAIN measure.imu = 1..Len(measure.imu)
    BY <2>2, MeasureIs
  <2>4. head \in Nat
    BY <2>2
  <2>. QED
    BY <2>1, <2>2, <2>3, <2>4
<1>1. SUFFICES ASSUME Sparse(measure)
               PROVE  /\ \A d \in DOMAIN measure.wheel : d < front' => \E u \in used' : u.datum = d
                      /\ front' \in DOMAIN measure.wheel => measure.imu[head'] <= measure.wheel[front']
  BY <1>0 DEF SparseInv
<1>2. /\ \A d \in DOMAIN measure.wheel : d < front => \E u \in used : u.datum = d
      /\ front \in DOMAIN measure.wheel => measure.imu[head] <= measure.wheel[front]
  BY <1>1 DEF SparseInv
<1>3. CASE LastPredict \/ MovePoint \/ NextPair \/ EndOfPairs
  BY <1>2, <1>3 DEF LastPredict, MovePoint, NextPair, EndOfPairs
<1>4. CASE SkipInterval \/ Predict
  <2>1. /\ head' = head + 1 /\ head + 1 \in DOMAIN measure.imu
        /\ measure.imu[head] \in Nat /\ measure.imu[head + 1] \in Nat /\ measure.last \in Nat
    <3>1. head' = head + 1 /\ head < Len(measure.imu)
      BY <1>4 DEF SkipInterval, Predict, InInterval
    <3>2. Len(measure.imu) \in Nat /\ DOMAIN measure.imu = 1..Len(measure.imu) /\ measure.last \in Nat
          /\ \A i \in 1..Len(measure.imu) : measure.imu[i] \in Nat
      BY <1>0, MeasureIs
    <3>. QED
      BY <1>0, <3>1, <3>2
  <2>2. DOMAIN measure.wheel = 1..Len(measure.wheel) /\ Len(measure.wheel) \in Nat
        /\ \A d \in DOMAIN measure.wheel : measure.wheel[d] \in Nat
    BY <1>0, MeasureIs
  <2>3. CASE SkipInterval
    <3>1. used' = used /\ front' = front /\ measure.imu[head + 1] < measure.last
      BY <2>3 DEF SkipInterval, TailTime
    <3>2. \A d \in DOMAIN measure.wheel : measure.imu[head + 1] <= measure.wheel[d]
      BY <1>1, <2>1, <3>1 DEF Sparse
    <3>. QED
      BY <1>2, <2>1, <3>1, <3>2
  <2>4. CASE Predict
    <3>1. WheelUpdate
      BY <2>4 DEF Predict
    <3>2. CASE front > Len(measure.wheel) \/ measure.wheel[front] >= TailTime
      <4>1. used' = used /\ front' = front
        BY <3>1, <3>2 DEF WheelUpdate
      <4>2. front \in DOMAIN measure.wheel => measure.imu[head + 1] <= measure.wheel[front]
        BY <1>0, <2>1, <2>2, <3>2 DEF TailTime
      <4>. QED
        BY <1>2, <2>1, <4>1, <4>2
    <3>3. CASE ~(front > Len(measure.wheel) \/ measure.wheel[front] >= TailTime)
      <4>1. front \in DOMAIN measure.wheel
        BY <1>0, <2>2, <3>3
      <4>2. measure.imu[head] <= measure.wheel[front] /\ measure.wheel[front] < measure.imu[head + 1]
        BY <1>2, <2>1, <2>2, <3>3, <4>1 DEF TailTime
      <4>3. front' = front + 1 /\ used' = used \cup {[datum |-> front, interval |-> head]}
        BY <2>1, <2>2, <3>1, <3>3, <4>1, <4>2 DEF WheelUpdate, HeadTime
      <4>4. \A d \in DOMAIN measure.wheel : d < front' => \E u \in used' : u.datum = d
        <5>1. \A d \in DOMAIN measure.wheel : d < front + 1 => d < front \/ d = front
          BY <1>0, <2>2
        <5>2. [datum |-> front, interval |-> head].datum = front
          OBVIOUS
        <5>. QED
          BY <1>2, <4>3, <5>1, <5>2
      <4>5. ASSUME front + 1 \in DOMAIN measure.wheel
            PROVE  measure.imu[head + 1] <= measure.wheel[front + 1]
        <5>1. /\ DOMAIN measure.imu = 1..Len(measure.imu) /\ Len(measure.imu) \in 1..Len(measure.imu)
              /\ Len(measure.imu) \in Nat
              /\ \A i \in 1..Len(measure.imu) : measure.imu[i] \in Nat
              /\ \A i, j \in 1..Len(measure.imu) : i <= j => measure.imu[i] <= measure.imu[j]
          BY <1>0, MeasureIs
        <5>2. measure.wheel[front] < measure.imu[Len(measure.imu)]
          <6>1. head + 1 \in 1..Len(measure.imu) /\ head + 1 <= Len(measure.imu)
            BY <2>1, <5>1
          <6>2. measure.imu[head + 1] <= measure.imu[Len(measure.imu)]
            BY <5>1, <6>1
          <6>3. measure.wheel[front] \in Nat /\ measure.imu[Len(measure.imu)] \in Nat
            BY <2>2, <4>1, <5>1
          <6>. QED
            BY <2>1, <4>2, <6>2, <6>3
        <5>3. PICK i \in DOMAIN measure.imu :
                 measure.wheel[front] < measure.imu[i] /\ measure.imu[i] <= measure.wheel[front + 1]
          BY <1>0, <1>1, <4>1, <4>5, <5>2 DEF Sparse
        <5>4. i \in Nat /\ head + 1 <= i
          <6>1. i \in Nat /\ head \in 1..Len(measure.imu) /\ i \in 1..Len(measure.imu)
            BY <1>0, <5>1
          <6>2. i <= head => measure.imu[i] <= measure.imu[head]
            BY <5>1, <6>1
          <6>3. measure.wheel[front] \in Nat /\ measure.imu[i] \in Nat
            BY <2>2, <4>1, <5>1, <6>1
          <6>4. ~(i <= head)
            BY <2>1, <4>2, <5>3, <6>2, <6>3
          <6>. QED
            BY <1>0, <6>1, <6>4
        <5>5. i \in 1..Len(measure.imu) /\ head + 1 \in 1..Len(measure.imu)
          BY <2>1, <5>1, <5>3
        <5>6. measure.imu[head + 1] <= measure.imu[i]
          BY <5>1, <5>4, <5>5
        <5>7. measure.imu[head + 1] \in Nat /\ measure.imu[i] \in Nat /\ measure.wheel[front + 1] \in Nat
          BY <2>2, <4>5, <5>1, <5>5
        <5>. QED
          BY <5>3, <5>6, <5>7
      <4>. QED
        BY <2>1, <4>3, <4>4, <4>5
    <3>. QED
      BY <3>2, <3>3
  <2>. QED
    BY <1>4, <2>3, <2>4
<1>. QED
  BY <1>3, <1>4 DEF UndistortStep

LEMMA PointsInvStep ==
  ASSUME UndistortTypes, UndistortTypes', PointsInv, UndistortStep
  PROVE  PointsInv'
<1>0. /\ measure \in Measures /\ measure' = measure
      /\ Len(poses) \in Nat /\ kp \in 1..Len(poses) /\ pcl \in Nat /\ poses \in Seq(Int)
  BY DEF UndistortTypes, UndistortStep, SkipInterval, Predict, LastPredict, MovePoint, NextPair, EndOfPairs
<1>1. /\ Len(measure.points) \in Nat /\ DOMAIN measure.points = 1..Len(measure.points)
      /\ \A i \in 1..Len(measure.points) : measure.points[i] \in Nat
      /\ \A i, j \in 1..Len(measure.points) : i <= j => measure.points[i] <= measure.points[j]
      /\ measure.points # <<>> <=> Len(measure.points) >= 1
  BY <1>0, MeasureIs
<1>2. CASE SkipInterval \/ Predict
  BY <1>2 DEF SkipInterval, Predict, InInterval, PointsInv
<1>3. CASE LastPredict
  <2>1. /\ at = "forward" /\ at' # "forward" /\ poses' = poses /\ deskewed' = {} /\ at' \in {"backward", "done"}
        /\ kp' = Len(poses) /\ pcl' = Len(measure.points) /\ (at' = "done" => measure.points = <<>>)
    BY <1>3 DEF LastPredict, PointsInv
  <2>2. \A k \in DOMAIN measure.points : MovedBy(k)' = {} /\ Before(k)' = Before(k)
    BY <1>0, <2>1 DEF MovedBy, Before
  <2>3. \A k \in DOMAIN measure.points : \A j \in Before(k) : j \in Int /\ j < kp'
    BY <1>0, <2>1 DEF Before
  <2>4. \A k \in DOMAIN measure.points : ~(k > pcl')
    BY <1>1, <2>1
  <2> QED
    BY <1>0, <2>1, <2>2, <2>3, <2>4 DEF PointsInv
<1>4. ASSUME InPair, poses' = poses, at' = at
      PROVE  /\ \A k \in DOMAIN measure.points : Before(k)' = Before(k)
             /\ \A k \in DOMAIN measure.points : \A j \in Before(k) : j \in Int
             /\ pcl \in 1..Len(measure.points) /\ kp - 1 \in 1..(Len(poses) - 1)
             /\ \A k \in DOMAIN measure.points : kp - 1 \in Before(k) <=> poses[kp - 1] < measure.points[k]
             /\ at = "backward" /\ poses[kp - 1] \in Int
  <2>1. kp - 1 \in 1..(Len(poses) - 1) /\ at = "backward"
    BY <1>0, <1>4 DEF InPair
  <2>2. pcl \in 1..Len(measure.points)
    BY <1>1, <2>1 DEF UndistortTypes
  <2> QED
    BY <1>0, <1>4, <2>1, <2>2 DEF Before
<1>5. CASE MovePoint
  <2>0. /\ poses' = poses /\ at' = at /\ InPair /\ measure.points[pcl] > poses[kp - 1]
        /\ deskewed' = deskewed \cup {[point |-> pcl, pose |-> kp - 1]}
        /\ IF pcl = 1 THEN kp' = kp - 1 /\ pcl' = pcl ELSE pcl' = pcl - 1 /\ kp' = kp
    BY <1>5 DEF MovePoint, IsAfterPose
  <2>1. /\ \A k \in DOMAIN measure.points : Before(k)' = Before(k)
        /\ \A k \in DOMAIN measure.points : \A j \in Before(k) : j \in Int
        /\ pcl \in 1..Len(measure.points) /\ kp - 1 \in Before(pcl) /\ at = "backward" /\ kp \in Int
    <3>1. /\ \A k \in DOMAIN measure.points : Before(k)' = Before(k)
          /\ \A k \in DOMAIN measure.points : \A j \in Before(k) : j \in Int
          /\ pcl \in 1..Len(measure.points) /\ at = "backward" /\ poses[kp - 1] \in Int
          /\ \A k \in DOMAIN measure.points : kp - 1 \in Before(k) <=> poses[kp - 1] < measure.points[k]
      BY <1>4, <2>0
    <3>2. pcl \in DOMAIN measure.points /\ measure.points[pcl] \in Nat /\ kp \in Int
      BY <1>0, <1>1, <3>1
    <3>3. poses[kp - 1] < measure.points[pcl]
      BY <2>0, <3>1, <3>2
    <3> QED
      BY <3>1, <3>2, <3>3
  <2>2. ASSUME NEW k \in DOMAIN measure.points
        PROVE  MovedBy(k)' = IF k = pcl THEN MovedBy(k) \cup {kp - 1} ELSE MovedBy(k)
    <3> DEFINE new == [point |-> pcl, pose |-> kp - 1]
    <3>1. deskewed' = deskewed \cup {new} /\ new.point = pcl /\ new.pose = kp - 1
      BY <2>0
    <3> HIDE DEF new
    <3>2. {s \in deskewed' : s.point = k} =
             IF k = pcl THEN {s \in deskewed : s.point = k} \cup {new} ELSE {s \in deskewed : s.point = k}
      BY <3>1
    <3> QED
      BY <3>1, <3>2 DEF MovedBy
  <2>3. ASSUME NEW k \in DOMAIN measure.points
        PROVE  /\ k > pcl' /\ k # 1 => MovedBy(k)' = {j \in Before(k) : \A i \in Before(k) : i <= j}
               /\ k <= pcl' /\ k # 1 => MovedBy(k)' = {}
               /\ k = 1 => MovedBy(k)' = {j \in Before(k) : j >= kp'}
               /\ k <= pcl' /\ pcl' > 1 => \A j \in Before(k) : j < kp'
    <3>1. /\ k > pcl /\ k # 1 => MovedBy(k) = {j \in Before(k) : \A i \in Before(k) : i <= j}
          /\ k <= pcl /\ k # 1 => MovedBy(k) = {}
          /\ k = 1 => MovedBy(k) = {j \in Before(k) : j >= kp}
          /\ k <= pcl /\ pcl > 1 => \A j \in Before(k) : j < kp
      BY <2>1 DEF PointsInv
    <3>2. CASE pcl = 1
      <4>1. pcl' = 1 /\ kp' = kp - 1
        BY <2>0, <3>2
      <4>2. k = 1 => MovedBy(k) \cup {kp - 1} = {j \in Before(k) : j >= kp - 1}
        BY <2>1, <3>1, <3>2
      <4> QED
        BY <1>1, <2>1, <2>2, <3>1, <3>2, <4>1, <4>2
    <3>3. CASE pcl # 1
      <4>1. pcl' = pcl - 1 /\ kp' = kp /\ pcl > 1 /\ k \in Int
        BY <1>1, <2>0, <2>1, <3>3
      <4>2. CASE k = pcl
        <5>1. MovedBy(k)' = {kp - 1}
          BY <2>2, <3>1, <3>3, <4>1, <4>2
        <5>2. \A j \in Before(k) : j <= kp - 1
          BY <2>1, <3>1, <4>1, <4>2
        <5>3. {kp - 1} = {j \in Before(k) : \A i \in Before(k) : i <= j}
          BY <2>1, <4>2, <5>2
        <5> QED
          BY <2>1, <4>1, <4>2, <5>1, <5>3
      <4>3. CASE k # pcl
        BY <2>1, <2>2, <3>1, <4>1, <4>3
      <4> QED
        BY <4>2, <4>3
    <3> QED
      BY <3>2, <3>3
  <2> QED
    <3>1. at' = "backward" /\ measure' = measure
      BY <1>0, <2>0, <2>1
    <3> QED
      BY <2>1, <2>3, <3>1, SMTT(30) DEF PointsInv
<1>6. CASE NextPair
  <2>0. /\ poses' = poses /\ at' = at /\ InPair /\ ~(measure.points[pcl] > poses[kp - 1])
        /\ deskewed' = deskewed /\ kp' = kp - 1 /\ pcl' = pcl
    BY <1>6 DEF NextPair, IsAfterPose
  <2>1. /\ \A k \in DOMAIN measure.points : Before(k)' = Before(k)
        /\ \A k \in DOMAIN measure.points : \A j \in Before(k) : j \in Int
        /\ pcl \in 1..Len(measure.points) /\ at = "backward" /\ kp \in Int /\ poses[kp - 1] \in Int
        /\ \A k \in DOMAIN measure.points : kp - 1 \in Before(k) <=> poses[kp - 1] < measure.points[k]
    BY <1>0, <1>4, <2>0
  <2>2. \A k \in DOMAIN measure.points : k <= pcl => kp - 1 \notin Before(k)
    <3> SUFFICES ASSUME NEW k \in 1..Len(measure.points), k <= pcl PROVE ~(poses[kp - 1] < measure.points[k])
      BY <1>1, <2>1
    <3>1. measure.points[k] <= measure.points[pcl] /\ measure.points[k] \in Nat /\ measure.points[pcl] \in Nat
      BY <1>1, <2>1
    <3>2. poses[kp - 1] \in Int
      BY <2>1
    <3> QED
      BY <2>0, <3>1, <3>2
  <2>3. ASSUME NEW k \in DOMAIN measure.points
        PROVE  /\ MovedBy(k)' = MovedBy(k)
               /\ k = 1 => {j \in Before(k) : j >= kp - 1} = {j \in Before(k) : j >= kp}
               /\ k <= pcl /\ pcl > 1 => \A j \in Before(k) : j < kp - 1
    <3>1. MovedBy(k)' = MovedBy(k)
      BY <2>0 DEF MovedBy
    <3>2. k <= pcl => \A j \in Before(k) : j # kp - 1 /\ j \in Int
      BY <2>1, <2>2
    <3>3. k = 1 => k <= pcl
      BY <2>1
    <3>4. k <= pcl /\ pcl > 1 => \A j \in Before(k) : j < kp
      BY <2>1 DEF PointsInv
    <3> QED
      BY <2>1, <3>1, <3>2, <3>3, <3>4
  <2> QED
    BY <1>0, <2>0, <2>1, <2>3 DEF PointsInv
<1>7. CASE EndOfPairs
  <2>1. /\ poses' = poses /\ deskewed' = deskewed /\ kp' = kp /\ pcl' = pcl /\ at = "backward" /\ kp = 1 /\ at' = "done"
    BY <1>7 DEF EndOfPairs
  <2>2. \A k \in DOMAIN measure.points : MovedBy(k)' = MovedBy(k) /\ Before(k)' = Before(k)
    BY <1>0, <2>1 DEF MovedBy, Before
  <2> QED
    BY <1>0, <2>1, <2>2 DEF PointsInv
<1> QED
  BY <1>2, <1>3, <1>5, <1>6, <1>7 DEF UndistortStep

(* UndistortPcl on any measure: any number of samples, wheel data and points, and     *)
(* wherever the scan before has ended.  Every moment from the first sample on is taken *)
(* once unless a gap is too long; a wheel datum is used at most once and in its own    *)
(* interval, and surely if the data are sparse; every point but the first is moved     *)
(* once, by the last pose in front of it.                                         *)
THEOREM MeasureTaken == UndistortSpec => []MeasureIsTaken
<1>1. UndistortInv /\ [UndistortStep]_undistort => UndistortInv'
  <2> SUFFICES ASSUME UndistortInv, [UndistortStep]_undistort PROVE UndistortInv'
    OBVIOUS
  <2>1. CASE UndistortStep
    BY <2>1, UndistortTypesStep, SegmentsInvStep, WheelInvStep, SparseInvStep, PointsInvStep DEF UndistortInv
  <2>2. CASE UNCHANGED undistort
    BY <2>2 DEF undistort, UndistortInv, UndistortTypes, SegmentsInv, WheelInv, SparseInv, PointsInv, Reached, Before, MovedBy
  <2> QED
    BY <2>1, <2>2
<1>2. UndistortInv => MeasureIsTaken
  <2> SUFFICES ASSUME UndistortInv, at = "done"
               PROVE  TimeIsTakenOnce /\ WheelIsUsedOnce /\ PointsAreMoved
    BY DEF MeasureIsTaken
  <2> USE DEF UndistortInv
  <2>0. measure \in Measures /\ measure.end \in Nat /\ Reached = measure.end
    BY MeasureIs DEF UndistortTypes, Reached
  <2>1. \A i \in DOMAIN segments : segments[i] \in [from : Nat, dt : Nat]
    BY SegmentIs
  <2>2. TimeIsTakenOnce
    <3>1. \A i, j \in DOMAIN segments : i < j => Ticks(segments[i]) \cap Ticks(segments[j]) = {}
      BY <2>1 DEF SegmentsInv, Ticks
    <3>2. ASSUME NEW i \in DOMAIN segments, NEW t \in Ticks(segments[i]) PROVE t \in Moments(measure)
      <4>1. measure.last \in Nat /\ measure.imu[1] \in Nat /\ measure.imu[Len(measure.imu)] \in Nat
        BY <2>0, MeasureIs
      <4>2. /\ measure.imu[1] <= segments[i].from /\ segments[i].from + segments[i].dt <= measure.end
            /\ measure.last <= segments[i].from \/ measure.imu[Len(measure.imu)] <= segments[i].from
        BY <2>0 DEF SegmentsInv
      <4>3. segments[i].from \in Nat /\ segments[i].dt \in Nat
        BY <2>1
      <4>4. t \in Int /\ segments[i].from <= t /\ t < segments[i].from + segments[i].dt
        BY <3>2, <4>3 DEF Ticks
      <4> QED
        <5>1. t \in measure.imu[1]..(measure.end - 1)
          BY <2>0, <4>1, <4>2, <4>3, <4>4
        <5>2. t >= measure.last \/ t >= measure.imu[Len(measure.imu)]
          BY <4>1, <4>2, <4>3, <4>4
        <5> QED
          BY <5>1, <5>2 DEF Moments
    <3>3. ASSUME Gapless(measure), NEW t \in Moments(measure)
          PROVE  \E i \in DOMAIN segments : t \in Ticks(segments[i])
      <4>1. t < measure.end
        BY <2>0, <3>3 DEF Moments
      <4> QED
        BY <2>0, <3>3, <4>1 DEF SegmentsInv
    <3> QED
      BY <3>1, <3>2, <3>3 DEF TimeIsTakenOnce
  <2>3. WheelIsUsedOnce
    <3>1. ASSUME Sparse(measure), NEW d \in DOMAIN measure.wheel,
                 measure.wheel[d] < measure.imu[Len(measure.imu)]
          PROVE  \E u \in used : u.datum = d
      <4>1. head = Len(measure.imu) /\ front \in Nat \ {0}
        BY DEF UndistortTypes
      <4>2. /\ DOMAIN measure.wheel = 1..Len(measure.wheel) /\ Len(measure.wheel) \in Nat
            /\ \A c \in DOMAIN measure.wheel : measure.wheel[c] \in Nat
            /\ measure.imu[Len(measure.imu)] \in Nat
        BY <2>0, MeasureIs
      <4>3. d < front
        <5>1. SUFFICES ASSUME front <= d PROVE FALSE
          BY <4>1, <4>2
        <5>2. front \in DOMAIN measure.wheel
          BY <4>1, <4>2, <5>1
        <5>3. measure.imu[Len(measure.imu)] <= measure.wheel[front]
          BY <3>1, <4>1, <5>2 DEF SparseInv
        <5>4. front = d \/ measure.wheel[front] <= measure.wheel[d]
          BY <3>1, <4>1, <4>2, <5>1, <5>2 DEF Sparse
        <5>. QED
          BY <3>1, <4>2, <5>2, <5>3, <5>4
      <4>. QED
        BY <3>1, <4>3 DEF SparseInv
    <3>. QED
      BY <3>1 DEF WheelInv, WheelIsUsedOnce
  <2>4. PointsAreMoved
    <3> SUFFICES ASSUME NEW k \in DOMAIN measure.points
                 PROVE  MovedBy(k) = IF k = 1 THEN Before(1) ELSE {j \in Before(k) : \A i \in Before(k) : i <= j}
      BY DEF PointsAreMoved
    <3>1. k \in Nat \ {0} /\ kp = 1 /\ pcl \in Nat
      BY <2>0, MeasureIs DEF PointsInv, UndistortTypes
    <3>2. \A j \in Before(k) : j \in Int /\ j >= 1
      BY DEF Before
    <3>3. /\ k > pcl /\ k # 1 => MovedBy(k) = {j \in Before(k) : \A i \in Before(k) : i <= j}
          /\ k <= pcl /\ k # 1 => MovedBy(k) = {}
          /\ k = 1 => MovedBy(k) = {j \in Before(k) : j >= kp}
          /\ k <= pcl /\ pcl > 1 => \A j \in Before(k) : j < kp
      BY DEF PointsInv
    <3>4. CASE k = 1
      BY <3>1, <3>2, <3>3, <3>4
    <3>5. CASE k # 1 /\ k > pcl
      BY <3>3, <3>5
    <3>6. CASE k # 1 /\ k <= pcl
      <4>1. Before(k) = {}
        BY <3>1, <3>2, <3>3, <3>6
      <4> QED
        BY <3>3, <3>6, <4>1
    <3> QED
      BY <3>1, <3>4, <3>5, <3>6
  <2> QED
    BY <2>2, <2>3, <2>4
<1> QED
  BY UndistortInvInit, <1>1, <1>2, PTL DEF UndistortSpec
===============================================================================
