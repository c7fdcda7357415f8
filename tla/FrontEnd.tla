------------------------------ MODULE FrontEnd -------------------------------
(* The LIO thread (LidarSlam::run) and the IMU callback (LidarSlam::imu_cbk),   *)
(* which meet in three places: the IMU buffer, the base pose that run leaves    *)
(* after every scan, and the flag laser_updated_ that tells the callback of it. *)
(* The callback carries the base forward with the samples that came since: the  *)
(* pose at the rate of the IMU.  Each takes one lock at a time, so that the     *)
(* other may run between any two of the steps below.                            *)
(*                                                                             *)
(* A pose is the time it stands for, the number of the update it started from,  *)
(* and the samples it was carried forward with; the filter is how far it has    *)
(* come, registration a choice of its outcome.                                  *)

EXTENDS Integers, Sequences, FiniteSetsExt

CONSTANTS
    Modes,          \* working_mode_ of the sessions looked at
    Scan,           \* the duration of a scan
    Pauses,         \* from the end of one scan to the begin of the next
    Gap,            \* an IMU stamp more than this after the last one: data was lost
    ImuSteps,       \* from one IMU stamp to the next
    Back,           \* how far an IMU stamp may go back
    MaxImu, MaxScans    \* bounds: samples and scans per behaviour

ASSUME ModesAssumption == Modes \subseteq {"MAPPING", "SEC_MAPPING", "LOCALIZATION"}
ASSUME TimeAssumption == Scan \in Nat \ {0} /\ Gap \in Nat \ {0} /\ Pauses \subseteq Nat /\ ImuSteps \subseteq Nat
ASSUME BackAssumption == Back \in Nat
ASSUME BoundsAssumption == {MaxImu, MaxScans} \subseteq Nat

VARIABLES
    mode,           \* working_mode_, fixed for the life of the object
    imuBuf,         \* imu_buffer_: the stamps
    lastImu,        \* last_timestamp_imu_
    base,           \* localization_base_
    cur,            \* current_pose_
    updated,        \* laser_updated_
    success,        \* globalLocalizationSuccess_
    cb,             \* the callback: where it is, its sample, its copies
    pc,             \* where run is
    meas,           \* Measures_
    filter,         \* the filter: still to be initialised, its velocity abnormal
    first,          \* flg_first_scan_
    cloud,          \* undistortCloud_
    tree,           \* the ikd-tree is built
    status,         \* slam_run_status_
    processed,      \* filter_processed_first_laser_
    lidar,          \* the stamp of the scan that came after lost ones
    imus, scans,    \* how many samples and scans have come
    late,           \* updates since the callback's upsampling that left the base
                    \* before the callback cleared the flag
    popped,         \* since run left the base, a sample later than the base has been
                    \* taken away, or a time was moved
    skipped         \* the samples since the last upsampling that the callback left out
                    \* because the vehicle was not on the map

callback == <<lastImu, cur, cb, imus>>
lio == <<pc, meas, filter, first, cloud, tree, status, processed, scans>>
shared == <<mode, imuBuf, base, updated, success>>
ghosts == <<late, popped, skipped>>
vars == <<callback, lio, shared, lidar, ghosts>>

Later(a, b) == IF a > b THEN a ELSE b

Statuses == {"fresh", "SyncFailed", "BeforeDownSampleTooFewPoints", "LidarOccluded",
             "LioVelAbnormalInPredict", "PointCloudEmpty", "AfterDownSampleTooFewPoints",
             "LioVelAbnormalInUpdate", "Normal"}
Clouds == {"none", "empty", "near", "far"}

Base(t, id) == [t |-> t, id |-> id]
Pose(t, id, used) == [t |-> t, id |-> id, used |-> used]
Idle == [pc |-> "idle", msg |-> 0, base |-> Base(0, 0), t |-> 0]

Bases == [t : Nat, id : 0..MaxScans]
Places == {"idle", "copy", "choose", "rebased", "upsample", "clear", "integrate"}
Callbacks == [pc : Places, msg : Nat, base : Bases, t : Nat]

TypeOK ==
    /\ mode \in Modes /\ imuBuf \in Seq(Nat) /\ lastImu \in Nat
    /\ base \in Bases
    /\ DOMAIN cur = {"t", "id", "used"} /\ cur.t \in Nat /\ cur.id \in 0..MaxScans
    /\ cur.used \subseteq Nat
    /\ {updated, success, first, tree, processed, popped} \subseteq BOOLEAN
    /\ cb \in Callbacks
    /\ meas \in [beg : Nat, end : Nat] /\ lidar \in Nat
    /\ pc \in {"idle", "guards", "process", "predicted", "update", "flag", "tail"}
    /\ filter \in [need : BOOLEAN, fast : BOOLEAN]
    /\ cloud \in Clouds /\ status \in Statuses
    /\ imus \in 0..MaxImu /\ scans \in 0..MaxScans /\ late \in 0..MaxScans
    /\ skipped \subseteq Nat
    /\ processed => tree

Init ==
    /\ mode \in Modes
    /\ imuBuf = <<>> /\ lastImu = 0
    /\ base = Base(0, 0) /\ cur = Pose(0, 0, {})
    /\ updated = FALSE /\ success = FALSE
    /\ cb = Idle /\ pc = "idle"
    /\ meas = [beg |-> 0, end |-> 0]
    /\ filter = [need |-> TRUE, fast |-> FALSE]
    /\ first = TRUE /\ cloud = "none" /\ tree = FALSE
    /\ status = "fresh" /\ processed = FALSE
    /\ imus = 0 /\ scans = 0 /\ lidar = 0
    /\ late = 0 /\ popped = FALSE /\ skipped = {}

-------------------------------------------------------------------------------
(* imu_cbk.                                                                    *)

Callback(label) == cb.pc = label

\* Mutant: the callback waits for a third sample.
DoNothing_Third(buf) == Len(buf) <= 2

\* A cleared buffer, or one with the new sample alone, ends the callback.
DoNothing(buf) == Len(buf) <= 1

\* Under the lock of the buffer: a stamp that goes back clears it and ends the
\* callback; one that jumps clears it and moves both poses to its own time, with
\* their state as it is; the first sample in the buffer ends the callback too.
ImuCbk ==
    /\ Callback("idle") /\ imus < MaxImu
    /\ \E step \in ImuSteps \cup {-Back} :
          LET t == lastImu + step
              lost == step > Gap
              buf == IF step < 0 THEN <<>> ELSE IF lost THEN <<t>> ELSE Append(imuBuf, t)
          IN
          /\ t > 0 /\ lastImu' = t /\ imuBuf' = buf
          /\ base' = IF lost THEN [base EXCEPT !.t = t] ELSE base
          /\ cur' = IF lost THEN [cur EXCEPT !.t = t] ELSE cur
          /\ cb' = IF DoNothing(buf) THEN Idle ELSE [Idle EXCEPT !.pc = "copy", !.msg = t]
          /\ popped' = (popped \/ step < 0 \/ lost)
    /\ imus' = imus + 1
    /\ UNCHANGED <<mode, updated, success, lio, lidar, late, skipped>>

Upsampling == success \/ mode \in {"MAPPING", "SEC_MAPPING"}

\* The copies, and the condition for the upsampling: a sample that comes while a
\* localization is lost goes into the buffer and into no pose.
Copy ==
    /\ Callback("copy")
    /\ cb' = IF Upsampling
             THEN [cb EXCEPT !.pc = "choose", !.base = base, !.t = cur.t] ELSE Idle
    /\ skipped' = IF Upsampling THEN skipped ELSE skipped \cup {cb.msg}
    /\ UNCHANGED <<lastImu, cur, imus, shared, lio, lidar, late, popped>>

\* The base is ahead of the pose: the pose is set to the copy of the base.
Rebase ==
    /\ Callback("choose") /\ cb.t < cb.base.t
    /\ cur' = Pose(cb.base.t, cb.base.id, {})
    /\ cb' = [cb EXCEPT !.pc = "rebased"]
    /\ UNCHANGED <<lastImu, imus, shared, lio, lidar, ghosts>>

TestFlag ==
    /\ Callback("choose") /\ cb.t >= cb.base.t
    /\ cb' = [cb EXCEPT !.pc = IF updated THEN "upsample" ELSE "integrate"]
    /\ UNCHANGED <<lastImu, cur, imus, shared, lio, lidar, ghosts>>

\* The stamps of a buffer by which a pose of time t is carried forward.
Advancing(buf, t) == {buf[i] : i \in {k \in DOMAIN buf : buf[k] > t /\ \A j \in 1..(k - 1) : buf[j] < buf[k]}}

Carried(p, stamps) == Pose(Max({p.t} \cup stamps), p.id, p.used \cup stamps)

\* Mutant: the upsampling starts from the copy made before the flag was looked at.
Upsampled_FromCopy == Carried(Pose(cb.base.t, cb.base.id, {}), Advancing(imuBuf, cb.base.t))

\* upsampling_current_pose: the base as it is now and every sample in the buffer.
Upsampled == Carried(Pose(base.t, base.id, {}), Advancing(imuBuf, base.t))

UpsampleAfterRebase ==
    /\ Callback("rebased")
    /\ cur' = Upsampled /\ skipped' = {}
    /\ cb' = Idle
    /\ UNCHANGED <<lastImu, imus, shared, lio, lidar, late, popped>>

UpsamplingCurrentPose ==
    /\ Callback("upsample")
    /\ cur' = Upsampled /\ late' = 0 /\ skipped' = {}
    /\ cb' = [cb EXCEPT !.pc = "clear"]
    /\ UNCHANGED <<lastImu, imus, shared, lio, lidar, popped>>

ClearFlag ==
    /\ Callback("clear")
    /\ updated' = FALSE
    /\ cb' = [cb EXCEPT !.pc = "integrate"]
    /\ UNCHANGED <<lastImu, cur, imus, mode, imuBuf, base, success, lio, lidar, ghosts>>

\* Mutant: the sample is dropped when the pose has just been upsampled.
Integrate_NotAfterUpsample ==
    /\ Callback("integrate")
    /\ cur' = IF cur.used = {} THEN cur ELSE Carried(cur, Advancing(<<cb.msg>>, cur.t))
    /\ cb' = Idle
    /\ UNCHANGED <<lastImu, imus, shared, lio, lidar, ghosts>>

Integrate ==
    /\ Callback("integrate")
    /\ cur' = Carried(cur, Advancing(<<cb.msg>>, cur.t))
    /\ cb' = Idle
    /\ UNCHANGED <<lastImu, imus, shared, lio, lidar, ghosts>>

-------------------------------------------------------------------------------
(* run.                                                                        *)

Return(s) == pc' = "idle" /\ status' = s

\* lidar_pcl_cbk after lost scans: the older scans leave the buffer, and the time
\* of the base moves to the stamp of the new one.
LidarGap ==
    /\ scans > 0
    /\ LET t == Later(meas.beg, lidar) + Gap + 1 IN
       t <= lastImu /\ lidar' = t /\ base' = [base EXCEPT !.t = t]
    /\ popped' = TRUE
    /\ UNCHANGED <<mode, imuBuf, updated, success, callback, lio, late, skipped>>

SyncFails ==
    /\ pc = "idle" /\ status # "SyncFailed"
    /\ Return("SyncFailed")
    /\ UNCHANGED <<meas, filter, first, cloud, tree, processed, scans, shared, callback, lidar, ghosts>>

\* The samples the loop of sync_packages pops, as in SensorSync: those before the
\* end of the scan, and one exactly at the end, if it is not the first.
Popped(end) ==
    LET before == Max({n \in 0..Len(imuBuf) : \A i \in 1..n : imuBuf[i] < end})
    IN  IF before \in 1..(Len(imuBuf) - 1) /\ imuBuf[before + 1] = end
          THEN before + 1
          ELSE before

\* sync_packages: the samples of the scan leave the buffer; without one it fails.
Sync ==
    /\ pc = "idle" /\ scans < MaxScans
    /\ \E pause \in Pauses :
          LET beg == Later(meas.end, lidar) + pause
              end == beg + Scan
              n == Popped(end)
          IN
          /\ end <= lastImu /\ imuBuf # <<>>
          /\ meas' = [beg |-> beg, end |-> end]
          /\ imuBuf' = SubSeq(imuBuf, n + 1, Len(imuBuf))
          /\ popped' = (popped \/ \E i \in 1..n : imuBuf[i] > base.t)
          /\ IF \E i \in 1..n : imuBuf[i] > beg
               THEN pc' = "guards" /\ UNCHANGED status
               ELSE Return("SyncFailed")
    /\ scans' = scans + 1
    /\ UNCHANGED <<mode, filter, first, cloud, tree, processed, base, updated, success, callback, lidar, late,
                   skipped>>

TooFewPoints ==
    /\ pc = "guards"
    /\ Return("BeforeDownSampleTooFewPoints")
    /\ UNCHANGED <<meas, filter, first, cloud, tree, processed, scans, shared, callback, lidar, ghosts>>

\* check_occlusion looks at undistortCloud_, the cloud of the scan before.
CheckOcclusion ==
    /\ pc = "guards" /\ cloud = "near"
    /\ Return("LidarOccluded")
    /\ UNCHANGED <<meas, filter, first, cloud, tree, processed, scans, shared, callback, lidar, ghosts>>

FirstScan ==
    /\ pc = "guards" /\ cloud # "near" /\ first
    /\ first' = FALSE /\ pc' = "idle"
    /\ UNCHANGED <<meas, filter, cloud, tree, status, processed, scans, shared, callback, lidar, ghosts>>

\* IMU_init: over one scan or several, and no cloud comes out of it.
ImuInit ==
    /\ pc = "guards" /\ cloud # "near" /\ ~first /\ filter.need
    /\ \E need \in BOOLEAN : filter' = [need |-> need, fast |-> FALSE]
    /\ cloud' = "empty"
    /\ Return("PointCloudEmpty")
    /\ UNCHANGED <<meas, first, tree, processed, scans, shared, callback, lidar, ghosts>>

\* UndistortPcl: the filter comes to the end of the scan.  The drivers have dropped
\* the points within the blind distance; moved to the end of the scan, they may be
\* within it again.
Process ==
    /\ pc = "guards" /\ cloud # "near" /\ ~first /\ ~filter.need
    /\ \E fast \in BOOLEAN : filter' = [filter EXCEPT !.fast = fast]
    /\ cloud' \in {"near", "far"}
    /\ pc' = "predicted"
    /\ UNCHANGED <<meas, first, tree, status, processed, scans, shared, callback, lidar, ghosts>>

VelAbnormalInPredict ==
    /\ pc = "predicted" /\ filter.fast
    /\ Return("LioVelAbnormalInPredict")
    /\ UNCHANGED <<meas, filter, first, cloud, tree, processed, scans, shared, callback, lidar, ghosts>>

AfterDownSample ==
    /\ pc = "predicted" /\ ~filter.fast
    /\ Return("AfterDownSampleTooFewPoints")
    /\ UNCHANGED <<meas, filter, first, cloud, tree, processed, scans, shared, callback, lidar, ghosts>>

\* Mutant: the scan that makes the tree, or fails to, counts as processed.
BuildTree_Processed ==
    /\ pc = "predicted" /\ ~filter.fast /\ ~tree
    /\ tree' \in BOOLEAN /\ processed' = TRUE
    /\ pc' = "idle"
    /\ UNCHANGED <<meas, filter, first, cloud, status, scans, shared, callback, lidar, ghosts>>

\* The first cloud makes the tree, if it has more points than the threshold.
BuildTree ==
    /\ pc = "predicted" /\ ~filter.fast /\ ~tree
    /\ tree' \in BOOLEAN
    /\ pc' = "idle"
    /\ UNCHANGED <<meas, filter, first, cloud, status, processed, scans, shared, callback, lidar, ghosts>>

IteratedUpdate ==
    /\ pc = "predicted" /\ ~filter.fast /\ tree
    /\ \E fast \in BOOLEAN : filter' = [filter EXCEPT !.fast = fast]
    /\ pc' = "update"
    /\ UNCHANGED <<meas, first, cloud, tree, status, processed, scans, shared, callback, lidar, ghosts>>

VelAbnormalInUpdate ==
    /\ pc = "update" /\ filter.fast
    /\ Return("LioVelAbnormalInUpdate")
    /\ UNCHANGED <<meas, filter, first, cloud, tree, processed, scans, shared, callback, lidar, ghosts>>

UpdateBase ==
    /\ pc = "update" /\ ~filter.fast
    /\ base' = Base(meas.end, base.id + 1)
    /\ pc' = "flag" /\ popped' = FALSE
    /\ late' = IF Callback("clear") THEN late + 1 ELSE late
    /\ UNCHANGED <<mode, imuBuf, updated, success, meas, filter, first, cloud, tree, status, processed,
                   scans, callback, lidar, skipped>>

SetFlag ==
    /\ pc = "flag"
    /\ updated' = TRUE
    /\ pc' = "tail"
    /\ UNCHANGED <<mode, imuBuf, base, success, meas, filter, first, cloud, tree, status, processed,
                   scans, callback, lidar, ghosts>>

\* The back end has the pose, the tree the points; the scan is done.
Finish ==
    /\ pc = "tail"
    /\ Return("Normal") /\ processed' = TRUE
    /\ UNCHANGED <<meas, filter, first, cloud, tree, scans, shared, callback, lidar, ghosts>>

\* The localization thread finds the vehicle on the map, and loses it again when a
\* match on the way fails: localization starts over.
GlobalSuccess ==
    /\ mode = "LOCALIZATION" /\ ~success /\ processed
    /\ success' = TRUE
    /\ UNCHANGED <<mode, imuBuf, base, updated, lio, callback, lidar, ghosts>>

GlobalLost ==
    /\ mode = "LOCALIZATION" /\ success
    /\ success' = FALSE
    /\ UNCHANGED <<mode, imuBuf, base, updated, lio, callback, lidar, ghosts>>

-------------------------------------------------------------------------------

ImuCallback == \/ ImuCbk \/ Copy \/ Rebase \/ TestFlag \/ UpsampleAfterRebase
               \/ UpsamplingCurrentPose \/ ClearFlag \/ Integrate

Run == \/ SyncFails \/ Sync \/ TooFewPoints \/ CheckOcclusion \/ FirstScan \/ ImuInit \/ Process
       \/ VelAbnormalInPredict \/ AfterDownSample \/ BuildTree \/ IteratedUpdate
       \/ VelAbnormalInUpdate \/ UpdateBase \/ SetFlag \/ Finish

Next == ImuCallback \/ Run \/ LidarGap \/ GlobalSuccess \/ GlobalLost

Spec == Init /\ [][Next]_vars

-------------------------------------------------------------------------------

\* The callback may clear the flag of an update that came after its upsampling, of
\* several if run is faster than the callback.  No other is missed: with the
\* callback and run at rest and the flag down, the pose started from the newest
\* update before these, whatever was missed earlier: also of a localization that is
\* lost, or is lost and found again.
OnlyLateIsMissed ==
    cb.pc = "idle" /\ pc # "flag" /\ ~updated => cur.id + late >= base.id

\* A pose that started from the newest base holds every sample since, but perhaps the first
\* in the buffer, and those that came while the vehicle was not on the map.  The
\* callback skips a sample that finds the buffer empty, not only the first of the
\* session; and what it leaves out of a lost localization stays left out until the
\* next upsampling, when the vehicle has been found again too.  Excepted is the time
\* in which run has taken samples for its next scan and not left a base for them yet.
SamplesSinceBase ==
    cb.pc = "idle" /\ cur.id = base.id /\ base.id > 0 /\ ~popped =>
        \A i \in 2..Len(imuBuf) : imuBuf[i] > base.t => imuBuf[i] \in cur.used \cup skipped

\* When a callback that upsamples ends, the pose stands at its sample's time or
\* later, unless run has taken the sample away while the pose was being set back.
PoseIsCurrent ==
    [][cb.pc \in {"integrate", "rebased"} /\ cb'.pc = "idle" /\ ~popped => cur'.t >= cb.msg]_vars

===============================================================================
