------------------------------ MODULE SensorSync ------------------------------
(* The three sensor buffers of LidarSlam and sync_packages, which cuts one     *)
(* measure (a scan, the IMU samples and the wheel data of its time window) out *)
(* of them.  The callbacks push, each under the buffer's own lock;             *)
(* sync_packages takes and drops the locks six times, so that a callback may   *)
(* run between any two of its steps.                                           *)
(*                                                                             *)
(* Time is counted in ticks of the IMU.  A sample is a record of its number in *)
(* the order of arrival and its stamp.                                         *)

EXTENDS Integers, Sequences, FiniteSetsExt

CONSTANTS
    Keep,           \* lidar_preproc.keep_lidar_num_before_curr
    UseWheel,       \* common.use_wheel_odom
    Scan,           \* a scan lasts this long: lidar_mean_scantime_
    Gap,            \* a stamp more than this after the last one: data was lost
    Start,          \* the first stamp of the lidar and the IMU
    LidarSteps, ImuSteps, WheelSteps,     \* from one stamp of a sensor to the next
    MaxScans, MaxImu, MaxWheel            \* bounds: samples per behaviour

ASSUME KeepAssumption == Keep \in Nat
ASSUME TimeAssumption == Scan \in Nat \ {0} /\ Gap \in Nat /\ Start \in Nat /\ Start > Gap
ASSUME StepsAssumption == LidarSteps \cup ImuSteps \cup WheelSteps \subseteq Int
ASSUME SwitchAssumption == UseWheel \in BOOLEAN
ASSUME BoundsAssumption == {MaxScans, MaxImu, MaxWheel} \subseteq Nat

VARIABLES
    lidarBuf, imuBuf, wheelBuf,           \* lidar_buffer_ and time_buffer_, ...
    lastLidar, lastImu, lastWheel,        \* the last stamp of each callback
    scans, imus, wheels,                  \* how many samples have arrived
    pc,             \* where sync_packages is
    lidarEmpty,     \* what it read of the lidar buffer
    frame,          \* meas.lidar and meas.lidar_beg_time
    imu, wheel,     \* meas.imu, meas.wheel
    emptyBack,      \* imu_buffer_.back() was taken of an empty buffer
    prev,           \* the last measure that reached the filter
    imuBack,        \* an IMU stamp went back since this frame was popped
    resets          \* the lidar messages whose stamp went back

buffers == <<lidarBuf, imuBuf, wheelBuf>>
lasts == <<lastLidar, lastImu, lastWheel>>
counts == <<scans, imus, wheels>>
meas == <<frame, imu, wheel>>
sync == <<pc, lidarEmpty, emptyBack, prev>>
ghosts == <<imuBack, resets>>
vars == <<buffers, lasts, counts, meas, sync, ghosts>>

Samples == [id : Nat, t : Int]
NoFrame == [id |-> 0, t |-> 0]
Labels == {"lidar", "imu", "pop", "lag", "fill", "look", "wheel"}

ScanEnd == frame.t + Scan

Ids(s) == {s[i].id : i \in DOMAIN s}

TypeOK ==
    /\ lidarBuf \in Seq(Samples) /\ Len(lidarBuf) <= Keep
    /\ imuBuf \in Seq(Samples) /\ wheelBuf \in Seq(Samples)
    /\ {lastLidar, lastImu, lastWheel} \subseteq Int
    /\ scans \in 0..MaxScans /\ imus \in 0..MaxImu /\ wheels \in 0..MaxWheel
    /\ pc \in Labels /\ lidarEmpty \in BOOLEAN /\ emptyBack \in BOOLEAN
    /\ frame \in Samples /\ imu \in Seq(Samples) /\ wheel \in Seq(Samples)
    /\ prev \in [frame : Samples, imu : Nat]
    /\ imuBack \in BOOLEAN /\ resets \subseteq 1..scans

Init ==
    /\ lidarBuf = <<>> /\ imuBuf = <<>> /\ wheelBuf = <<>>
    /\ lastLidar = 0 /\ lastImu = -1 /\ lastWheel = Start
    /\ scans = 0 /\ imus = 0 /\ wheels = 0
    /\ pc = "lidar" /\ lidarEmpty = TRUE /\ emptyBack = FALSE
    /\ frame = NoFrame /\ imu = <<>> /\ wheel = <<>>
    /\ prev = [frame |-> NoFrame, imu |-> 0]
    /\ imuBack = FALSE /\ resets = {}

-------------------------------------------------------------------------------
(* The callbacks.                                                              *)

\* The stamps a sensor may send next.
NextStamps(count, last, Steps) == IF count = 0 THEN {Start} ELSE {last + d : d \in Steps}

\* Mutant: one frame too many stays.
Newest_OneMore(s) == IF Len(s) > Keep + 1 THEN SubSeq(s, Len(s) - Keep, Len(s)) ELSE s

\* lidar_pcl_cbk drops the oldest frames until Keep are left.
Newest(s) == IF Len(s) > Keep THEN SubSeq(s, Len(s) - Keep + 1, Len(s)) ELSE s

\* lidar_pcl_cbk.  A stamp that goes back only resets the clock and the buffer.
LidarCbk(t) ==
    /\ scans < MaxScans
    /\ scans' = scans + 1 /\ lastLidar' = t
    /\ IF t < lastLidar
         THEN lidarBuf' = <<>> /\ resets' = resets \cup {scans + 1}
         ELSE /\ lidarBuf' = Newest((IF t - lastLidar > Gap THEN <<>> ELSE lidarBuf)
                                    \o <<[id |-> scans + 1, t |-> t]>>)
              /\ UNCHANGED resets
    /\ UNCHANGED <<imuBuf, wheelBuf, lastImu, lastWheel, imus, wheels, meas, sync, imuBack>>

\* imu_cbk as far as the buffer goes.
ImuCbk(t) ==
    /\ imus < MaxImu
    /\ imus' = imus + 1 /\ lastImu' = t
    /\ IF t < lastImu
         THEN imuBuf' = <<>> /\ imuBack' = TRUE
         ELSE /\ imuBuf' = (IF t - lastImu > Gap THEN <<>> ELSE imuBuf)
                           \o <<[id |-> imus + 1, t |-> t]>>
              /\ UNCHANGED imuBack
    /\ UNCHANGED <<lidarBuf, wheelBuf, lastLidar, lastWheel, scans, wheels, meas, sync,
                   resets>>

\* wheel_odom_cbk keeps the datum whose stamp goes back.
WheelCbk(t) ==
    /\ wheels < MaxWheel
    /\ wheels' = wheels + 1 /\ lastWheel' = t
    /\ wheelBuf' = (IF t < lastWheel THEN <<>> ELSE wheelBuf) \o <<[id |-> wheels + 1, t |-> t]>>
    /\ UNCHANGED <<lidarBuf, imuBuf, lastLidar, lastImu, scans, imus, meas, sync, ghosts>>

-------------------------------------------------------------------------------
(* sync_packages, one step per critical section.                               *)

CheckLidar ==
    /\ pc = "lidar"
    /\ lidarEmpty' = (lidarBuf = <<>>)
    /\ pc' = "imu"
    /\ UNCHANGED <<buffers, lasts, counts, meas, emptyBack, prev, ghosts>>

\* Mutant: one IMU sample counts as none.
CheckImu_WantsTwo ==
    /\ pc = "imu"
    /\ pc' = IF lidarEmpty \/ Len(imuBuf) <= 1 THEN "lidar" ELSE "pop"
    /\ UNCHANGED <<buffers, lasts, counts, meas, lidarEmpty, emptyBack, prev, ghosts>>

CheckImu ==
    /\ pc = "imu"
    /\ pc' = IF lidarEmpty \/ imuBuf = <<>> THEN "lidar" ELSE "pop"
    /\ UNCHANGED <<buffers, lasts, counts, meas, lidarEmpty, emptyBack, prev, ghosts>>

\* Mutant: the newest frame is taken first.
Pop_Newest ==
    /\ pc = "pop"
    /\ IF lidarBuf # <<>>
         THEN /\ frame' = lidarBuf[Len(lidarBuf)]
              /\ lidarBuf' = SubSeq(lidarBuf, 1, Len(lidarBuf) - 1)
              /\ imuBack' = FALSE
              /\ pc' = "lag"
         ELSE /\ pc' = "lidar"
              /\ UNCHANGED <<frame, lidarBuf, imuBack>>
    /\ UNCHANGED <<imuBuf, wheelBuf, lasts, counts, imu, wheel, lidarEmpty, emptyBack, prev,
                   resets>>

\* The oldest frame leaves the buffer for good, whatever comes of it.
Pop ==
    /\ pc = "pop"
    /\ IF lidarBuf # <<>>
         THEN /\ frame' = Head(lidarBuf) /\ lidarBuf' = Tail(lidarBuf)
              /\ imuBack' = FALSE
              /\ pc' = "lag"
         ELSE /\ pc' = "lidar"
              /\ UNCHANGED <<frame, lidarBuf, imuBack>>
    /\ UNCHANGED <<imuBuf, wheelBuf, lasts, counts, imu, wheel, lidarEmpty, emptyBack, prev,
                   resets>>

\* Mutant: the IMU only has to reach the begin of the scan.
CheckLag_Begin ==
    /\ pc = "lag"
    /\ pc' = IF lastImu < frame.t THEN "lidar" ELSE "fill"
    /\ UNCHANGED <<buffers, lasts, counts, meas, lidarEmpty, emptyBack, prev, ghosts>>

\* The IMU has not reached the end of the scan: give up.
CheckLag ==
    /\ pc = "lag"
    /\ pc' = IF lastImu < ScanEnd THEN "lidar" ELSE "fill"
    /\ UNCHANGED <<buffers, lasts, counts, meas, lidarEmpty, emptyBack, prev, ghosts>>

\* The samples the loop of sync_packages pops: those before the end of the scan,
\* and one exactly at the end, if it is not the first.
Popped ==
    LET before == Max({n \in 0..Len(imuBuf) : \A i \in 1..n : imuBuf[i].t < ScanEnd})
    IN  IF before \in 1..(Len(imuBuf) - 1) /\ imuBuf[before + 1].t = ScanEnd
          THEN before + 1
          ELSE before

\* Of these it drops the ones from before the scan.  imu_cbk keeps the buffer in the
\* order of time, so that they come first.
Dropped == Max({n \in 0..Popped : \A i \in 1..n : imuBuf[i].t <= frame.t})

Fill ==
    /\ pc = "fill"
    /\ imu' = SubSeq(imuBuf, Dropped + 1, Popped)
    /\ imuBuf' = SubSeq(imuBuf, Popped + 1, Len(imuBuf))
    /\ pc' = IF imuBuf = <<>> THEN "lidar" ELSE "look"
    /\ UNCHANGED <<lidarBuf, wheelBuf, lasts, counts, frame, wheel, lidarEmpty, emptyBack, prev,
                   ghosts>>

\* Without a sample the function logs the stamp of imu_buffer_.back(), with the
\* lock already released, and gives up.
Look ==
    /\ pc = "look"
    /\ IF imu = <<>> THEN pc' = "lidar" /\ emptyBack' = (emptyBack \/ imuBuf = <<>>)
                     ELSE pc' = "wheel" /\ UNCHANGED emptyBack
    /\ UNCHANGED <<buffers, lasts, counts, meas, lidarEmpty, prev, ghosts>>

\* getDataInRangeAndClean drops what is older than the scan and copies its window
\* up to the first datum beyond it.
FromScan == LET old == {n \in 0..Len(wheelBuf) : \A i \in 1..n : wheelBuf[i].t < frame.t}
            IN  SubSeq(wheelBuf, Max(old) + 1, Len(wheelBuf))

InWindow(s) == LET within == {n \in 0..Len(s) : \A i \in 1..n : s[i].t <= ScanEnd}
               IN  SubSeq(s, 1, Max(within))

\* The wheel data, and the measure is complete.
Wheel ==
    /\ pc = "wheel"
    /\ IF UseWheel
         THEN wheelBuf' = FromScan /\ wheel' = InWindow(FromScan)
         ELSE UNCHANGED <<wheelBuf, wheel>>
    /\ prev' = [frame |-> frame, imu |-> imu[Len(imu)].id]
    /\ pc' = "lidar"
    /\ UNCHANGED <<lidarBuf, imuBuf, lasts, counts, frame, imu, lidarEmpty, emptyBack, ghosts>>

-------------------------------------------------------------------------------

Sync == CheckLidar \/ CheckImu \/ Pop \/ CheckLag \/ Fill \/ Look \/ Wheel

Sensors ==
    \/ \E t \in NextStamps(scans, lastLidar, LidarSteps) : LidarCbk(t)
    \/ \E t \in NextStamps(imus, lastImu, ImuSteps) : ImuCbk(t)
    \/ UseWheel /\ \E d \in WheelSteps : WheelCbk(lastWheel + d)

Next == Sync \/ Sensors

\* The LIO thread polls every 5 ms; the sensors owe nobody a message.
Spec == Init /\ [][Next]_vars /\ WF_vars(Sync)

-------------------------------------------------------------------------------
(* Properties.                                                                 *)

\* The measure run is given is its scan's and whole: the IMU samples lie in the
\* scan, in order, and none served an earlier measure; the wheel data are those of
\* the window that have arrived; and, unless the IMU clock went back meanwhile (the
\* check of last_timestamp_imu_ and the loop hold the lock at different times), the
\* IMU has passed the end of the scan and no sample before it is left behind.
MeasureIsWhole ==
    [][pc = "wheel" /\ pc' # "wheel" =>
         /\ \A i \in DOMAIN imu : frame.t < imu[i].t /\ imu[i].t <= ScanEnd /\ imu[i].id > prev.imu
         /\ \A i, j \in DOMAIN imu : i < j => imu[i].t <= imu[j].t /\ imu[i].id < imu[j].id
         /\ \A i \in DOMAIN wheel' : frame.t <= wheel'[i].t /\ wheel'[i].t <= ScanEnd
         /\ \A i \in DOMAIN wheelBuf :
              frame.t <= wheelBuf[i].t /\ wheelBuf[i].t <= ScanEnd => wheelBuf[i].id \in Ids(wheel')
         /\ ~imuBack => lastImu >= ScanEnd /\ \A i \in DOMAIN imuBuf : imuBuf[i].t >= ScanEnd]_vars

\* The filter never gets an older scan after a newer one, unless the lidar clock
\* went back between the two and reset the buffer.
ScansInOrder ==
    pc = "wheel" =>
        /\ frame.id > prev.frame.id
        /\ (\A n \in resets : ~(prev.frame.id < n /\ n < frame.id)) => frame.t >= prev.frame.t

\* The unlocked imu_buffer_.back() of the log line meets an empty buffer only if
\* the IMU clock went back between two critical sections of one call.
EmptyBackNeedsRollback == [][emptyBack' # emptyBack => imuBack]_vars

\* While there is IMU data a frame does not stay in the buffer for ever.
FrameIsTaken ==
    \A f \in 1..MaxScans :
        (f \in Ids(lidarBuf) /\ imuBuf # <<>>) ~> (f \notin Ids(lidarBuf) \/ imuBuf = <<>>)

==============================================================================
