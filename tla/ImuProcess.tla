----------------------------- MODULE ImuProcess ------------------------------
(* ImuProcess: what UndistortPcl makes of one measure, loop by loop: which stretch *)
(* of time the filter is taken over, which wheel datum corrects it, and which pair *)
(* of poses moves which point.  All times are natural numbers (ticks); the         *)
(* arithmetic on poses is left out.                                              *)

EXTENDS Integers, Sequences

CONSTANTS
    MaxDt,      \* the longest step of the filter: 0.1 s
    Measures    \* the measures there may be

\* What sync_packages hands over: the samples lie behind the begin of the scan and not
\* behind its end; the points are sorted here.  Where the scan before has ended (last)
\* is anywhere, for the stamps of the lidar may have been set back.
IsMeasure(m) ==
    /\ {m.last, m.beg, m.end} \subseteq Nat
    /\ m.imu \in Seq(Nat) /\ m.wheel \in Seq(Nat) /\ m.points \in Seq(Nat)
    /\ m.imu # <<>> /\ \A i \in DOMAIN m.imu : m.beg < m.imu[i] /\ m.imu[i] <= m.end
    /\ \A i, j \in DOMAIN m.imu : i < j => m.imu[i] <= m.imu[j]
    /\ \A i, j \in DOMAIN m.points : i < j => m.points[i] <= m.points[j]

ASSUME MeasureAssumption ==
    /\ MaxDt \in Nat \ {0}
    /\ \A m \in Measures : IsMeasure(m)

VARIABLES
    measure,    \* meas, and last_lidar_end_time_
    at,         \* the loop it is in
    head,       \* it_imu: the sample the next interval begins with
    segments,   \* what predict was called for
    poses,      \* IMUpose_: the offset of each pose from the begin of the scan
    front,      \* the datum at the front of meas.wheel
    used,       \* the wheel data that corrected the filter, and in which interval
    kp,         \* it_kp: the later pose of the pair
    pcl,        \* it_pcl: the point it stands on
    deskewed    \* the points moved, and the earlier pose of the pair that did it

undistort == <<measure, at, head, segments, poses, front, used, kp, pcl, deskewed>>

UndistortBegins(m) ==
    /\ measure = m /\ at = "forward" /\ head = 1
    /\ segments = <<>> /\ poses = <<0>>
    /\ front = 1 /\ used = {}
    /\ kp = 1 /\ pcl = 1 /\ deskewed = {}

UndistortInit == \E m \in Measures : UndistortBegins(m)

-------------------------------------------------------------------------------
(* Forward, from interval to interval between two samples.                      *)

InInterval == at = "forward" /\ head < Len(measure.imu)

HeadTime == measure.imu[head]
TailTime == measure.imu[head + 1]

\* The interval lies in the scan before.
SkipInterval ==
    /\ InInterval /\ TailTime < measure.last
    /\ head' = head + 1
    /\ UNCHANGED <<measure, at, segments, poses, front, used, kp, pcl, deskewed>>

Abs(d) == IF d < 0 THEN -d ELSE d

Clipped(dt) == IF Abs(dt) >= MaxDt THEN MaxDt ELSE dt

\* The stretch of time one call of predict stands for, and how far it moves the filter.
Segment ==
    LET from == IF HeadTime < measure.last THEN measure.last ELSE HeadTime
    IN  [from |-> from, dt |-> Clipped(TailTime - from)]

\* A datum before the interval is dropped, one inside of it corrects the filter.
WheelUpdate ==
    IF front > Len(measure.wheel) \/ measure.wheel[front] >= TailTime THEN UNCHANGED <<front, used>>
    ELSE /\ front' = front + 1
         /\ used' = IF measure.wheel[front] < HeadTime THEN used
                    ELSE used \cup {[datum |-> front, interval |-> head]}

Predict ==
    /\ InInterval /\ TailTime >= measure.last
    /\ segments' = Append(segments, Segment)
    /\ WheelUpdate
    /\ poses' = Append(poses, TailTime - measure.beg)
    /\ head' = head + 1
    /\ UNCHANGED <<measure, at, kp, pcl, deskewed>>

\* From the last sample to the end of the scan.
LastPredict ==
    /\ at = "forward" /\ head = Len(measure.imu)
    /\ segments' = Append(segments, [from |-> HeadTime, dt |-> Abs(measure.end - HeadTime)])
    /\ at' = IF measure.points = <<>> THEN "done" ELSE "backward"
    /\ kp' = Len(poses) /\ pcl' = Len(measure.points)
    /\ UNCHANGED <<measure, head, poses, front, used, deskewed>>

-------------------------------------------------------------------------------
(* Backward, from pair to pair of poses: the points after the earlier pose of the  *)
(* pair are moved, the latest first.  At the first point the iterator stays.       *)

InPair == at = "backward" /\ kp > 1

IsAfterPose == measure.points[pcl] > poses[kp - 1]

MovePoint ==
    /\ InPair /\ IsAfterPose
    /\ deskewed' = deskewed \cup {[point |-> pcl, pose |-> kp - 1]}
    /\ IF pcl = 1 THEN kp' = kp - 1 /\ pcl' = pcl
       ELSE pcl' = pcl - 1 /\ kp' = kp
    /\ UNCHANGED <<measure, at, head, segments, poses, front, used>>

\* Mutant: the iterator steps on when a pair is done with.
NextPair_StepsOn ==
    /\ InPair /\ ~IsAfterPose
    /\ kp' = kp - 1 /\ pcl' = (IF pcl = 1 THEN 1 ELSE pcl - 1)
    /\ UNCHANGED <<measure, at, head, segments, poses, front, used, deskewed>>

NextPair ==
    /\ InPair /\ ~IsAfterPose
    /\ kp' = kp - 1
    /\ UNCHANGED <<measure, at, head, segments, poses, front, used, pcl, deskewed>>

EndOfPairs ==
    /\ at = "backward" /\ kp = 1
    /\ at' = "done"
    /\ UNCHANGED <<measure, head, segments, poses, front, used, kp, pcl, deskewed>>

UndistortStep == SkipInterval \/ Predict \/ LastPredict \/ MovePoint \/ NextPair \/ EndOfPairs

UndistortSpec == UndistortInit /\ [][UndistortStep]_undistort

-------------------------------------------------------------------------------

\* The ticks a segment stands for.
Ticks(s) == s.from..(s.from + s.dt - 1)

\* The time of a measure: from its first sample, and from the end of the scan before
\* unless every sample lies before it.
Moments(m) ==
    {t \in m.imu[1]..(m.end - 1) : t >= m.last \/ t >= m.imu[Len(m.imu)]}

Gapless(m) == \A i \in 1..(Len(m.imu) - 1) : m.imu[i + 1] - m.imu[i] <= MaxDt

(* The filter is taken over every moment from the first sample to the end of the     *)
(* scan once, unless a gap is longer than MaxDt.  No moment before the first sample is  *)
(* taken: the comments say that the last sample of the scan before is put in front,    *)
(* and that the first interval starts at the end of that scan; the code puts nothing   *)
(* in front.                                                                     *)
TimeIsTakenOnce ==
    LET taken == UNION {Ticks(segments[i]) : i \in DOMAIN segments}
    IN  /\ \A i, j \in DOMAIN segments : i < j => Ticks(segments[i]) \cap Ticks(segments[j]) = {}
        /\ taken \subseteq Moments(measure)
        /\ Gapless(measure) => Moments(measure) \subseteq taken

\* The wheel data are in order; none lies before the first interval that is taken, and
\* between any two a sample has come, as far as there are samples.
Sparse(m) ==
    /\ \A c, d \in DOMAIN m.wheel : c < d =>
          /\ m.wheel[c] <= m.wheel[d]
          /\ m.wheel[c] < m.imu[Len(m.imu)] =>
                \E i \in DOMAIN m.imu : m.wheel[c] < m.imu[i] /\ m.imu[i] <= m.wheel[d]
    /\ \A d \in DOMAIN m.wheel, i \in DOMAIN m.imu : i = 1 \/ m.imu[i] < m.last => m.imu[i] <= m.wheel[d]

\* A wheel datum corrects the filter at most once, and only in the interval it falls
\* into.  If the data are sparse, each before the last sample does; of others one in
\* front of the first interval, and one that waits behind another for longer than its
\* interval, is dropped without a word.
WheelIsUsedOnce ==
    /\ \A u, v \in used : u.datum = v.datum <=> u.interval = v.interval
    /\ \A u \in used : /\ measure.imu[u.interval] <= measure.wheel[u.datum]
                      /\ measure.wheel[u.datum] < measure.imu[u.interval + 1]
    /\ Sparse(measure) =>
          \A d \in DOMAIN measure.wheel :
             measure.wheel[d] < measure.imu[Len(measure.imu)] => \E u \in used : u.datum = d

\* The pairs of poses whose earlier pose lies before a point.
Before(k) == {j \in 1..(Len(poses) - 1) : poses[j] < measure.points[k]}

MovedBy(k) == {r.pose : r \in {s \in deskewed : s.point = k}}

\* A point is moved once, with the last of its pairs; but the first point of the scan,
\* which the iterator does not leave, is moved again with every earlier one.
PointsAreMoved ==
    \A k \in DOMAIN measure.points :
        MovedBy(k) = IF k = 1 THEN Before(1)
                     ELSE {j \in Before(k) : \A i \in Before(k) : i <= j}

(* What UndistortPcl makes of a measure: no moment is taken twice, and only the time   *)
(* before the first sample and what is cut off a long gap is left out; no wheel datum  *)
(* is used twice or late, and none is lost that is alone in its interval; every point  *)
(* but the first is moved once.                                                    *)
MeasureIsTaken ==
    at = "done" => TimeIsTakenOnce /\ WheelIsUsedOnce /\ PointsAreMoved
===============================================================================
