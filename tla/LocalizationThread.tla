-------------------------- MODULE LocalizationThread --------------------------
(* LidarSlam::localizationThread, the 1 Hz thread of a localization session:   *)
(* global relocalization by integrating scans while the vehicle drives, then   *)
(* a match against the map every Period loops.                                 *)
(*                                                                             *)
(* The LIO thread moves the vehicle and replaces the scan underneath it.  The  *)
(* vehicle drives on a line; a pose is a place of it.  What registration finds *)
(* is a choice; odometry and a match that is accepted are exact, so that the   *)
(* true T_map_odom is the identity, and what the smoother makes of them is not *)
(* a matter of noise.                                                          *)

EXTENDS Integers

CONSTANTS
    Times,          \* global_localize_times: time_out_thr * frequency
    Thresh,         \* integrate_scan_move_dist_thresh_init
    Interval,       \* relocalize_dist_interval
    Period,         \* fgicp_period_sec
    Road,           \* bound: the places of the vehicle are 0..Road
    MaxSessions     \* bound: localization sessions, one after the other

ASSUME NumbersAssumption == {Times, Thresh, Period, Road, MaxSessions} \subseteq Nat
ASSUME IntervalAssumption == Interval \in Nat \ {0}
ASSUME PeriodAssumption == Period > 0

VARIABLES
    sessions,       \* sessions begun
    loaded,         \* getLoadMap() gives a map
    filtered,       \* filter_processed_first_laser_
    scan,           \* what slam_run_status_ and the cloud say of the last scan
    pos,            \* the translation of T_odom_lidar_
    temp,           \* the scan as the loop in progress has copied it
    curr, last,     \* the translations of T_odom_lidar_curr_ and _last_
    pc,             \* where the thread is
    status,         \* local_thrd_status_
    success,        \* globalLocalizationSuccess_
    count,          \* global_localize_count_
    initPose,       \* integrate_init_pose_
    moved,          \* integrate_scan_move_dist_
    thresh,         \* integrate_scan_move_dist_thresh, a local of the thread
    wait,           \* wait_time: static, it outlives the session
    need,           \* need_localize_
    origin,         \* what correctionOdomToMap_ is the result of
    smoothed,       \* the state of ekf_smoother_: where the vehicle was, at the last match;
                    \* 0 while the thread relocalizes, which does not use it
    strayed,        \* the vehicle has driven in a loop without a match, since the smoother began
    tries,          \* attempts failed since the session or the last success
    path,           \* driven since the integration was last reset
    since           \* loops since the last match or global success

world == <<sessions, loaded, filtered, scan, pos>>
poses == <<curr, last, temp>>
integration == <<initPose, moved>>
registration == <<success, count, thresh, tries>>
tracking == <<wait, need, since>>
result == <<origin, smoothed, strayed>>
vars == <<world, poses, pc, status, integration, registration, tracking, result, path>>

Scans == {"good", "empty", "abnormal"}
Statuses == {"Inactive", "Relocalizing", "RelocalizeFailed", "Normal", "LowAccuracy", "Failed"}

TypeOK ==
    /\ sessions \in Nat
    /\ {loaded, filtered, success, initPose, need, strayed} \subseteq BOOLEAN
    /\ origin \in {"none", "global", "match"} /\ smoothed \in Int
    /\ {scan, temp} \subseteq Scans /\ status \in Statuses
    /\ {pos, curr, last} \subseteq 0..Road
    /\ pc \in {"top", "loop", "relocate", "global", "verdict", "match"}
    /\ count \in 0..(Times + 1) /\ tries \in 0..(Times + 1)
    /\ moved \in Nat /\ thresh \in Nat /\ path \in Nat
    /\ wait \in 0..(Period + sessions) /\ since \in 0..Period

\* loadMap: the cloud and the scan contexts of a map, as they are on disk.
MapFiles == [cloud : {"missing", "empty", "points"}, lines : {0, 1}, broken : BOOLEAN]

\* A file of scan contexts that is missing, or empty, and a line of the wrong size
\* leave the map not ready.
LoadMap(files) == files.cloud = "points" /\ files.lines > 0 /\ ~files.broken

\* The members of a new LidarSlam and the locals of its thread.
Init ==
    /\ sessions = 1 /\ \E files \in MapFiles : loaded = LoadMap(files)
    /\ filtered = FALSE /\ scan = "empty" /\ temp = "empty" /\ pos = 0 /\ curr = 0 /\ last = 0
    /\ pc = "top" /\ status = "Inactive"
    /\ success = FALSE /\ count = 0 /\ thresh = Thresh /\ tries = 0
    /\ initPose = FALSE /\ moved = 0 /\ path = 0
    /\ wait = 0 /\ need = TRUE /\ since = 0
    /\ origin = "none" /\ smoothed = 0 /\ strayed = FALSE

\* The session is stopped and another one started.  The destructor joins the
\* thread, which looks at thread_run_ at the top of its loop.
NewSession ==
    /\ pc = "top" /\ sessions < MaxSessions
    /\ sessions' = sessions + 1 /\ \E files \in MapFiles : loaded' = LoadMap(files)
    /\ filtered' = FALSE /\ scan' = "empty" /\ temp' = "empty" /\ pos' = 0 /\ curr' = 0 /\ last' = 0
    /\ status' = "Inactive"
    /\ success' = FALSE /\ count' = 0 /\ thresh' = Thresh /\ tries' = 0
    /\ initPose' = FALSE /\ moved' = 0 /\ path' = 0
    /\ need' = TRUE /\ since' = 0
    /\ origin' = "none" /\ smoothed' = 0 /\ strayed' = FALSE
    /\ UNCHANGED <<pc, wait>>

Distance(a, b) == IF a > b THEN a - b ELSE b - a

\* How far the integration can come before an attempt, which bounds path.
Enough == Thresh + Times + Road + 2
Driven(d) == IF path + d > Enough THEN Enough ELSE path + d

\* LidarSlam::run: a new scan and a new pose.
Run(s, p) ==
    /\ Distance(pos, p) <= 1
    /\ filtered' = TRUE /\ scan' = s /\ pos' = p
    /\ path' = Driven(Distance(pos, p))
    /\ UNCHANGED <<sessions, loaded, poses, pc, status, integration, registration, tracking, result>>

-------------------------------------------------------------------------------
(* One loop of the thread.                                                     *)

ResetGlobalLocalizeFlags == moved' = 0 /\ initPose' = FALSE

\* The end of every loop that does not `continue': _last_ follows _curr_.
EndOfLoop == last' = curr /\ pc' = "top" /\ UNCHANGED <<curr, temp>>

\* The scan and the pose are copied, unless the scan is abnormal.
Copy ==
    /\ pc = "top" /\ filtered /\ scan # "abnormal"
    /\ curr' = pos /\ temp' = scan
    /\ pc' = "loop"
    /\ UNCHANGED <<world, last, status, integration, registration, tracking, result, path>>

\* Once RelocalizeFailed, the thread only logs.
GivenUp ==
    /\ pc = "loop" /\ status = "RelocalizeFailed"
    /\ EndOfLoop
    /\ UNCHANGED <<world, status, integration, registration, tracking, result, path>>

Relocalize ==
    /\ pc = "loop" /\ status # "RelocalizeFailed" /\ ~success
    /\ status' = "Relocalizing"
    /\ pc' = "relocate"
    /\ UNCHANGED <<world, poses, integration, registration, tracking, result, path>>

\* No map, or no point in the cloud.
NoInput ==
    /\ pc = "relocate"
    /\ ~loaded \/ temp = "empty"
    /\ pc' = "verdict"
    /\ UNCHANGED <<world, poses, status, integration, registration, tracking, result, path>>

Input == pc = "relocate" /\ loaded /\ temp # "empty"

FirstPose ==
    /\ Input /\ ~initPose
    /\ initPose' = TRUE /\ last' = curr
    /\ pc' = "top"
    /\ UNCHANGED <<world, curr, temp, status, moved, registration, tracking, result, path>>

\* The vehicle has hardly moved: `continue' without the sleep.
TooNear ==
    /\ Input /\ initPose /\ Distance(curr, last) < Interval
    /\ pc' = "top"
    /\ UNCHANGED <<world, poses, status, integration, registration, tracking, result, path>>

Integrate ==
    /\ Input /\ initPose /\ Distance(curr, last) >= Interval
    /\ moved < thresh
    /\ moved' = moved + Distance(curr, last) /\ last' = curr
    /\ pc' = "top"
    /\ UNCHANGED <<world, curr, temp, status, initPose, registration, tracking, result, path>>

Attempt ==
    /\ Input /\ initPose /\ Distance(curr, last) >= Interval
    /\ moved >= thresh
    /\ last' = curr
    /\ pc' = "global"
    /\ UNCHANGED <<world, curr, temp, status, integration, registration, tracking, result, path>>

\* What globalLocalization finds: points enough, a coarse alignment (the inliers of
\* kiss_matcher, or the score of bbs3d), and an overlap after its refinement.
Findings == [points : BOOLEAN, coarse : BOOLEAN, overlap : BOOLEAN]

GlobalLocalization(f) == f.points /\ f.coarse /\ f.overlap

\* Mutant: a failed attempt keeps what was integrated.
GlobalFails_KeepsScans ==
    /\ pc = "global" /\ \E f \in Findings : ~GlobalLocalization(f)
    /\ count' = count + 1 /\ tries' = tries + 1
    /\ thresh' = Thresh + count'
    /\ path' = 0
    /\ pc' = "verdict"
    /\ UNCHANGED <<world, poses, status, success, integration, tracking, result>>

\* Mutant: a failed attempt is not counted.
GlobalFails_NotCounted ==
    /\ pc = "global" /\ \E f \in Findings : ~GlobalLocalization(f)
    /\ ResetGlobalLocalizeFlags
    /\ thresh' = Thresh
    /\ path' = 0
    /\ pc' = "verdict"
    /\ UNCHANGED <<world, poses, status, success, count, tries, tracking, result>>

\* globalLocalization fails: the scans are thrown away, the next try needs more.
GlobalFails ==
    /\ pc = "global" /\ \E f \in Findings : ~GlobalLocalization(f)
    /\ count' = count + 1 /\ tries' = tries + 1
    /\ ResetGlobalLocalizeFlags
    /\ thresh' = Thresh + count'
    /\ path' = 0
    /\ pc' = "verdict"
    /\ UNCHANGED <<world, poses, status, success, tracking, result>>

\* Mutant: the smoother goes on from its old state.
InitSmoother_Not == UNCHANGED smoothed /\ strayed' = FALSE

\* The smoother begins where the match has found the vehicle.
InitSmoother == smoothed' = curr /\ strayed' = FALSE

GlobalSucceeds ==
    /\ pc = "global" /\ \E f \in Findings : GlobalLocalization(f)
    /\ success' = TRUE /\ origin' = "global" /\ InitSmoother
    /\ count' = count + 1
    /\ pc' = "verdict"
    /\ UNCHANGED <<world, poses, status, integration, thresh, tries, tracking, path>>

\* The two tests at the end of the relocalization branch.
StillTrying ==
    /\ pc = "verdict" /\ ~success /\ count <= Times
    /\ EndOfLoop
    /\ UNCHANGED <<world, status, integration, registration, tracking, result, path>>

\* Mutant: >= for >.
TimesOut_Early ==
    /\ pc = "verdict" /\ ~success /\ count >= Times
    /\ count' = 0 /\ status' = "RelocalizeFailed"
    /\ ResetGlobalLocalizeFlags /\ path' = 0
    /\ EndOfLoop
    /\ UNCHANGED <<world, success, thresh, tries, tracking, result>>

TimesOut ==
    /\ pc = "verdict" /\ ~success /\ count > Times
    /\ count' = 0 /\ status' = "RelocalizeFailed"
    /\ ResetGlobalLocalizeFlags /\ path' = 0
    /\ EndOfLoop
    /\ UNCHANGED <<world, success, thresh, tries, tracking, result>>

Located ==
    /\ pc = "verdict" /\ success
    /\ count' = 0 /\ tries' = 0 /\ status' = "Normal"
    /\ need' = FALSE /\ wait' = wait + 1 /\ since' = 0
    /\ ResetGlobalLocalizeFlags /\ path' = 0
    /\ EndOfLoop
    /\ UNCHANGED <<world, success, thresh, result>>

\* Tracking: a match is due once wait has come to Period.
Track ==
    /\ pc = "loop" /\ status # "RelocalizeFailed" /\ success
    /\ wait < Period /\ ~need
    /\ wait' = wait + 1 /\ since' = since + 1
    /\ strayed' = (strayed \/ curr # last)
    /\ EndOfLoop
    /\ UNCHANGED <<world, status, integration, registration, need, origin, smoothed, path>>

\* Mutant: the loop of the match itself is counted twice.
MatchDue_OneMore ==
    /\ pc = "loop" /\ status # "RelocalizeFailed" /\ success
    /\ wait >= Period \/ need
    /\ wait' = (IF wait >= Period THEN 0 ELSE wait) + 2
    /\ need' = TRUE /\ since' = 0
    /\ pc' = "match"
    /\ UNCHANGED <<world, poses, status, integration, registration, result, path>>

MatchDue ==
    /\ pc = "loop" /\ status # "RelocalizeFailed" /\ success
    /\ wait >= Period \/ need
    /\ wait' = (IF wait >= Period THEN 0 ELSE wait) + 1
    /\ need' = TRUE /\ since' = 0
    /\ pc' = "match"
    /\ UNCHANGED <<world, poses, status, integration, registration, result, path>>

\* What localize finds: whether GICP converges, with inliers enough, close enough.
Matches == [converged : BOOLEAN, inliers : BOOLEAN, close : BOOLEAN]

LocalizeResult(m) ==
    CASE ~m.converged -> "Failed"
      [] m.converged /\ ~m.inliers -> "Failed"
      [] m.converged /\ m.inliers /\ m.close -> "Normal"
      [] m.converged /\ m.inliers /\ ~m.close -> "LowAccuracy"

LocalizeResults == {LocalizeResult(m) : m \in Matches}

\* smootherMatchResult: its state is moved by the odometry from _last_ to _curr_ ...
Predicted == smoothed + (curr - last)

\* ... and pulled to what was matched, at least half of the way: with prediction
\* noise half of the measurement's (smoother_predict_wrt_meas_weight is 2) the gain
\* falls to one half and no lower.
Halfway(p, q) == IF p >= q THEN q + (p - q) \div 2 ELSE q - (q - p) \div 2

AssignMapToOdom ==
    origin' = "match" /\ smoothed' \in {curr, Halfway(Predicted, curr)} /\ UNCHANGED strayed

KeepMapToOdom == smoothed' = 0 /\ strayed' = FALSE /\ UNCHANGED origin

\* Mutant: a failed match leaves globalLocalizationSuccess_ set.
Match_KeepsSuccess(s) ==
    /\ pc = "match"
    /\ status' = s /\ need' = FALSE
    /\ IF s = "Failed" THEN KeepMapToOdom ELSE AssignMapToOdom
    /\ EndOfLoop
    /\ UNCHANGED <<world, registration, wait, since, integration, path>>

\* localize returns: on Failed the next loop starts over with relocalization.
Match(s) ==
    /\ pc = "match"
    /\ status' = s /\ success' = (s # "Failed") /\ need' = FALSE
    /\ IF s = "Failed" THEN KeepMapToOdom ELSE AssignMapToOdom
    /\ EndOfLoop
    /\ UNCHANGED <<world, count, thresh, tries, wait, since, integration, path>>

-------------------------------------------------------------------------------

Thread ==
    \/ Copy \/ GivenUp \/ Relocalize \/ NoInput \/ FirstPose \/ TooNear \/ Integrate
    \/ Attempt \/ GlobalFails \/ GlobalSucceeds \/ StillTrying \/ TimesOut \/ Located
    \/ Track \/ MatchDue \/ \E s \in LocalizeResults : Match(s)

Next ==
    \/ Thread
    \/ \E s \in Scans, p \in 0..Road : Run(s, p)
    \/ NewSession

Spec == Init /\ [][Next]_vars

\* The LIO thread owes the thread nothing.  The thread runs; and since it does not
\* sleep when the vehicle is near the last pose, it does not for ever miss a
\* vehicle that is again and again away from it.
CopyFar == Distance(pos, last) >= Interval /\ Copy

FairSpec == Spec /\ WF_vars(Thread) /\ SF_vars(CopyFar)

-------------------------------------------------------------------------------
(* Properties.                                                                 *)

\* Between two loops the status and the flag agree: Normal and LowAccuracy are
\* shown only while the thread tracks, with a transform of this very session, and
\* while it relocalizes neither is left over.
StatusTellsSuccess ==
    pc = "top" =>
        /\ success <=> status \in {"Normal", "LowAccuracy"}
        /\ success => origin # "none"

\* RelocalizeFailed comes after Times + 1 failures in a row, counted from the
\* start of the session or from the last success, and not otherwise.
FailedIsEarned ==
    [][status' = "RelocalizeFailed" /\ status # "RelocalizeFailed" => tries = Times + 1]_vars

\* No attempt is made before the vehicle has driven the initial distance and one
\* more unit for each failure, since the last reset of the integration.
AttemptIsEarned ==
    [][pc = "relocate" /\ pc' = "global" => path >= Thresh + tries]_vars

\* Tracking matches every Period loops; after a global success the first match
\* comes no later.
MatchEveryPeriod ==
    [][pc' = "match" /\ pc # "match" =>
         /\ since < Period
         /\ origin = "match" => since + 1 = Period]_vars

\* With exact odometry and exact matches the smoother keeps T_map_odom exact, as long
\* as the vehicle drives in the loops with a match only: it is moved by the way of the
\* last loop, not, as the comment there says, by the way since the last match.
ExactUnlessStrayed ==
    [][pc = "match" /\ pc' = "top" /\ status' # "Failed" /\ ~strayed => smoothed' = curr]_vars

\* With a map, good scans and a vehicle that keeps driving, relocalization ends,
\* in Normal or in RelocalizeFailed.
RelocalizationEnds ==
    (/\ <>[](scan = "good" /\ loaded)
     /\ []<>(pc = "top" /\ Distance(pos, last) >= Interval)) =>
        (status = "Relocalizing" ~> status # "Relocalizing")

==============================================================================
