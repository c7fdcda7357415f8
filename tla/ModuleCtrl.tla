------------------------------ MODULE ModuleCtrl ------------------------------
(* The control callback of LocalizationModule and the threads that share the   *)
(* session object slam_ with it.                                               *)
(*                                                                             *)
(* slam_ is a plain unique_ptr.  The control callback makes and deletes the    *)
(* object; the LIO thread, the 100 ms health thread and the sensor callbacks   *)
(* read running_module_status_ first and follow the pointer afterwards.        *)
(* Nothing but the status and a few sleeps keeps the two apart.                *)

EXTENDS Naturals, FiniteSets

CONSTANTS
    Callbacks,      \* the sensor callbacks: lidar, imu, wheel
    MaxSessions,    \* bound: how many session objects a behaviour makes
    Timely,         \* the sleep before a release outlasts the calls in progress
    CheckDelay,     \* common.check_delay
    RunResults      \* bound: the outcomes of LidarSlam::run that are explored

ASSUME CallbacksAssumption == Callbacks \cap {"lio", "health"} = {}
ASSUME BoundAssumption == MaxSessions \in Nat
ASSUME SwitchAssumption == Timely \in BOOLEAN /\ CheckDelay \in BOOLEAN
ASSUME ResultAssumption == RunResults \subseteq {"fresh", "Normal", "SyncFailed", "Bad"}

Readers == {"lio", "health"} \cup Callbacks
Users == Readers \ {"health"}

VARIABLES
    status,         \* running_module_status_
    goal,           \* set_status of the last start command
    slam,           \* slam_: the number of the object it points to, 0 for null
    doomed,         \* the object taken out of slam_ and not deleted yet
    alive,          \* the objects that exist
    made,           \* how many objects have been made
    mode,           \* working_mode_ of the newest object
    lio,            \* newest object: "fresh" until filter_processed_first_laser_,
                    \* then its slam_run_status_
    thrd,           \* newest object: local / secmap_relocal_thrd_status_
    how,            \* why the last object was taken away
    ctl,            \* where the control callback is
    why,            \* the reason of the release in progress
    after,          \* what follows that release
    draining,       \* the readers the sleep in progress waits out
    pc,             \* where each reader is
    held,           \* the object each reader is inside of
    seen,           \* the status the health thread has loaded
    lstat, mstat,   \* localization_status_, mapping_status_
    lnode, mnode,   \* local_node_status_, mapping_node_status_
    published,      \* module_status in the last status message
    monitor,        \* monitor_ is there and the executor runs
    fault           \* why the process followed a null or dangling pointer

session == <<status, goal, slam, doomed, alive, made, mode, how>>
object == <<lio, thrd>>
control == <<ctl, why, after, draining>>
readers == <<pc, held, seen>>
shown == <<lstat, mstat, published>>
nodes == <<lnode, mnode>>
vars == <<session, object, control, readers, shown, nodes, monitor, fault>>

Modes == {"MAPPING", "SEC_MAPPING", "LOCALIZATION"}
MappingModes == {"MAPPING", "SEC_MAPPING"}
Statuses == Modes \cup {"IDLE", "STARTING", "STOPPING"}
Reasons == {"stopped", "killed", "replaced", "loadfail"}
LioStates == {"fresh", "Normal", "SyncFailed", "Bad"}
\* LowAccuracy counts as Normal, RelocalizeFailed as Failed: every guard of the
\* module treats the two members of each pair alike.
ThrdStates == {"Inactive", "Relocalizing", "Normal", "Failed"}
MStates == {"Inactive", "Relocalizing", "Standby", "Failed"}
NodeStates == {"Inactive", "Normal", "Delay"}
CtlStates == {"boot", "ready", "idle", "make", "replace", "load", "settle", "node", "save", "drain",
              "release", "delete", "clear", "inactive", "restart"}
UserStates == {"idle", "sawObj", "cleared", "using"}
HealthStates == {"idle", "sawObj", "node", "fillL", "fillL2", "fillM", "pub"}

TypeOK ==
    /\ status \in Statuses
    /\ goal \in Modes /\ mode \in Modes
    /\ made \in Nat /\ slam \in 0..made /\ doomed \in 0..made
    /\ alive \subseteq 1..made
    /\ lio \in LioStates /\ thrd \in ThrdStates
    /\ how \in Reasons \cup {"none"} /\ fault \in Reasons \cup {"none", "null", "boot"}
    /\ ctl \in CtlStates /\ why \in Reasons /\ after \in {"done", "again", "restart"}
    /\ draining \subseteq Readers
    /\ pc \in [Readers -> UserStates \cup HealthStates]
    /\ \A r \in Users : pc[r] \in UserStates
    /\ pc["health"] \in HealthStates
    /\ held \in [Readers -> 0..made]
    /\ seen \in Statuses
    /\ lstat \in ThrdStates /\ mstat \in MStates
    /\ lnode \in NodeStates /\ mnode \in NodeStates /\ monitor \in BOOLEAN
    /\ published \in Modes \cup {"IDLE"}

Init ==
    /\ status = "IDLE" /\ goal = "MAPPING" /\ mode = "MAPPING"
    /\ slam = 0 /\ doomed = 0 /\ alive = {} /\ made = 0
    /\ lio = "fresh" /\ thrd = "Inactive" /\ how = "none"
    /\ ctl = "boot" /\ monitor = FALSE /\ why = "stopped" /\ after = "done" /\ draining = {}
    /\ pc = [r \in Readers |-> "idle"] /\ held = [r \in Readers |-> 0]
    /\ seen = "IDLE"
    /\ lstat = "Inactive" /\ mstat = "Inactive"
    /\ lnode = "Normal" /\ mnode = "Normal"
    /\ published = "IDLE" /\ fault = "none"

-------------------------------------------------------------------------------
(* The readers.                                                                *)

\* Where a reader and the control callback are, in a process that still runs.
On(r, label) == fault = "none" /\ pc[r] = label
At(label) == fault = "none" /\ ctl = label

\* The readers that have passed the status check and will follow the pointer.
Active(r) == pc[r] \notin {"idle", "sawObj"}
ActiveReaders == {r \in Readers : Active(r)}

\* What a reader that meets a null pointer runs into: the object was taken away for
\* some reason, or there has been none yet.
NullFault == IF how = "none" THEN "null" ELSE how

\* slam_->...: the reader is inside the object slam_ points to, or it crashes.
Deref(r) ==
    IF slam = 0 THEN fault' = NullFault /\ UNCHANGED held
                ELSE held' = [held EXCEPT ![r] = slam] /\ UNCHANGED fault

Goto(r, label) == pc' = [pc EXCEPT ![r] = label]

Leave(r) ==
    /\ Goto(r, "idle")
    /\ held' = [held EXCEPT ![r] = 0]
    /\ draining' = draining \ {r}

\* slam_dealt_timer: the LIO thread finds slam_ non-null.
LioSees ==
    /\ On("lio", "idle") /\ slam # 0
    /\ Goto("lio", "sawObj")
    /\ UNCHANGED <<session, object, control, held, seen, shown, nodes, monitor, fault>>

\* The status check of the LIO thread, which runs from create_ROS_IO on, and of the
\* sensor callbacks, which the executor runs.
CheckStatus(r) ==
    /\ On(r, IF r = "lio" THEN "sawObj" ELSE "idle")
    /\ r \in Callbacks => monitor
    /\ IF status \in Modes THEN Goto(r, "cleared") ELSE Goto(r, "idle")
    /\ UNCHANGED <<session, object, control, held, seen, shown, nodes, monitor, fault>>

UseBegin(r) ==
    /\ On(r, "cleared")
    /\ Deref(r)
    /\ Goto(r, "using")
    /\ UNCHANGED <<session, object, control, seen, shown, nodes, monitor>>

\* A callback returns from lidar_pcl_cbk, imu_cbk or wheel_odom_cbk.
CallbackDone(r) ==
    /\ r \in Callbacks /\ On(r, "using")
    /\ Leave(r)
    /\ UNCHANGED <<session, object, ctl, why, after, seen, shown, nodes, monitor, fault>>

\* LidarSlam::run returns.  Until one run has gone through, every outcome leaves
\* filter_processed_first_laser_ false.
RunDone(result) ==
    /\ On("lio", "using")
    /\ lio' = IF held["lio"] # slam THEN lio ELSE result
    /\ result = "fresh" => lio = "fresh"
    /\ result \in {"SyncFailed", "Bad"} => lio # "fresh"
    /\ Leave("lio")
    /\ UNCHANGED <<session, thrd, ctl, why, after, seen, shown, nodes, monitor, fault>>

\* localizationThread, global_localization_for_sec_mapping_thread: the 1 Hz
\* thread of the object stores a new thread status.
WorkerReport(s) ==
    /\ fault = "none" /\ slam # 0 /\ thrd # s
    /\ CASE mode = "LOCALIZATION" ->
              /\ lio # "fresh"
              /\ <<thrd, s>> \in {<<"Inactive", "Relocalizing">>, <<"Relocalizing", "Normal">>,
                                  <<"Relocalizing", "Failed">>, <<"Normal", "Failed">>,
                                  <<"Failed", "Relocalizing">>}
         [] mode = "SEC_MAPPING" ->
              <<thrd, s>> \in {<<"Inactive", "Relocalizing">>, <<"Relocalizing", "Normal">>,
                               <<"Relocalizing", "Failed">>}
         [] OTHER -> FALSE
    /\ thrd' = s
    /\ UNCHANGED <<session, lio, control, readers, shown, nodes, monitor, fault>>

(* pub_module_status_timer, one step per load of slam_.                        *)

HealthSees ==
    /\ On("health", "idle") /\ slam # 0
    /\ Goto("health", "sawObj")
    /\ UNCHANGED <<session, object, control, held, seen, shown, nodes, monitor, fault>>

HealthCheck ==
    /\ On("health", "sawObj")
    /\ seen' = status
    /\ IF status \in Modes THEN Goto("health", "node") ELSE Goto("health", "idle")
    /\ UNCHANGED <<session, object, control, held, shown, nodes, monitor, fault>>

\* Mutant: a heartbeat in time takes the mark back.
HealthNode_Recovers(late) ==
    /\ On("health", "node")
    /\ IF monitor THEN Deref("health") ELSE fault' = "boot" /\ UNCHANGED held
    /\ mnode' = IF seen \in MappingModes THEN (IF late THEN "Delay" ELSE "Normal") ELSE mnode
    /\ lnode' = IF seen = "LOCALIZATION" THEN (IF late THEN "Delay" ELSE "Normal") ELSE lnode
    /\ Goto("health", "fillL")
    /\ UNCHANGED <<session, object, control, seen, shown, monitor>>

\* check_fill_health_msg: a late heartbeat of the object's own thread marks the
\* node status.  Nothing but a start or a stop writes Normal or Inactive again.
\* The load of the processor is asked of monitor_, made or not.
HealthNode(late) ==
    /\ On("health", "node")
    /\ IF monitor THEN Deref("health") ELSE fault' = "boot" /\ UNCHANGED held
    /\ mnode' = IF late /\ seen \in MappingModes THEN "Delay" ELSE mnode
    /\ lnode' = IF late /\ seen = "LOCALIZATION" THEN "Delay" ELSE lnode
    /\ Goto("health", "fillL")
    /\ UNCHANGED <<session, object, control, seen, shown, monitor>>

\* fill_module_l_status up to the first look at the object: in LOCALIZATION the
\* status is set to Normal before anything is known.
FillL ==
    /\ On("health", "fillL")
    /\ IF seen = "LOCALIZATION"
         THEN lstat' = "Normal" /\ Goto("health", "fillL2")
         ELSE lstat' = "Inactive" /\ Goto("health", "fillM")
    /\ UNCHANGED <<session, object, control, held, seen, mstat, published, nodes, monitor, fault>>

Tolerated(node) == IF node = "Delay" /\ ~CheckDelay THEN "Normal" ELSE node

FillLFromObject ==
    /\ On("health", "fillL2")
    /\ Deref("health")
    /\ lstat' = CASE lio = "fresh" -> "Inactive"
                  [] lio # "fresh" /\ Tolerated(lnode) = "Inactive" -> "Inactive"
                  [] lio # "fresh" /\ Tolerated(lnode) = "Normal" -> thrd
                  [] OTHER -> lstat
    /\ Goto("health", "fillM")
    /\ UNCHANGED <<session, object, control, seen, mstat, published, nodes, monitor>>

\* mapping_status_ as the object's state gives it; SyncFailed leaves it alone.
MappingStatusNow ==
    CASE lio = "fresh" -> "Inactive"
      [] lio # "fresh" /\ Tolerated(mnode) = "Inactive" -> "Inactive"
      [] lio # "fresh" /\ Tolerated(mnode) = "Delay" -> "Failed"
      [] lio = "Bad" /\ Tolerated(mnode) = "Normal" -> "Failed"
      [] lio = "Normal" /\ Tolerated(mnode) = "Normal" ->
           IF seen = "MAPPING" \/ thrd = "Normal" THEN "Standby" ELSE thrd
      [] OTHER -> mstat

FillM ==
    /\ On("health", "fillM")
    /\ IF seen \in MappingModes
         THEN /\ Deref("health")
              /\ mstat' = MappingStatusNow
         ELSE /\ mstat' = "Inactive"
              /\ UNCHANGED <<held, fault>>
    /\ Goto("health", "pub")
    /\ UNCHANGED <<session, object, control, seen, lstat, published, nodes, monitor>>

\* The rest of check_fill_module_status_msg and the publication.
Publish ==
    /\ On("health", "pub")
    /\ published' = IF seen = "SEC_MAPPING" THEN "MAPPING" ELSE seen
    /\ fault' = IF slam = 0 THEN NullFault ELSE fault
    /\ Leave("health")
    /\ UNCHANGED <<session, object, ctl, why, after, seen, lstat, mstat, nodes, monitor>>

-------------------------------------------------------------------------------
(* The control callback.  It runs in a callback group of its own: one command  *)
(* at a time.  A command that is refused and changes nothing is no step.       *)

\* Mutant: the status is the one of the session from the beginning.
BeginStart_Running(m) ==
    /\ made < MaxSessions
    /\ status' = m /\ goal' = m
    /\ ctl' = "make"
    /\ UNCHANGED <<slam, doomed, alive, made, mode, how, object, why, draining,
                   readers, shown, nodes, monitor, fault>>

\* The status goes to STARTING and an object for mode m is asked for.
BeginStart(m) ==
    /\ made < MaxSessions
    /\ status' = "STARTING" /\ goal' = m
    /\ ctl' = "make"
    /\ UNCHANGED <<slam, doomed, alive, made, mode, how, object, why, draining,
                   readers, shown, nodes, monitor, fault>>

\* init_module_by_set_status: the constructor starts the session of the
\* configuration; whether it has started is not looked at.
BootSession(m) ==
    /\ At("boot")
    /\ after' = "done"
    /\ BeginStart(m)

\* The constructor ends with monitor_, and main runs the executor.
Booted ==
    /\ ctl \in {"boot", "ready"} /\ fault = "none"
    /\ monitor' = TRUE
    /\ ctl' = "idle"
    /\ UNCHANGED <<session, object, why, after, draining, readers, shown, nodes, fault>>

\* Where a start or a stop returns to: the executor, or the constructor.
Return == ctl' = IF monitor THEN "idle" ELSE "ready"

StartMapping ==
    /\ At("idle") /\ status = "IDLE"
    /\ after' = "done"
    /\ BeginStart("MAPPING")

\* If the map does not load, the callback releases once more: `again'.
StartSecMapping ==
    /\ At("idle") /\ status = "IDLE"
    /\ after' = "again"
    /\ BeginStart("SEC_MAPPING")

StartLocalization ==
    /\ At("idle")
    /\ status = "IDLE" \/ (status = "LOCALIZATION" /\ lstat = "Failed")
    /\ after' = "done"
    /\ BeginStart("LOCALIZATION")

\* make_slam_obj: the new object is made first; the assignment to slam_ then
\* deletes the one it replaces.
Make ==
    /\ At("make")
    /\ made' = made + 1 /\ slam' = made + 1 /\ alive' = alive \cup {made + 1}
    /\ mode' = goal
    /\ lio' = "fresh" /\ thrd' = "Inactive"
    /\ IF slam = 0 THEN doomed' = 0 /\ ctl' = "load" /\ UNCHANGED how
                   ELSE doomed' = slam /\ ctl' = "replace" /\ how' = "replaced"
    /\ UNCHANGED <<status, goal, why, after, draining, readers, shown, nodes, monitor, fault>>

\* delete: whoever is still inside the object is left with a dangling pointer.
DeleteDoomed ==
    /\ alive' = alive \ {doomed}
    /\ doomed' = 0
    /\ fault' = IF doomed # 0 /\ \E r \in Readers : held[r] = doomed THEN how ELSE fault

DeleteReplaced ==
    /\ At("replace")
    /\ DeleteDoomed
    /\ ctl' = "load"
    /\ UNCHANGED <<status, goal, slam, made, mode, how, object, why, after, draining,
                   readers, shown, nodes, monitor>>

\* load_map: only a second mapping session reports a map that does not load.
Load ==
    /\ At("load")
    /\ ctl' = "settle"
    /\ UNCHANGED <<session, object, why, after, draining, readers, shown, nodes, monitor, fault>>

\* The readers active when a sleep begins are the ones it is there for.
BeginDrain(reason) ==
    /\ ctl' = "drain" /\ why' = reason
    /\ draining' = ActiveReaders

\* Mutant: the failed start gives up the status but not the object.
LoadFails_KeepsObject ==
    /\ At("load") /\ goal = "SEC_MAPPING"
    /\ ctl' = "clear" /\ after' = "done"
    /\ UNCHANGED <<session, object, why, draining, readers, shown, nodes, monitor, fault>>

\* Mutant: the failed start returns before it puts the status back.
LoadFails_KeepsStatus ==
    /\ At("load") /\ goal = "SEC_MAPPING"
    /\ ctl' = "idle"
    /\ UNCHANGED <<session, object, why, after, draining, readers, shown, nodes, monitor, fault>>

LoadFails ==
    /\ At("load") /\ goal = "SEC_MAPPING"
    /\ BeginDrain("loadfail")
    /\ UNCHANGED <<session, object, after, readers, shown, nodes, monitor, fault>>

Settle ==
    /\ At("settle")
    /\ status' = goal
    /\ ctl' = "node"
    /\ UNCHANGED <<goal, slam, doomed, alive, made, mode, how, object, why, after, draining,
                   readers, shown, nodes, monitor, fault>>

\* Mutant: second mapping is taken for a localization.
NodeNormal_OnlyMapping ==
    /\ At("node")
    /\ mnode' = IF goal = "MAPPING" THEN "Normal" ELSE mnode
    /\ lnode' = IF goal # "MAPPING" THEN "Normal" ELSE lnode
    /\ Return
    /\ UNCHANGED <<session, object, why, after, draining, readers, shown, monitor, fault>>

NodeNormal ==
    /\ At("node")
    /\ mnode' = IF goal \in MappingModes THEN "Normal" ELSE mnode
    /\ lnode' = IF goal = "LOCALIZATION" THEN "Normal" ELSE lnode
    /\ Return
    /\ UNCHANGED <<session, object, why, after, draining, readers, shown, monitor, fault>>

\* start_second_mapping refuses while a session runs, and the callback answers
\* the refusal with release_slam_obj.
RefuseSecMapping ==
    /\ At("idle") /\ status \in Modes
    /\ after' = "done"
    /\ BeginDrain("killed")
    /\ UNCHANGED <<session, object, readers, shown, nodes, monitor, fault>>

\* Mutant: the callback sleeps and leaves the running status as it is.
BeginStop_StatusLate(next) ==
    /\ after' = next
    /\ BeginDrain("stopped")
    /\ UNCHANGED <<session, object, readers, shown, nodes, monitor, fault>>

\* The status goes to STOPPING, then the callback sleeps.
BeginStop(next) ==
    /\ status' = "STOPPING"
    /\ after' = next
    /\ BeginDrain("stopped")
    /\ UNCHANGED <<goal, slam, doomed, alive, made, mode, how, object, readers, shown,
                   nodes, monitor, fault>>

CancelMapping == At("idle") /\ status \in MappingModes /\ BeginStop("done")

ExitLocalization == At("idle") /\ status = "LOCALIZATION" /\ BeginStop("done")

StartRelocalization ==
    /\ At("idle") /\ status = "LOCALIZATION" /\ made < MaxSessions
    /\ BeginStop("restart")

RestartSecMapping ==
    /\ At("idle") /\ status = "SEC_MAPPING" /\ made < MaxSessions
    /\ BeginStop("restart")

\* Mutant: the map is saved first and the status is never set to STOPPING.
SaveAndEndMapping_NoStopping ==
    /\ At("idle") /\ status \in MappingModes /\ mstat = "Standby"
    /\ ctl' = "save" /\ after' = "done"
    /\ UNCHANGED <<session, object, why, draining, readers, shown, nodes, monitor, fault>>

SaveAndEndMapping ==
    /\ At("idle") /\ status \in MappingModes /\ mstat = "Standby"
    /\ status' = "STOPPING"
    /\ ctl' = "save" /\ after' = "done"
    /\ UNCHANGED <<goal, slam, doomed, alive, made, mode, how, object, why, draining,
                   readers, shown, nodes, monitor, fault>>

\* The map is written, or not: the result is logged and dropped.
Save ==
    /\ At("save")
    /\ BeginDrain("stopped")
    /\ UNCHANGED <<session, object, after, readers, shown, nodes, monitor, fault>>

SleepOver ==
    /\ At("drain")
    /\ Timely => draining = {}
    /\ draining' = {}
    /\ ctl' = "release"
    /\ UNCHANGED <<session, object, why, after, readers, shown, nodes, monitor, fault>>

(* release_slam_obj after its sleep.                                           *)

Release ==
    /\ At("release")
    /\ doomed' = slam /\ slam' = 0
    /\ how' = why
    /\ ctl' = "delete"
    /\ UNCHANGED <<status, goal, alive, made, mode, object, why, after, draining,
                   readers, shown, nodes, monitor, fault>>

Delete ==
    /\ At("delete")
    /\ DeleteDoomed
    /\ ctl' = "clear"
    /\ UNCHANGED <<status, goal, slam, made, mode, how, object, why, after, draining,
                   readers, shown, nodes, monitor>>

ClearStatus ==
    /\ At("clear")
    /\ status' = "IDLE"
    /\ ctl' = "inactive"
    /\ UNCHANGED <<goal, slam, doomed, alive, made, mode, how, object, why, after, draining,
                   readers, shown, nodes, monitor, fault>>

\* Mutant: the second release of a failed start asks for another one.
NodeInactive_Again ==
    /\ At("inactive")
    /\ mnode' = "Inactive" /\ lnode' = "Inactive"
    /\ CASE after = "done" -> Return /\ UNCHANGED <<why, after, draining>>
         [] after = "again" -> BeginDrain("loadfail") /\ UNCHANGED after
         [] after = "restart" -> ctl' = "restart" /\ UNCHANGED <<why, after, draining>>
    /\ UNCHANGED <<session, object, readers, shown, monitor, fault>>

\* The node statuses follow, and what the command does next.
NodeInactive ==
    /\ At("inactive")
    /\ mnode' = "Inactive" /\ lnode' = "Inactive"
    /\ CASE after = "done" -> Return /\ UNCHANGED <<why, after, draining>>
         [] after = "again" -> BeginDrain("loadfail") /\ after' = "done"
         [] after = "restart" -> ctl' = "restart" /\ UNCHANGED <<why, after, draining>>
    /\ UNCHANGED <<session, object, readers, shown, monitor, fault>>

\* The second half of START_RELOCALIZATION and RESTART_SEC_MAPPING.
RestartSession ==
    /\ At("restart")
    /\ after' = "done"
    /\ BeginStart(mode)

-------------------------------------------------------------------------------

Boot == \E m \in Modes : BootSession(m)

Control ==
    \/ Boot
    \/ StartMapping \/ StartSecMapping \/ StartLocalization
    \/ RefuseSecMapping \/ CancelMapping \/ ExitLocalization
    \/ StartRelocalization \/ RestartSecMapping \/ SaveAndEndMapping

Proceed ==
    \/ Booted \/ Make \/ DeleteReplaced \/ Load \/ LoadFails \/ Settle \/ NodeNormal
    \/ Save \/ SleepOver \/ Release \/ Delete \/ ClearStatus \/ NodeInactive
    \/ RestartSession

LioThread == LioSees \/ CheckStatus("lio") \/ UseBegin("lio") \/ \E s \in RunResults : RunDone(s)

HealthThread ==
    \/ HealthSees \/ HealthCheck \/ \E late \in BOOLEAN : HealthNode(late)
    \/ FillL \/ FillLFromObject \/ FillM \/ Publish

Callback(r) == CheckStatus(r) \/ UseBegin(r) \/ CallbackDone(r)

Running == Control \/ Proceed \/ LioThread \/ HealthThread
           \/ (\E r \in Callbacks : Callback(r))
           \/ (\E s \in ThrdStates : WorkerReport(s))

\* After a fault the process is gone.
Crashed == fault # "none" /\ UNCHANGED vars

Next == Running \/ Crashed

Spec == Init /\ [][Next]_vars

\* Every thread of the process is scheduled; commands and sensor messages come
\* when they come, but a callback that has begun goes on.
Fairness ==
    /\ WF_vars(Proceed)
    /\ WF_vars(LioThread)
    /\ WF_vars(HealthThread)
    /\ \A r \in Callbacks : WF_vars(UseBegin(r) \/ CallbackDone(r))

FairSpec == Spec /\ Fairness

-------------------------------------------------------------------------------
(* Properties.                                                                 *)

\* Between two commands the status, the pointer and the heap agree: a running
\* status means one live object, made for that very mode, and IDLE means none.
\* (module_ctrl_callback.cpp, every return path of every command.)
QuiescentConsistent ==
    ctl = "idle" /\ fault = "none" =>
        /\ status \in Modes => slam \in alive /\ alive = {slam} /\ mode = status
        /\ status \notin Modes => status = "IDLE" /\ slam = 0 /\ alive = {}

\* Apart from the two paths that take an object away under its readers, the
\* status check and the sleeps do keep every reader off a released object.
OrderlyRelease == fault \in {"none", "boot", "killed", "replaced"}

\* The session of the configuration is started while the LIO and the health thread
\* already run.  No other trouble comes of it than the health thread meeting a
\* session that runs before monitor_ is there; a module started idle never does.
BootMeetsSession ==
    /\ ~monitor => fault \in {"none", "boot"}
    /\ fault = "boot" => ~monitor /\ status \in Modes /\ alive = {slam} /\ mode = status

\* While a mapping session runs its node status is not Inactive, or
\* fill_module_m_status would pin mapping_status_ there and no save would ever
\* be accepted; the same for localization.
NodeFollowsSession ==
    ctl = "idle" /\ fault = "none" =>
        /\ status \in MappingModes => mnode # "Inactive"
        /\ status = "LOCALIZATION" => lnode # "Inactive"

\* A mapping session of which one heartbeat came late, and was reported so.
ReportedLate ==
    /\ CheckDelay
    /\ ctl = "idle" /\ status \in MappingModes
    /\ mnode = "Delay" /\ mstat # "Standby"

\* With check_delay on, a session that was reported late once stays unsavable,
\* however punctual it is from then on: until another command is accepted nothing
\* marks the node Normal again or reports Standby, and that command is not a save.
\* (localization_module.cpp:356, fill_module_m_status, SAVE_AND_END_MAPPING.)
LateIsFinal == [][ReportedLate => ReportedLate' \/ ctl' \notin {"idle", "save"}]_vars

\* "filter not processed first laser yet, mapping_status == Inactive"
\* (localization_module.cpp:662): a session whose filter has not processed a scan is
\* not Standby, so that no save is accepted of it.
SaveNeedsScan == [][ctl = "idle" /\ ctl' = "save" => lio # "fresh"]_vars

\* The control callback keeps the contract of SessionContract.
Contract == INSTANCE SessionContract WITH
    phase <- IF fault = "none" THEN status ELSE "CRASHED",
    rough <- how \in {"killed", "replaced"},
    booting <- ~monitor

KeepsContract == Contract!Spec

\* A session being started or stopped gets there.
KeepsLiveContract == Contract!LiveSpec

\* Every accepted command comes to its end and the callback takes the next one.
CommandCompletes == (ctl # "idle") ~> (ctl = "idle" \/ fault # "none")

\* "skip, already running mapping now", "skip, running localizing now, please stop
\* localizing first": a session that runs keeps its object; only a stop takes it
\* away, and a stop leaves the running status first.
RunningSessionKept == [][(status \in Modes /\ slam # 0) => (slam' # 0)]_vars

==============================================================================
