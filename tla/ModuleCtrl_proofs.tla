--------------------------- MODULE ModuleCtrl_proofs ---------------------------
(* Theorems about ModuleCtrl, for every set of callbacks, every number of      *)
(* sessions and both values of the two switches; the last one is that the      *)
(* module implements SessionContract.                                          *)

EXTENDS ModuleCtrl, TLAPS

-------------------------------------------------------------------------------
(* Type correctness.                                                           *)

LEMMA InitTypeOK == Init => TypeOK
<1>1. Init => monitor \in BOOLEAN
  BY Zenon DEF Init
<1>2. Init => status \in Statuses /\ slam \in 0..made /\ doomed \in 0..made /\ alive \subseteq 1..made
  BY DEF Init, Statuses
<1>3. Init => pc \in [Readers -> UserStates \cup HealthStates] /\ held \in [Readers -> 0..made]
  BY DEF Init, UserStates
<1>4. Init => (\A r \in Users : pc[r] \in UserStates) /\ pc["health"] \in HealthStates
  BY DEF Init, Users, Readers, UserStates, HealthStates
<1>. QED
  BY <1>1, <1>2, <1>3, <1>4
  DEF Init, TypeOK, Modes, Statuses, LioStates, ThrdStates, MStates, NodeStates, CtlStates, Reasons

\* The types of the variables a reader changes are those of a function from Readers.
LEMMA GotoTypeOK ==
  ASSUME TypeOK, NEW r \in Readers, NEW label \in UserStates \cup HealthStates,
         r \in Users => label \in UserStates, r = "health" => label \in HealthStates,
         Goto(r, label)
  PROVE  /\ pc' \in [Readers -> UserStates \cup HealthStates]
         /\ \A u \in Users : pc'[u] \in UserStates
         /\ pc'["health"] \in HealthStates
  BY DEF TypeOK, Goto, Readers, Users

LEMMA LeaveTypeOK ==
  ASSUME TypeOK, NEW r \in Readers, Leave(r)
  PROVE  /\ pc' \in [Readers -> UserStates \cup HealthStates]
         /\ \A u \in Users : pc'[u] \in UserStates
         /\ pc'["health"] \in HealthStates
         /\ held' \in [Readers -> 0..made]
         /\ draining' \subseteq Readers
  BY DEF TypeOK, Leave, Goto, Readers, Users, UserStates, HealthStates

LEMMA DerefTypeOK ==
  ASSUME TypeOK, NEW r \in Readers, Deref(r)
  PROVE  held' \in [Readers -> 0..made] /\ fault' \in Reasons \cup {"none", "null", "boot"}
  BY DEF TypeOK, Deref, NullFault

LEMMA BeginDrainTypeOK ==
  ASSUME NEW reason \in Reasons, BeginDrain(reason)
  PROVE  ctl' \in CtlStates /\ why' \in Reasons /\ draining' \subseteq Readers
  BY DEF BeginDrain, CtlStates, ActiveReaders

\* TypeOK is not inductive: what is published is what the health thread has seen,
\* and that is a running status only because HealthCheck has let it through.
SeenRuns == pc["health"] \notin {"idle", "sawObj"} => seen \in Modes

TypeInv == TypeOK /\ SeenRuns

\* A step of a reader keeps the types.
LEMMA ReaderTypeOK ==
  ASSUME TypeInv, LioThread \/ HealthThread \/ (\E r \in Callbacks : Callback(r))
  PROVE  TypeOK'
<1>0. TypeOK
  BY DEF TypeInv
<1>1. CASE LioSees
  BY <1>0, <1>1 DEF LioSees, TypeOK, Goto, Readers, Users, UserStates, session, object, control, shown, nodes
<1>2. ASSUME NEW r \in Users, CheckStatus(r)
      PROVE  TypeOK'
  <2>1. pc' \in [Readers -> UserStates \cup HealthStates] /\ (\A u \in Users : pc'[u] \in UserStates)
        /\ pc'["health"] \in HealthStates
    BY <1>0, <1>2, GotoTypeOK, CallbacksAssumption DEF CheckStatus, Readers, Users, UserStates
  <2>. QED
    BY <1>0, <1>2, <2>1 DEF CheckStatus, TypeOK, session, object, control, shown, nodes
<1>3. ASSUME NEW r \in Users, UseBegin(r)
      PROVE  TypeOK'
  <2>1. pc' \in [Readers -> UserStates \cup HealthStates] /\ (\A u \in Users : pc'[u] \in UserStates)
        /\ pc'["health"] \in HealthStates
    BY <1>0, <1>3, GotoTypeOK, CallbacksAssumption DEF UseBegin, Readers, Users, UserStates
  <2>2. held' \in [Readers -> 0..made] /\ fault' \in Reasons \cup {"none", "null", "boot"}
    BY <1>0, <1>3, DerefTypeOK DEF UseBegin, Users
  <2>. QED
    BY <1>0, <1>3, <2>1, <2>2 DEF UseBegin, TypeOK, session, object, control, shown, nodes
<1>4. ASSUME NEW s \in RunResults, RunDone(s)
      PROVE  TypeOK'
  <2>1. "lio" \in Readers
    BY DEF Readers
  <2>2. lio' \in LioStates
    BY <1>0, <1>4, ResultAssumption DEF RunDone, TypeOK, LioStates
  <2>. QED
    BY <1>0, <1>4, <2>1, <2>2, LeaveTypeOK DEF RunDone, TypeOK, session, shown, nodes
<1>5. CASE HealthSees
  BY <1>0, <1>5, GotoTypeOK, CallbacksAssumption
  DEF HealthSees, TypeOK, Readers, Users, HealthStates, session, object, control, shown, nodes
<1>6. CASE HealthCheck
  BY <1>0, <1>6, GotoTypeOK, CallbacksAssumption
  DEF HealthCheck, TypeOK, Readers, Users, HealthStates, session, object, control, shown, nodes
<1>7. ASSUME NEW late \in BOOLEAN, HealthNode(late)
      PROVE  TypeOK'
  BY <1>0, <1>7, GotoTypeOK, DerefTypeOK, CallbacksAssumption
  DEF HealthNode, TypeOK, Readers, Users, HealthStates, NodeStates, session, object, control, shown
<1>8. CASE FillL
  BY <1>0, <1>8, GotoTypeOK, CallbacksAssumption
  DEF FillL, TypeOK, Readers, Users, HealthStates, ThrdStates, session, object, control, nodes
<1>9. CASE FillLFromObject
  <2>1. lstat' \in ThrdStates
    BY <1>0, <1>9 DEF FillLFromObject, TypeOK, ThrdStates
  <2>. QED
    BY <1>0, <1>9, <2>1, GotoTypeOK, DerefTypeOK, CallbacksAssumption
    DEF FillLFromObject, TypeOK, Readers, Users, HealthStates, session, object, control, nodes
<1>10. CASE FillM
  <2>1. MappingStatusNow \in MStates
    BY <1>0 DEF MappingStatusNow, TypeOK, MStates, ThrdStates
  <2>2. mstat' \in MStates
    BY <1>0, <1>10, <2>1 DEF FillM, TypeOK, MStates
  <2>3. held' \in [Readers -> 0..made] /\ fault' \in Reasons \cup {"none", "null", "boot"}
    BY <1>0, <1>10, DerefTypeOK DEF FillM, TypeOK, Readers
  <2>. QED
    BY <1>0, <1>10, <2>2, <2>3, GotoTypeOK, CallbacksAssumption
    DEF FillM, TypeOK, Readers, Users, HealthStates, session, object, control, nodes
<1>11. CASE Publish
  <2>1. published' \in Modes \cup {"IDLE"}
    BY <1>0, <1>11 DEF Publish, TypeInv, SeenRuns, On, Modes
  <2>. QED
    BY <1>0, <1>11, <2>1, LeaveTypeOK DEF Publish, NullFault, TypeOK, Readers, session, object, nodes
<1>12. ASSUME NEW r \in Users, CallbackDone(r)
       PROVE  TypeOK'
  BY <1>0, <1>12, LeaveTypeOK DEF CallbackDone, TypeOK, Users, session, object, shown, nodes
<1>. QED
  BY <1>1, <1>2, <1>3, <1>4, <1>5, <1>6, <1>7, <1>8, <1>9, <1>10, <1>11, <1>12, CallbacksAssumption
  DEF LioThread, HealthThread, Callback, Users, Readers

\* A step of the control callback keeps the types.
LEMMA ControlTypeOK ==
  ASSUME TypeOK, Control \/ Proceed
  PROVE  TypeOK'
<1>. USE DEF TypeOK, At, Modes, MappingModes, Statuses, CtlStates, Reasons, LioStates, ThrdStates,
             NodeStates, session, object, control, readers, shown, nodes
<1>0. CASE Boot \/ Booted
  BY <1>0 DEF Boot, BootSession, BeginStart, Booted
<1>1. CASE StartMapping \/ StartSecMapping \/ StartLocalization
  BY <1>1 DEF StartMapping, StartSecMapping, StartLocalization, BeginStart
<1>2. CASE RefuseSecMapping
  BY <1>2 DEF RefuseSecMapping, BeginDrain, ActiveReaders
<1>3. CASE CancelMapping \/ ExitLocalization
  BY <1>3 DEF CancelMapping, ExitLocalization, BeginStop, BeginDrain, ActiveReaders
<1>4. CASE StartRelocalization \/ RestartSecMapping
  BY <1>4 DEF StartRelocalization, RestartSecMapping, BeginStop, BeginDrain, ActiveReaders
<1>5. CASE SaveAndEndMapping
  BY <1>5 DEF SaveAndEndMapping
<1>6. CASE Make
  BY <1>6 DEF Make
<1>7. CASE DeleteReplaced
  BY <1>7 DEF DeleteReplaced, DeleteDoomed
<1>8. CASE Load
  BY <1>8 DEF Load
<1>9. CASE LoadFails \/ Save
  BY <1>9 DEF LoadFails, Save, BeginDrain, ActiveReaders
<1>10. CASE Settle
  BY <1>10 DEF Settle
<1>11. CASE NodeNormal
  BY <1>11 DEF NodeNormal, Return
<1>12. CASE SleepOver
  BY <1>12 DEF SleepOver
<1>13. CASE Release
  BY <1>13 DEF Release
<1>14. CASE Delete
  BY <1>14 DEF Delete, DeleteDoomed
<1>15. CASE ClearStatus
  BY <1>15 DEF ClearStatus
<1>16. CASE NodeInactive
  <2>1. CASE after = "done"
    BY <1>16, <2>1 DEF NodeInactive, Return
  <2>2. CASE after = "again"
    BY <1>16, <2>2 DEF NodeInactive, BeginDrain, ActiveReaders
  <2>3. CASE after = "restart"
    BY <1>16, <2>3 DEF NodeInactive
  <2>. QED
    BY <2>1, <2>2, <2>3
<1>17. CASE RestartSession
  BY <1>17 DEF RestartSession, BeginStart
<1>. QED
  BY <1>0, <1>1, <1>2, <1>3, <1>4, <1>5, <1>6, <1>7, <1>8, <1>9, <1>10, <1>11, <1>12, <1>13,
     <1>14, <1>15, <1>16, <1>17 DEF Control, Proceed

\* The thread of the object changes its status only.
LEMMA WorkerTypeOK ==
  ASSUME TypeOK, NEW s \in ThrdStates, WorkerReport(s)
  PROVE  TypeOK'
  BY DEF WorkerReport, TypeOK, session, control, readers, shown, nodes

LEMMA SeenRunsStep ==
  ASSUME TypeInv, Running
  PROVE  SeenRuns'
<1>. USE DEF TypeInv, SeenRuns
<1>1. CASE HealthThread
  BY <1>1 DEF HealthThread, HealthSees, HealthCheck, HealthNode, FillL, FillLFromObject, FillM,
              Publish, On, Goto, Leave, TypeOK, Readers
<1>2. ASSUME NEW r \in Users, r # "health",
             CheckStatus(r) \/ UseBegin(r) \/ CallbackDone(r) \/ (\E s \in RunResults : RunDone(s))
                \/ LioSees
      PROVE  SeenRuns'
  BY <1>2 DEF CheckStatus, UseBegin, CallbackDone, RunDone, LioSees, Goto, Leave, TypeOK, Readers
<1>3. CASE LioThread \/ (\E r \in Callbacks : Callback(r))
  <2>1. "lio" \in Users /\ Callbacks \subseteq Users \ {"health"}
    BY CallbacksAssumption DEF Users, Readers
  <2>2. CASE LioThread
    BY <1>2, <2>1, <2>2 DEF LioThread
  <2>3. CASE \E r \in Callbacks : Callback(r)
    BY <1>2, <2>1, <2>3 DEF Callback
  <2>. QED
    BY <1>3, <2>2, <2>3
<1>4. CASE Control \/ Proceed \/ (\E s \in ThrdStates : WorkerReport(s))
  <2>1. UNCHANGED <<pc, seen>>
    BY <1>4 DEF Control, Boot, BootSession, Booted, StartMapping, StartSecMapping, StartLocalization, BeginStart,
                RefuseSecMapping, CancelMapping, ExitLocalization, StartRelocalization,
                RestartSecMapping, BeginStop, SaveAndEndMapping, Proceed, Make, DeleteReplaced,
                Load, LoadFails, Settle, NodeNormal, Save, SleepOver, Release, Delete,
                ClearStatus, NodeInactive, RestartSession, WorkerReport, readers
  <2>. QED
    BY <2>1
<1>. QED
  BY <1>1, <1>3, <1>4 DEF Running

\* Every variable of ModuleCtrl has its type in every reachable state.
THEOREM TypeCorrect == Spec => []TypeOK
<1>1. Init => TypeInv
  BY InitTypeOK DEF Init, TypeInv, SeenRuns, Readers
<1>2. TypeInv /\ [Next]_vars => TypeInv'
  <2>1. CASE Running
    BY <2>1, ReaderTypeOK, ControlTypeOK, WorkerTypeOK, SeenRunsStep DEF Running, TypeInv
  <2>2. CASE UNCHANGED vars
    BY <2>2 DEF TypeInv, TypeOK, SeenRuns, vars, session, object, control, readers, shown, nodes
  <2>. QED
    BY <2>1, <2>2 DEF Next, Crashed
<1>3. TypeInv => TypeOK
  BY DEF TypeInv
<1>. QED
  BY <1>1, <1>2, <1>3, PTL DEF Spec

-------------------------------------------------------------------------------
(* The control callback, step by step.                                         *)

\* At rest the status tells whether there is an object.
AtRest ==
    /\ doomed = 0
    /\ status \in Modes => slam # 0 /\ alive = {slam} /\ mode = status
    /\ status \notin Modes => status = "IDLE" /\ slam = 0 /\ alive = {}

NoObject == slam = 0 /\ doomed = 0 /\ alive = {}
OneObject == slam # 0 /\ doomed = 0 /\ alive = {slam}
OnlySlam == NoObject \/ OneObject

\* QuiescentConsistent speaks of the callback at rest; this is what holds at
\* every one of its steps on the way there.
CtlInv ==
    /\ ctl \in {"boot", "ready", "idle"} => AtRest
    /\ ctl = "boot" => status = "IDLE"
    /\ ctl = "make" => status = "STARTING" /\ OnlySlam
    /\ ctl = "replace" =>
         /\ status = "STARTING" /\ mode = goal
         /\ slam # 0 /\ doomed # 0 /\ doomed # slam /\ alive = {slam, doomed}
    /\ ctl \in {"load", "settle"} => status = "STARTING" /\ OneObject /\ mode = goal
    /\ ctl = "node" => status = goal /\ OneObject /\ mode = goal
    /\ ctl = "save" => status = "STOPPING" /\ OnlySlam
    /\ ctl \in {"drain", "release"} => OnlySlam
    /\ ctl = "delete" => slam = 0 /\ (IF doomed = 0 THEN alive = {} ELSE alive = {doomed})
    /\ ctl = "clear" => NoObject
    /\ ctl \in {"inactive", "restart"} => status = "IDLE" /\ NoObject

\* Whatever is not the control callback leaves the session and the callback alone.
LEMMA OthersKeepSession ==
  ASSUME \/ LioThread \/ HealthThread
         \/ (\E r \in Callbacks : Callback(r))
         \/ (\E s \in ThrdStates : WorkerReport(s))
         \/ UNCHANGED vars
  PROVE  UNCHANGED <<session, ctl, why, after, monitor>>
  BY DEF LioThread, LioSees, CheckStatus, UseBegin, RunDone, HealthThread, HealthSees, HealthCheck,
         HealthNode, FillL, FillLFromObject, FillM, Publish, Callback, CallbackDone, WorkerReport,
         session, control, vars

LEMMA CtlInvInit == Init => CtlInv
  BY DEF Init, CtlInv, AtRest, Modes

\* Each step of the callback establishes what holds at the label it goes to.
LEMMA CtlInvControl ==
  ASSUME TypeOK, CtlInv, Control \/ Proceed
  PROVE  CtlInv'
<1>. USE DEF CtlInv, AtRest, NoObject, OneObject, OnlySlam, At, session, Modes
<1>0. CASE Boot \/ Booted
  BY <1>0 DEF Boot, BootSession, BeginStart, Booted
<1>1. CASE StartMapping \/ StartSecMapping \/ StartLocalization
  BY <1>1 DEF StartMapping, StartSecMapping, StartLocalization, BeginStart
<1>2. CASE RefuseSecMapping
  BY <1>2 DEF RefuseSecMapping, BeginDrain
<1>3. CASE CancelMapping \/ ExitLocalization \/ StartRelocalization \/ RestartSecMapping
  BY <1>3 DEF CancelMapping, ExitLocalization, StartRelocalization, RestartSecMapping, BeginStop,
              BeginDrain, MappingModes
<1>4. CASE SaveAndEndMapping
  BY <1>4 DEF SaveAndEndMapping, MappingModes
<1>5. CASE Make
  <2>1. slam' # 0 /\ slam' # slam /\ slam' \notin alive
    BY <1>5 DEF Make, TypeOK
  <2>2. CASE slam = 0
    <3>1. alive = {}
      BY <1>5, <2>2 DEF Make
    <3>2. status = "STARTING" /\ status' = status /\ ctl' = "load" /\ alive' = {slam'}
          /\ doomed' = 0 /\ mode' = goal /\ goal' = goal
      BY <1>5, <2>2, <3>1 DEF Make
    <3>. QED
      BY <2>1, <3>2
  <2>3. CASE slam # 0
    <3>1. alive = {slam}
      BY <1>5, <2>3 DEF Make
    <3>2. status = "STARTING" /\ status' = status /\ ctl' = "replace" /\ alive' = {slam', doomed'}
          /\ doomed' = slam /\ mode' = goal /\ goal' = goal
      BY <1>5, <2>3, <3>1 DEF Make
    <3>. QED
      BY <2>1, <2>3, <3>2
  <2>. QED
    BY <2>2, <2>3
<1>6. CASE DeleteReplaced
  BY <1>6 DEF DeleteReplaced, DeleteDoomed
<1>7. CASE Load
  BY <1>7 DEF Load
<1>8. CASE LoadFails \/ Save
  BY <1>8 DEF LoadFails, Save, BeginDrain
<1>9. CASE Settle
  BY <1>9 DEF Settle, TypeOK
<1>10. CASE NodeNormal
  BY <1>10 DEF NodeNormal, Return, TypeOK
<1>11. CASE SleepOver
  BY <1>11 DEF SleepOver
<1>12. CASE Release
  BY <1>12 DEF Release
<1>13. CASE Delete
  BY <1>13 DEF Delete, DeleteDoomed
<1>14. CASE ClearStatus
  BY <1>14 DEF ClearStatus
<1>15. CASE NodeInactive
  <2>1. /\ ctl' \in {"ready", "idle", "drain", "restart"}
        /\ UNCHANGED session /\ ctl = "inactive"
    BY <1>15 DEF NodeInactive, BeginDrain, Return, TypeOK
  <2>. QED
    BY <2>1
<1>16. CASE RestartSession
  BY <1>16 DEF RestartSession, BeginStart
<1>. QED
  BY <1>0, <1>1, <1>2, <1>3, <1>4, <1>5, <1>6, <1>7, <1>8, <1>9, <1>10, <1>11, <1>12, <1>13,
     <1>14, <1>15, <1>16 DEF Control, Proceed

LEMMA CtlInvStep ==
  ASSUME TypeOK, CtlInv, [Next]_vars
  PROVE  CtlInv'
<1>1. CASE Control \/ Proceed
  BY <1>1, CtlInvControl
<1>2. CASE ~(Control \/ Proceed)
  <2>1. UNCHANGED <<session, ctl, why, after>>
    BY <1>2, OthersKeepSession DEF Next, Running, Crashed
  <2>. QED
    BY <2>1 DEF CtlInv, AtRest, NoObject, OneObject, OnlySlam, session
<1>. QED
  BY <1>1, <1>2

\* The step invariants, together: the proofs below add to them.
THEOREM StepInvariant == Spec => []CtlInv
<1>1. Init => CtlInv
  BY CtlInvInit
<1>2. TypeOK /\ CtlInv /\ [Next]_vars => CtlInv'
  BY CtlInvStep
<1>. QED
  BY <1>1, <1>2, TypeCorrect, PTL DEF Spec

\* Between two commands the status, the pointer and the heap agree: a running
\* status means one live object of that mode, IDLE means none.
\* (module_ctrl_callback.cpp, every return path of every command.)
THEOREM Consistent == Spec => []QuiescentConsistent
<1>1. CtlInv => QuiescentConsistent
  BY DEF CtlInv, AtRest, QuiescentConsistent
<1>. QED
  BY <1>1, StepInvariant, PTL

-------------------------------------------------------------------------------
(* What the module reports.                                                    *)

\* What an Inactive node status would do to a running session is excluded at every
\* point where the callback takes commands, crashed or not.
NodeInv ==
    ctl \in {"boot", "ready", "idle"} =>
        /\ status \in MappingModes => mnode # "Inactive"
        /\ status = "LOCALIZATION" => lnode # "Inactive"

\* While a session runs its node status is not Inactive: NodeNormal has set it,
\* and only the end of a session takes it back.  (fill_module_m_status.)
THEOREM NodesFollow == Spec => []NodeFollowsSession
<1>1. Init => NodeInv
  BY DEF Init, NodeInv, MappingModes
<1>2. TypeOK /\ CtlInv /\ NodeInv /\ [Next]_vars => NodeInv'
  <2>. SUFFICES ASSUME TypeOK, CtlInv, NodeInv, [Next]_vars
                PROVE  NodeInv'
    OBVIOUS
  <2>. USE DEF NodeInv, MappingModes
  <2>1. CASE NodeNormal
    BY <2>1 DEF NodeNormal, Return, CtlInv, At, TypeOK, Modes, session
  <2>2. CASE NodeInactive
    BY <2>2 DEF NodeInactive, Return, CtlInv, At, TypeOK, session, BeginDrain
  <2>3. ASSUME NEW late \in BOOLEAN, HealthNode(late)
        PROVE  NodeInv'
    BY <2>3 DEF HealthNode, session, control
  <2>6. CASE Booted
    BY <2>6 DEF Booted, session, nodes
  <2>4. CASE Control \/ (Proceed /\ ~NodeNormal /\ ~NodeInactive /\ ~Booted)
    <3>1. ctl' \notin {"boot", "ready", "idle"}
      BY <2>4 DEF Control, Boot, BootSession, Booted, StartMapping, StartSecMapping, StartLocalization, BeginStart,
                  RefuseSecMapping, CancelMapping, ExitLocalization, BeginStop, BeginDrain,
                  StartRelocalization, RestartSecMapping, SaveAndEndMapping, Proceed, Make,
                  DeleteReplaced, Load, LoadFails, Settle, Save, SleepOver, Release, Delete,
                  ClearStatus, RestartSession
    <3>. QED
      BY <3>1
  <2>5. CASE ~(Control \/ Proceed \/ (\E late \in BOOLEAN : HealthNode(late)))
    <3>1. UNCHANGED <<session, ctl>>
      BY <2>5, OthersKeepSession DEF Next, Running, Crashed
    <3>2. UNCHANGED nodes
      BY <2>5 DEF Next, Running, Crashed, LioThread, LioSees, CheckStatus, UseBegin, RunDone,
                  HealthThread, HealthSees, HealthCheck, FillL, FillLFromObject, FillM, Publish,
                  Callback, CallbackDone, WorkerReport, vars
    <3>. QED
      BY <3>1, <3>2 DEF session, nodes
  <2>. QED
    BY <2>1, <2>2, <2>3, <2>4, <2>5, <2>6
<1>3. NodeInv => NodeFollowsSession
  BY DEF NodeInv, NodeFollowsSession
<1>. QED
  BY <1>1, <1>2, <1>3, TypeCorrect, StepInvariant, PTL DEF Spec

\* A session that was reported late once stays unsavable until another command is
\* accepted, and that command is not a save: NodeNormal is the only step that writes
\* Normal, and it belongs to a start.  (check_fill_health_msg, fill_module_m_status.)
THEOREM LateStays == Spec => LateIsFinal
<1>1. TypeOK /\ CtlInv /\ [Next]_vars => (ReportedLate => ReportedLate' \/ ctl' \notin {"idle", "save"})
  <2>. SUFFICES ASSUME TypeOK, CtlInv, [Next]_vars, ReportedLate, ctl' \in {"idle", "save"}
                PROVE  ReportedLate'
    OBVIOUS
  <2>. USE DEF ReportedLate
  <2>1. CASE FillM
    <3>1. MappingStatusNow # "Standby"
      BY DEF MappingStatusNow, Tolerated, TypeOK, NodeStates
    <3>. QED
      BY <2>1, <3>1 DEF FillM, session, nodes, control
  <2>2. ASSUME NEW late \in BOOLEAN, HealthNode(late)
        PROVE  ReportedLate'
    BY <2>2 DEF HealthNode, session, control, shown
  <2>3. CASE Control \/ Proceed
    <3>1. Control
      BY <2>3 DEF Proceed, Booted, Make, DeleteReplaced, Load, LoadFails, Settle, NodeNormal, Save,
                  SleepOver, Release, Delete, ClearStatus, NodeInactive, RestartSession, At
    <3>2. ctl' \notin {"idle", "save"}
      BY <3>1 DEF Control, Boot, BootSession, StartMapping, StartSecMapping, StartLocalization,
                  BeginStart, RefuseSecMapping, CancelMapping, ExitLocalization, BeginStop, BeginDrain,
                  StartRelocalization, RestartSecMapping, SaveAndEndMapping
    <3>. QED
      BY <3>2
  <2>4. CASE ~(Control \/ Proceed \/ FillM \/ (\E late \in BOOLEAN : HealthNode(late)))
    <3>1. UNCHANGED <<session, ctl>>
      BY <2>4, OthersKeepSession DEF Next, Running, Crashed
    <3>2. UNCHANGED <<nodes, mstat>>
      BY <2>4 DEF Next, Running, Crashed, LioThread, LioSees, CheckStatus, UseBegin, RunDone,
                  HealthThread, HealthSees, HealthCheck, FillL, FillLFromObject, Publish,
                  Callback, CallbackDone, WorkerReport, shown, vars
    <3>. QED
      BY <3>1, <3>2 DEF session, nodes
  <2>. QED
    BY <2>1, <2>2, <2>3, <2>4
<1>. QED
  BY <1>1, TypeCorrect, StepInvariant, PTL DEF Spec, LateIsFinal

-------------------------------------------------------------------------------
(* The release of an object under its readers.                                 *)

NoReader == \A r \in Readers : ~Active(r)

\* A reader that has passed the status check is either inside of the object of
\* slam_, or on its way to it; the sleep before an orderly release has waited it
\* out, and no other can pass the check meanwhile.
ReleaseInv ==
    /\ \A r \in Readers : held[r] # 0 => Active(r)
    /\ slam = 0 /\ (status \in Modes \/ ~NoReader) => how = "killed"
    /\ ctl = "drain" /\ why # "killed" =>
         status \notin Modes /\ \A r \in Readers : Active(r) => r \in draining
    /\ ctl \in {"release", "delete"} /\ why # "killed" => status \notin Modes /\ NoReader
    /\ ctl = "delete" => how = why
    /\ ctl = "replace" => how = "replaced"
    /\ OrderlyRelease

LEMMA ReleaseInvInit == Init => ReleaseInv
  BY DEF Init, ReleaseInv, OrderlyRelease, NoReader, Active, Modes

\* What the step of one reader does to the others, to the drain and to the fault.
ReaderMoves(r) ==
    /\ \A q \in Readers \ {r} : pc'[q] = pc[q] /\ held'[q] = held[q]
    /\ pc[r] \in {"idle", "sawObj"} /\ pc'[r] \notin {"idle", "sawObj"} => status \in Modes
    /\ held'[r] # 0 => pc'[r] \notin {"idle", "sawObj"}
    /\ draining' = draining \/ (draining' = draining \ {r} /\ pc'[r] = "idle")
    /\ \/ fault' = fault
       \/ pc[r] \notin {"idle", "sawObj"} /\ (fault' = "boot" \/ (slam = 0 /\ fault' = NullFault))

\* Every step of a thread or a callback is the move of one reader.
LEMMA ReaderStepMoves ==
  ASSUME TypeOK, \A r \in Readers : held[r] # 0 => Active(r),
         LioThread \/ HealthThread \/ (\E r \in Callbacks : Callback(r))
  PROVE  \E r \in Readers : ReaderMoves(r)
<1>. USE DEF On, Goto, Leave, Deref, TypeOK, Active, ReaderMoves
<1>1. ASSUME NEW r \in Users, CheckStatus(r) \/ UseBegin(r) \/ CallbackDone(r)
      PROVE  ReaderMoves(r)
  <2>1. CASE CheckStatus(r)
    BY <2>1 DEF CheckStatus, Users, control
  <2>2. CASE UseBegin(r)
    BY <2>2 DEF UseBegin, Users, control
  <2>3. CASE CallbackDone(r)
    BY <2>3 DEF CallbackDone, Users
  <2>. QED
    BY <1>1, <2>1, <2>2, <2>3
<1>2. ASSUME LioSees \/ (\E s \in RunResults : RunDone(s)) PROVE ReaderMoves("lio")
  BY <1>2 DEF LioSees, RunDone, Readers, control
<1>3. ASSUME HealthThread PROVE ReaderMoves("health")
  <2>1. CASE HealthSees \/ HealthCheck
    BY <2>1 DEF HealthSees, HealthCheck, Readers, control
  <2>2. CASE \E late \in BOOLEAN : HealthNode(late)
    BY <2>2 DEF HealthNode, Readers, control
  <2>3. CASE FillL \/ FillLFromObject
    BY <2>3 DEF FillL, FillLFromObject, Readers, control
  <2>4. CASE FillM \/ Publish
    BY <2>4 DEF FillM, Publish, Readers, control
  <2>. QED
    BY <1>3, <2>1, <2>2, <2>3, <2>4 DEF HealthThread
<1>4. CASE HealthThread
  BY <1>3, <1>4, Zenon DEF Readers
<1>5. CASE LioThread
  BY <1>1, <1>2, <1>5, Zenon DEF LioThread, Readers, Users
<1>6. CASE \E r \in Callbacks : Callback(r)
  BY <1>1, <1>6, CallbacksAssumption DEF Callback, Readers, Users
<1>. QED
  BY <1>4, <1>5, <1>6

\* A reader that moves on is active after its step only if it was before, or if it
\* has just found a running status; and it finds a null pointer only after a kill.
LEMMA ReleaseInvReader ==
  ASSUME TypeOK, ReleaseInv, LioThread \/ HealthThread \/ (\E r \in Callbacks : Callback(r))
  PROVE  ReleaseInv'
<1>1. PICK r \in Readers : ReaderMoves(r)
  BY ReaderStepMoves DEF ReleaseInv
<1>2. UNCHANGED <<session, ctl, why, after>>
  BY OthersKeepSession
<1>3. \A q \in Readers : Active(q)' => Active(q) \/ status \in Modes
  BY <1>1 DEF Active, ReaderMoves
<1>4. fault' \in {"none", "boot", "killed", "replaced"}
  BY <1>1 DEF ReleaseInv, OrderlyRelease, NoReader, Active, ReaderMoves, NullFault
<1>5. \A q \in Readers : held'[q] # 0 => Active(q)'
  BY <1>1 DEF ReleaseInv, Active, ReaderMoves
<1>6. slam = 0 /\ (status \in Modes \/ ~NoReader') => how = "killed"
  BY <1>3 DEF ReleaseInv, NoReader
<1>7. ctl = "drain" /\ why # "killed" =>
        status \notin Modes /\ \A q \in Readers : Active(q)' => q \in draining'
  BY <1>1, <1>3 DEF ReleaseInv, Active, ReaderMoves
<1>8. ctl \in {"release", "delete"} /\ why # "killed" => status \notin Modes /\ NoReader'
  BY <1>3 DEF ReleaseInv, NoReader
<1>. QED
  BY <1>2, <1>4, <1>5, <1>6, <1>7, <1>8 DEF ReleaseInv, OrderlyRelease, session, Modes

\* The steps of the control callback do not move a reader.
LEMMA ReleaseInvControl ==
  ASSUME Timely, TypeOK, CtlInv, ReleaseInv, Control \/ Proceed
  PROVE  ReleaseInv'
<1>. USE DEF ReleaseInv, OrderlyRelease, At, session, readers, Modes
<1>0. UNCHANGED <<pc, held>>
  BY DEF Control, Boot, BootSession, Booted, StartMapping, StartSecMapping, StartLocalization, BeginStart,
         RefuseSecMapping, CancelMapping, ExitLocalization, StartRelocalization,
         RestartSecMapping, BeginStop, SaveAndEndMapping, Proceed, Make, DeleteReplaced,
         Load, LoadFails, Settle, NodeNormal, Save, SleepOver, Release, Delete,
         ClearStatus, NodeInactive, RestartSession
<1>15. (\A r \in Readers : Active(r)' <=> Active(r)) /\ (NoReader' <=> NoReader)
  BY <1>0 DEF Active, NoReader
<1>16. \A r \in Readers : held'[r] # 0 => Active(r)'
  BY <1>0, <1>15
<1>17. CASE Boot \/ Booted
  BY <1>17, <1>15, <1>16 DEF Boot, BootSession, BeginStart, Booted
<1>1. CASE StartMapping \/ StartSecMapping \/ StartLocalization \/ RestartSession
  BY <1>1, <1>15, <1>16 DEF StartMapping, StartSecMapping, StartLocalization, RestartSession, BeginStart
<1>2. CASE RefuseSecMapping
  BY <1>2, <1>15, <1>16 DEF RefuseSecMapping, BeginDrain
<1>3. CASE CancelMapping \/ ExitLocalization \/ StartRelocalization \/ RestartSecMapping
  BY <1>3, <1>15, <1>16 DEF CancelMapping, ExitLocalization, StartRelocalization, RestartSecMapping,
                          BeginStop, BeginDrain, ActiveReaders
<1>4. CASE SaveAndEndMapping
  BY <1>4, <1>15, <1>16 DEF SaveAndEndMapping
<1>5. CASE Make
  BY <1>5, <1>15, <1>16 DEF Make, TypeOK
<1>6. CASE DeleteReplaced
  BY <1>6, <1>15, <1>16 DEF DeleteReplaced, DeleteDoomed
<1>7. CASE Load \/ NodeNormal
  BY <1>7, <1>15, <1>16 DEF Load, NodeNormal, Return
<1>8. CASE LoadFails \/ Save
  BY <1>8, <1>15, <1>16 DEF LoadFails, Save, BeginDrain, ActiveReaders, CtlInv
<1>9. CASE Settle
  BY <1>9, <1>15, <1>16 DEF Settle, CtlInv, OneObject
<1>10. CASE SleepOver
  BY <1>10, <1>15, <1>16 DEF SleepOver, NoReader
<1>11. CASE Release
  BY <1>11, <1>15, <1>16 DEF Release
<1>12. CASE Delete
  <2>1. why # "killed" => \A r \in Readers : held[r] = 0
    BY <1>12 DEF Delete, NoReader
  <2>2. fault' \in {"none", "boot", "killed", "replaced"}
    BY <1>12, <2>1 DEF Delete, DeleteDoomed
  <2>. QED
    BY <1>12, <2>2, <1>15, <1>16 DEF Delete, DeleteDoomed
<1>13. CASE ClearStatus
  BY <1>13, <1>15, <1>16 DEF ClearStatus
<1>14. CASE NodeInactive
  <2>1. status = "IDLE" /\ UNCHANGED <<session, fault>>
    BY <1>14 DEF NodeInactive, CtlInv
  <2>2. \/ ctl' \in {"ready", "idle", "restart"}
        \/ ctl' = "drain" /\ draining' = ActiveReaders
    BY <1>14 DEF NodeInactive, BeginDrain, Return, TypeOK
  <2>. QED
    BY <2>1, <2>2, <1>15, <1>16 DEF ActiveReaders
<1>. QED
  BY <1>1, <1>2, <1>3, <1>4, <1>5, <1>6, <1>7, <1>8, <1>9, <1>10, <1>11, <1>12, <1>13, <1>14,
     <1>17 DEF Control, Proceed

LEMMA ReleaseInvStep ==
  ASSUME Timely, TypeOK, CtlInv, ReleaseInv, [Next]_vars
  PROVE  ReleaseInv'
<1>1. CASE (\E s \in ThrdStates : WorkerReport(s)) \/ UNCHANGED vars
  BY <1>1 DEF WorkerReport, ReleaseInv, OrderlyRelease, NoReader, Active, session, control, readers, vars
<1>. QED
  BY <1>1, ReleaseInvReader, ReleaseInvControl DEF Next, Running, Crashed

\* If the sleep before a release outlasts the calls in progress, then apart from a
\* refused START_SEC_MAPPING and a restarted localization no reader ever follows
\* slam_ to a released object.  (release_slam_obj, stop_mapping, stop_localization.)
THEOREM Orderly == ASSUME Timely PROVE Spec => []OrderlyRelease
<1>1. Init => ReleaseInv
  BY ReleaseInvInit
<1>2. TypeOK /\ CtlInv /\ ReleaseInv /\ [Next]_vars => ReleaseInv'
  BY ReleaseInvStep
<1>3. ReleaseInv => OrderlyRelease
  BY DEF ReleaseInv
<1>. QED
  BY <1>1, <1>2, <1>3, TypeCorrect, StepInvariant, PTL DEF Spec

-------------------------------------------------------------------------------
(* The start of the configuration.                                             *)

\* Until monitor_ is there, only the session of the configuration is made, and a
\* reader passes the status check only when that session runs for good.
BootInv ==
    /\ ctl \in {"boot", "ready"} => ~monitor
    /\ ~monitor =>
         /\ ctl \in {"boot", "make", "load", "settle", "node", "ready",
                     "drain", "release", "delete", "clear", "inactive"}
         /\ after = "done" /\ fault \in {"none", "boot"}
         /\ ctl = "make" => slam = 0
         /\ ctl \in {"drain", "release", "delete", "clear", "inactive"} => status \notin Modes
         /\ status \notin Modes => NoReader
         /\ \A r \in Readers : held[r] # 0 => Active(r)
    /\ fault = "boot" => ~monitor /\ status \in Modes

LEMMA BootInvReader ==
  ASSUME TypeOK, CtlInv, BootInv, LioThread \/ HealthThread \/ (\E r \in Callbacks : Callback(r))
  PROVE  BootInv'
<1>1. UNCHANGED <<session, ctl, why, after, monitor>>
  BY OthersKeepSession
  DEF LioThread, LioSees, CheckStatus, UseBegin, RunDone, HealthThread, HealthSees, HealthCheck,
      HealthNode, FillL, FillLFromObject, FillM, Publish, Callback, CallbackDone
<1>2. fault = "none"
  BY DEF LioThread, LioSees, CheckStatus, UseBegin, RunDone, HealthThread, HealthSees, HealthCheck,
         HealthNode, FillL, FillLFromObject, FillM, Publish, Callback, CallbackDone, On
<1>3. CASE monitor
  <2>1. fault' # "boot"
    BY <1>2, <1>3
    DEF LioThread, LioSees, CheckStatus, UseBegin, RunDone, HealthThread, HealthSees, HealthCheck,
        HealthNode, FillL, FillLFromObject, FillM, Publish, Callback, CallbackDone, Deref,
        NullFault, TypeOK, Reasons
  <2>. QED
    BY <1>1, <1>3, <2>1 DEF BootInv, session
<1>4. CASE ~monitor
  <2>1. PICK r \in Readers : ReaderMoves(r)
    BY <1>4, ReaderStepMoves DEF BootInv
  <2>2. status \notin Modes => NoReader'
    BY <1>4, <2>1 DEF BootInv, NoReader, Active, ReaderMoves
  <2>3. \A q \in Readers : held'[q] # 0 => Active(q)'
    BY <1>4, <2>1 DEF BootInv, Active, ReaderMoves
  <2>4. fault' = "boot" => status \in Modes
    BY <1>2, <1>4, <2>1 DEF BootInv, NoReader, Active, ReaderMoves
  <2>5. fault' \in {"none", "boot"}
    BY <1>2, <1>4, <2>1 DEF BootInv, CtlInv, AtRest, OneObject, NoReader, Active, ReaderMoves, Modes
  <2>. QED
    BY <1>1, <1>4, <2>2, <2>3, <2>4, <2>5 DEF BootInv, session, Modes
<1>. QED
  BY <1>3, <1>4

LEMMA BootInvControl ==
  ASSUME TypeOK, CtlInv, BootInv, Control \/ Proceed
  PROVE  BootInv'
<1>. USE DEF BootInv, At, session, readers, Modes
<1>0. UNCHANGED <<pc, held>>
  BY DEF Control, Boot, BootSession, Booted, StartMapping, StartSecMapping, StartLocalization,
         BeginStart, RefuseSecMapping, CancelMapping, ExitLocalization, StartRelocalization,
         RestartSecMapping, BeginStop, SaveAndEndMapping, Proceed, Make, DeleteReplaced,
         Load, LoadFails, Settle, NodeNormal, Save, SleepOver, Release, Delete,
         ClearStatus, NodeInactive, RestartSession
<1>15. (\A r \in Readers : Active(r)' <=> Active(r)) /\ (NoReader' <=> NoReader)
  BY <1>0 DEF Active, NoReader
<1>16. (\A r \in Readers : held[r] # 0 => Active(r)) =>
         \A r \in Readers : held'[r] # 0 => Active(r)'
  BY <1>0, <1>15
<1>1. CASE Boot
  BY <1>1, <1>15, <1>16 DEF Boot, BootSession, BeginStart, CtlInv, AtRest
<1>2. CASE Booted
  BY <1>2, <1>15, <1>16 DEF Booted
<1>3. CASE Control /\ ~Boot
  BY <1>3, <1>15, <1>16
  DEF Control, StartMapping, StartSecMapping, StartLocalization, BeginStart, RefuseSecMapping,
      CancelMapping, ExitLocalization, BeginStop, BeginDrain, StartRelocalization,
      RestartSecMapping, SaveAndEndMapping
<1>4. CASE Make
  BY <1>4, <1>15, <1>16 DEF Make, CtlInv
<1>5. CASE DeleteReplaced
  BY <1>5, <1>15, <1>16 DEF DeleteReplaced, DeleteDoomed, CtlInv, TypeOK, Reasons
<1>6. CASE Load \/ Save
  BY <1>6, <1>15, <1>16 DEF Load, Save, BeginDrain
<1>7. CASE LoadFails
  BY <1>7, <1>15, <1>16 DEF LoadFails, BeginDrain, CtlInv
<1>8. CASE Settle
  BY <1>8, <1>15, <1>16 DEF Settle, TypeOK
<1>9. CASE NodeNormal
  BY <1>9, <1>15, <1>16 DEF NodeNormal, Return
<1>10. CASE SleepOver \/ Release \/ ClearStatus
  BY <1>10, <1>15, <1>16 DEF SleepOver, Release, ClearStatus
<1>11. CASE Delete
  <2>1. fault' # "boot"
    BY <1>11 DEF Delete, DeleteDoomed, TypeOK, Reasons
  <2>2. ~monitor => fault' = "none"
    BY <1>11 DEF Delete, DeleteDoomed, NoReader
  <2>. QED
    BY <1>11, <2>1, <2>2, <1>15, <1>16 DEF Delete
<1>12. CASE NodeInactive
  <2>1. \/ ctl' = (IF monitor THEN "idle" ELSE "ready") /\ UNCHANGED <<session, after, fault, monitor>>
        \/ ctl' \in {"drain", "restart"} /\ monitor /\ UNCHANGED <<session, fault, monitor>>
    BY <1>12 DEF NodeInactive, Return, BeginDrain, TypeOK
  <2>. QED
    BY <1>12, <2>1, <1>15, <1>16 DEF NodeInactive
<1>13. CASE RestartSession
  BY <1>13, <1>15, <1>16 DEF RestartSession, BeginStart
<1>. QED
  BY <1>1, <1>2, <1>3, <1>4, <1>5, <1>6, <1>7, <1>8, <1>9, <1>10, <1>11, <1>12, <1>13
  DEF Control, Proceed

LEMMA BootInvStep ==
  ASSUME TypeOK, CtlInv, BootInv, [Next]_vars
  PROVE  BootInv'
<1>1. CASE (\E s \in ThrdStates : WorkerReport(s)) \/ UNCHANGED vars
  BY <1>1 DEF WorkerReport, BootInv, NoReader, Active, session, control, readers, vars
<1>. QED
  BY <1>1, BootInvReader, BootInvControl DEF Next, Running, Crashed

LEMMA BootInvariant == Spec => []BootInv
<1>1. Init => BootInv
  BY DEF Init, BootInv, NoReader, Active, Modes
<1>2. TypeOK /\ CtlInv /\ BootInv /\ [Next]_vars => BootInv'
  BY BootInvStep
<1>. QED
  BY <1>1, <1>2, TypeCorrect, StepInvariant, PTL DEF Spec

\* The start of a session from the configuration goes wrong in one way only: the
\* health thread, which runs already, meets the session before monitor_ is there.
\* (LocalizationModule::LocalizationModule, check_fill_health_msg.)
THEOREM BootMeets == Spec => []BootMeetsSession
<1>1. TypeOK /\ CtlInv /\ BootInv => BootMeetsSession
  <2>. SUFFICES ASSUME TypeOK, CtlInv, BootInv PROVE BootMeetsSession
    OBVIOUS
  <2>1. fault = "boot" => ctl \in {"node", "ready"}
    BY DEF BootInv, CtlInv, AtRest, Modes
  <2>2. fault = "boot" => alive = {slam} /\ mode = status
    BY <2>1 DEF BootInv, CtlInv, AtRest, OneObject
  <2>. QED
    BY <2>2 DEF BootMeetsSession, BootInv
<1>. QED
  BY <1>1, BootInvariant, TypeCorrect, StepInvariant, PTL

-------------------------------------------------------------------------------
(* The control callback and its threads implement SessionContract.             *)

\* What the steps of a release need besides CtlInv and ReleaseInv: the reason of
\* the release tells the status it finds, and only a map that does not load is
\* released twice.
RefInv ==
    /\ ctl = "make" /\ slam # 0 => goal = "LOCALIZATION"
    /\ ctl \in {"drain", "release", "delete", "clear"} =>
         \/ why = "killed" /\ status \in Modes
         \/ why = "stopped" /\ status = "STOPPING"
         \/ /\ why = "loadfail" /\ goal = "SEC_MAPPING"
            /\ status = "STARTING" \/ (status = "IDLE" /\ how = "loadfail")
    /\ ctl \in {"drain", "release", "delete", "clear"} /\ after = "again" => why = "loadfail"
    /\ ctl = "save" => after = "done"
    /\ ctl = "clear" => how = why
    /\ ctl = "inactive" /\ after = "again" => how = "loadfail" /\ goal = "SEC_MAPPING"

LEMMA RefInvInit == Init => RefInv
  BY DEF Init, RefInv

\* The steps of the control callback keep RefInv.
LEMMA RefInvControl ==
  ASSUME TypeOK, CtlInv, ReleaseInv, RefInv, Control \/ Proceed
  PROVE  RefInv'
<1>. USE DEF RefInv, CtlInv, At, session
<1>0. CASE Boot \/ Booted
  BY <1>0 DEF Boot, BootSession, BeginStart, Booted, AtRest, Modes
<1>1. CASE StartMapping \/ StartSecMapping \/ StartLocalization \/ RestartSession
  BY <1>1 DEF StartMapping, StartSecMapping, StartLocalization, RestartSession, BeginStart,
              AtRest, NoObject, Modes
<1>2. CASE RefuseSecMapping
  BY <1>2 DEF RefuseSecMapping, BeginDrain
<1>3. CASE CancelMapping \/ ExitLocalization \/ StartRelocalization \/ RestartSecMapping
  BY <1>3 DEF CancelMapping, ExitLocalization, StartRelocalization, RestartSecMapping,
              BeginStop, BeginDrain
<1>4. CASE SaveAndEndMapping \/ Save
  BY <1>4 DEF SaveAndEndMapping, Save, BeginDrain
<1>5. CASE LoadFails
  BY <1>5 DEF LoadFails, BeginDrain
<1>6. CASE Make \/ DeleteReplaced \/ Load \/ Settle \/ NodeNormal
  BY <1>6 DEF Make, DeleteReplaced, Load, Settle, NodeNormal, Return
<1>7. CASE SleepOver \/ Release
  BY <1>7 DEF SleepOver, Release
<1>8. CASE Delete
  BY <1>8 DEF Delete, ReleaseInv
<1>9. CASE ClearStatus
  BY <1>9 DEF ClearStatus
<1>10. CASE NodeInactive
  <2>1. UNCHANGED session /\ status = "IDLE" /\ ctl = "inactive"
    BY <1>10 DEF NodeInactive
  <2>2. \/ after = "done" /\ ctl' \in {"ready", "idle"}
        \/ after = "again" /\ ctl' = "drain" /\ why' = "loadfail" /\ after' = "done"
        \/ after = "restart" /\ ctl' = "restart"
    BY <1>10 DEF NodeInactive, Return, BeginDrain, TypeOK
  <2>. QED
    BY <2>1, <2>2
<1>. QED
  BY <1>0, <1>1, <1>2, <1>3, <1>4, <1>5, <1>6, <1>7, <1>8, <1>9, <1>10 DEF Control, Proceed

LEMMA RefInvStep ==
  ASSUME TypeOK, CtlInv, ReleaseInv, RefInv, [Next]_vars
  PROVE  RefInv'
<1>1. CASE Control \/ Proceed
  BY <1>1, RefInvControl
<1>2. CASE ~(Control \/ Proceed)
  <2>1. UNCHANGED <<session, ctl, why, after>>
    BY <1>2, OthersKeepSession DEF Next, Running, Crashed
  <2>. QED
    BY <2>1 DEF RefInv, session
<1>. QED
  BY <1>1, <1>2

LEMMA ContractInit == Init => Contract!Init
  BY DEF Init, Contract!Init, Modes

\* A step that faults is a crash of the contract: it takes no object away, and the
\* object it misses was taken away under its readers, or monitor_ is still missing.
LEMMA FaultIsCrash ==
  ASSUME TypeOK, ReleaseInv', BootInv', [Next]_vars, fault = "none", fault' # "none"
  PROVE  Contract!Crash
<1>1. UNCHANGED <<status, goal, how, monitor>> /\ fault' \in {how, "null", "boot"}
  <2>1. CASE LioThread \/ HealthThread \/ (\E r \in Callbacks : Callback(r))
             \/ (\E s \in ThrdStates : WorkerReport(s)) \/ UNCHANGED vars
    <3>1. UNCHANGED session
      BY <2>1, OthersKeepSession
    <3>2. UNCHANGED monitor /\ fault' \in {how, "null", "boot"}
      BY <2>1 DEF LioThread, LioSees, CheckStatus, UseBegin, RunDone, HealthThread, HealthSees,
                  HealthCheck, HealthNode, FillL, FillLFromObject, FillM, Publish, Callback,
                  CallbackDone, WorkerReport, Deref, NullFault, vars
    <3>. QED
      BY <3>1, <3>2 DEF session
  <2>2. CASE DeleteReplaced \/ Delete
    BY <2>2 DEF DeleteReplaced, Delete, DeleteDoomed
  <2>3. CASE Control \/ RestartSession
    BY <2>3 DEF Control, Boot, BootSession, StartMapping, StartSecMapping, StartLocalization, BeginStart,
                RefuseSecMapping, CancelMapping, ExitLocalization, StartRelocalization,
                RestartSecMapping, BeginStop, SaveAndEndMapping, RestartSession
  <2>4. CASE Booted \/ Make \/ Load \/ LoadFails \/ Settle \/ NodeNormal \/ Save \/ SleepOver \/ Release
             \/ ClearStatus \/ NodeInactive
    BY <2>4 DEF Booted, Make, Load, LoadFails, Settle, NodeNormal, Save, SleepOver, Release, ClearStatus,
                NodeInactive
  <2>. QED
    BY <2>1, <2>2, <2>3, <2>4 DEF Next, Running, Crashed, Proceed
<1>2. how \in {"killed", "replaced"} \/ (~monitor /\ status \in Modes)
  <2>1. CASE fault' = "boot"
    BY <1>1, <2>1 DEF BootInv
  <2>2. CASE fault' # "boot"
    BY <1>1, <2>2 DEF ReleaseInv, OrderlyRelease
  <2>. QED
    BY <2>1, <2>2
<1>3. status # "CRASHED"
  BY DEF TypeOK, Statuses, Modes
<1>. QED
  BY <1>1, <1>2, <1>3 DEF Contract!Crash

\* Without a fault each step of the callback is one of the contract, or none.
LEMMA ControlIsContract ==
  ASSUME TypeOK, CtlInv, BootInv, ReleaseInv, RefInv, fault = "none", fault' = "none", Control \/ Proceed
  PROVE  Contract!Next \/ UNCHANGED <<status, goal, how, monitor>>
<1>. USE DEF At
<1>0. CASE Booted
  <2>1. Contract!Booted
    BY <1>0 DEF Booted, CtlInv, AtRest, BootInv, Contract!Booted, session
  <2>. QED
    BY <2>1 DEF Contract!Next
<1>1. CASE Boot \/ StartMapping \/ StartSecMapping \/ RestartSession
  <2>1. PICK m \in Modes : status = "IDLE" /\ BeginStart(m)
    BY <1>1 DEF Boot, BootSession, StartMapping, StartSecMapping, RestartSession, Modes, CtlInv, TypeOK
  <2>2. Contract!Start(m)
    BY <2>1 DEF BeginStart, Contract!Start
  <2>. QED
    BY <2>2 DEF Contract!Next
<1>2. CASE StartLocalization
  <2>1. CASE status = "IDLE"
    <3>1. Contract!Start("LOCALIZATION")
      BY <1>2, <2>1 DEF StartLocalization, BeginStart, Contract!Start
    <3>. QED
      BY <3>1 DEF Contract!Next, Modes
  <2>2. CASE status = "LOCALIZATION"
    <3>1. Contract!Restart
      BY <1>2, <2>2 DEF StartLocalization, BeginStart, Contract!Restart
    <3>. QED
      BY <3>1 DEF Contract!Next
  <2>. QED
    BY <1>2, <2>1, <2>2 DEF StartLocalization
<1>3. CASE CancelMapping \/ ExitLocalization \/ StartRelocalization \/ RestartSecMapping
           \/ SaveAndEndMapping
  <2>1. Contract!Stop
    BY <1>3 DEF CancelMapping, ExitLocalization, StartRelocalization, RestartSecMapping,
                BeginStop, SaveAndEndMapping, MappingModes, Modes, Contract!Stop
  <2>. QED
    BY <2>1 DEF Contract!Next
<1>4. CASE Make
  <2>1. CASE slam = 0
    BY <1>4, <2>1 DEF Make
  <2>2. CASE slam # 0
    <3>1. Contract!Replace
      BY <1>4, <2>2 DEF Make, CtlInv, RefInv, Contract!Replace
    <3>. QED
      BY <3>1 DEF Contract!Next
  <2>. QED
    BY <2>1, <2>2
<1>5. CASE Settle
  <2>1. Contract!StartDone
    BY <1>5 DEF Settle, CtlInv, Contract!StartDone
  <2>. QED
    BY <2>1 DEF Contract!Next
<1>6. CASE Release
  <2>1. CASE why = "killed"
    <3>1. Contract!Tear
      BY <1>6, <2>1 DEF Release, RefInv, Contract!Tear, Modes
    <3>. QED
      BY <3>1 DEF Contract!Next
  <2>2. CASE why # "killed" /\ status # "IDLE"
    <3>1. Contract!Quiesce
      BY <1>6, <2>2 DEF Release, RefInv, Contract!Quiesce
    <3>. QED
      BY <3>1 DEF Contract!Next
  <2>3. CASE why # "killed" /\ status = "IDLE"
    BY <1>6, <2>3 DEF Release, RefInv
  <2>. QED
    BY <2>1, <2>2, <2>3
<1>7. CASE ClearStatus
  <2>1. CASE why = "killed"
    <3>1. Contract!TearDone
      BY <1>7, <2>1 DEF ClearStatus, RefInv, Contract!TearDone
    <3>. QED
      BY <3>1 DEF Contract!Next
  <2>2. CASE why = "stopped"
    <3>1. Contract!StopDone
      BY <1>7, <2>2 DEF ClearStatus, RefInv, Contract!StopDone
    <3>. QED
      BY <3>1 DEF Contract!Next
  <2>3. CASE why = "loadfail" /\ status = "STARTING"
    <3>1. Contract!StartFail
      BY <1>7, <2>3 DEF ClearStatus, RefInv, Contract!StartFail
    <3>. QED
      BY <3>1 DEF Contract!Next
  <2>4. CASE why = "loadfail" /\ status = "IDLE"
    BY <1>7, <2>4 DEF ClearStatus
  <2>. QED
    BY <1>7, <2>1, <2>2, <2>3, <2>4 DEF ClearStatus, RefInv
<1>8. CASE RefuseSecMapping \/ DeleteReplaced \/ Load \/ LoadFails \/ NodeNormal \/ Save
           \/ SleepOver \/ Delete \/ NodeInactive
  BY <1>8 DEF RefuseSecMapping, DeleteReplaced, Load, LoadFails, NodeNormal, Return, Save,
              SleepOver, Delete, NodeInactive, session
<1>. QED
  BY <1>0, <1>1, <1>2, <1>3, <1>4, <1>5, <1>6, <1>7, <1>8 DEF Control, Proceed

LEMMA ContractStep ==
  ASSUME TypeOK, CtlInv, BootInv, BootInv', ReleaseInv, ReleaseInv', RefInv, [Next]_vars
  PROVE  [Contract!Next]_(Contract!vars)
<1>1. CASE fault # "none"
  <2>1. UNCHANGED vars
    BY <1>1 DEF Next, Running, Crashed, Control, Proceed, LioThread, HealthThread, Callback,
                Boot, BootSession, BeginStart, Booted, StartMapping, StartSecMapping, StartLocalization, RefuseSecMapping, CancelMapping,
                ExitLocalization, StartRelocalization, RestartSecMapping, SaveAndEndMapping,
                Make, DeleteReplaced, Load, LoadFails, Settle, NodeNormal, Save, SleepOver,
                Release, Delete, ClearStatus, NodeInactive, RestartSession, LioSees, CheckStatus,
                UseBegin, RunDone, HealthSees, HealthCheck, HealthNode, FillL, FillLFromObject,
                FillM, Publish, CallbackDone, WorkerReport, At, On
  <2>. QED
    BY <2>1 DEF vars, session, Contract!vars
<1>2. CASE fault = "none" /\ fault' # "none"
  BY <1>2, FaultIsCrash DEF Contract!Next
<1>3. CASE fault = "none" /\ fault' = "none"
  <2>1. Contract!Next \/ UNCHANGED <<status, goal, how, monitor>>
    <3>1. CASE Control \/ Proceed
      BY <1>3, <3>1, ControlIsContract
    <3>2. CASE ~(Control \/ Proceed)
      BY <3>2, OthersKeepSession DEF Next, Running, Crashed, session
    <3>. QED
      BY <3>1, <3>2
  <2>. QED
    BY <2>1, <1>3 DEF Contract!vars
<1>. QED
  BY <1>1, <1>2, <1>3

\* If the sleep before a release outlasts the calls in progress, the module keeps
\* the contract of its control topic: what it shows of a session is what
\* SessionContract allows, and it crashes only once an object was taken away by a
\* refused START_SEC_MAPPING or by a restarted localization.
THEOREM Refinement == ASSUME Timely PROVE Spec => KeepsContract
<1>1. Init => RefInv
  BY RefInvInit
<1>2. TypeOK /\ CtlInv /\ ReleaseInv /\ RefInv /\ [Next]_vars => RefInv'
  BY RefInvStep
<1>3. Init => ReleaseInv
  BY ReleaseInvInit
<1>4. TypeOK /\ CtlInv /\ ReleaseInv /\ [Next]_vars => ReleaseInv'
  BY ReleaseInvStep
<1>5. Init => Contract!Init
  BY ContractInit
<1>6. TypeOK /\ CtlInv /\ BootInv /\ BootInv' /\ ReleaseInv /\ ReleaseInv' /\ RefInv /\ [Next]_vars
        => [Contract!Next]_(Contract!vars)
  BY ContractStep
<1>. QED
  BY <1>1, <1>2, <1>3, <1>4, <1>5, <1>6, TypeCorrect, StepInvariant, BootInvariant, PTL
  DEF Spec, KeepsContract, Contract!Spec
==============================================================================
