--------------------------- MODULE SessionContract ---------------------------
(* What the localization module promises to the clients of its control topic,  *)
(* without its threads, its object pointer or its sleeps: the life of a        *)
(* session as running_module_status_ shows it.                                 *)
(*                                                                             *)
(* The two paths on which the code takes a session object away without first   *)
(* turning its readers off are visible here as `rough', and the time before    *)
(* the module is whole as `booting'.  A process that goes through none of them *)
(* with a session never crashes; that is the promise.                          *)

CONSTANT Modes        \* what a session can be started for

VARIABLES
    phase,            \* running_module_status_, or "CRASHED"
    goal,             \* the mode the last start command asked for
    rough,            \* the last object was taken away under its readers
    booting           \* the constructor of the module has not ended

vars == <<phase, goal, rough, booting>>

Phases == Modes \cup {"IDLE", "STARTING", "STOPPING", "CRASHED"}

TypeOK ==
    /\ phase \in Phases
    /\ goal \in Modes
    /\ rough \in BOOLEAN
    /\ booting \in BOOLEAN

Init ==
    /\ phase = "IDLE"
    /\ goal \in Modes
    /\ rough = FALSE
    /\ booting = TRUE

\* The module has started, idle or in the session its configuration asks for.
Booted ==
    /\ booting /\ phase \in Modes \cup {"IDLE"}
    /\ booting' = FALSE
    /\ UNCHANGED <<phase, goal, rough>>

\* A start command accepted while no session runs.
Start(m) ==
    /\ phase = "IDLE"
    /\ phase' = "STARTING"
    /\ goal' = m
    /\ UNCHANGED <<rough, booting>>

\* START_LOCALIZATION on a failed localization session.
Restart ==
    /\ phase = "LOCALIZATION"
    /\ phase' = "STARTING"
    /\ goal' = "LOCALIZATION"
    /\ UNCHANGED <<rough, booting>>

\* The old object goes while the restarted session is being made.
Replace ==
    /\ phase = "STARTING" /\ goal = "LOCALIZATION"
    /\ rough' = TRUE
    /\ UNCHANGED <<phase, goal, booting>>

StartDone ==
    /\ phase = "STARTING"
    /\ phase' = goal
    /\ UNCHANGED <<goal, rough, booting>>

\* Only a second mapping session can fail to start: its map does not load.
StartFail ==
    /\ phase = "STARTING" /\ goal = "SEC_MAPPING"
    /\ phase' = "IDLE"
    /\ UNCHANGED <<goal, rough, booting>>

Stop ==
    /\ phase \in Modes
    /\ phase' = "STOPPING"
    /\ UNCHANGED <<goal, rough, booting>>

\* The object goes after every reader has left it.
Quiesce ==
    /\ phase \in {"STARTING", "STOPPING"}
    /\ rough' = FALSE
    /\ UNCHANGED <<phase, goal, booting>>

StopDone ==
    /\ phase = "STOPPING"
    /\ phase' = "IDLE"
    /\ UNCHANGED <<goal, rough, booting>>

\* A refused START_SEC_MAPPING releases the object of the running session.
Tear ==
    /\ phase \in Modes
    /\ rough' = TRUE
    /\ UNCHANGED <<phase, goal, booting>>

TearDone ==
    /\ phase \in Modes /\ rough
    /\ phase' = "IDLE"
    /\ UNCHANGED <<goal, rough, booting>>

\* A reader follows a null or dangling pointer.
Crash ==
    /\ phase # "CRASHED"
    /\ rough \/ (booting /\ phase \in Modes)
    /\ phase' = "CRASHED"
    /\ UNCHANGED <<goal, rough, booting>>

Next ==
    \/ \E m \in Modes : Start(m)
    \/ Restart \/ Replace \/ StartDone \/ StartFail
    \/ Stop \/ Quiesce \/ StopDone \/ Booted
    \/ Tear \/ TearDone \/ Crash

Spec == Init /\ [][Next]_vars

\* A session that is being started or stopped does not stay so.
LiveSpec == Spec /\ WF_vars(StartDone \/ StartFail) /\ WF_vars(StopDone)

==============================================================================
