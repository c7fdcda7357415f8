CONSTANTS
    Callbacks = {}
    MaxSessions = 2
    Timely = TRUE
    CheckDelay = FALSE
    RunResults = {"fresh", "Normal"}
SPECIFICATION Spec
PROPERTY SaveNeedsScan
CHECK_DEADLOCK FALSE
