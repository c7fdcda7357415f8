CONSTANTS
    Callbacks = {}
    MaxSessions = 1
    Timely = TRUE
    CheckDelay = FALSE
    RunResults = {"fresh", "Normal", "SyncFailed", "Bad"}
SPECIFICATION Spec
PROPERTY RunningSessionKept
