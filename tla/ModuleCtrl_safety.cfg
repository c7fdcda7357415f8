CONSTANTS
    Callbacks = {"imu"}
    MaxSessions = 2
    Timely = TRUE
    CheckDelay = FALSE
    RunResults = {"fresh", "Normal", "SyncFailed"}
SPECIFICATION Spec
INVARIANTS BootMeetsSession QuiescentConsistent OrderlyRelease NodeFollowsSession
PROPERTY KeepsContract
