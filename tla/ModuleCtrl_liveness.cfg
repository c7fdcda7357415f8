CONSTANTS
    Callbacks = {}
    MaxSessions = 2
    Timely = TRUE
    CheckDelay = TRUE
    RunResults = {"fresh", "Normal"}
SPECIFICATION FairSpec
PROPERTIES KeepsLiveContract CommandCompletes LateIsFinal
CHECK_DEADLOCK FALSE
