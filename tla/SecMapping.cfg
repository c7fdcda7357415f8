CONSTANTS
    MaxLen = 2
    Times = 1
    MaxScans = 2
SPECIFICATION Spec
INVARIANT MapUnderOwnKeyFrames
PROPERTIES Decides
CHECK_DEADLOCK FALSE
