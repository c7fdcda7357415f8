CONSTANTS
    Loaded = 2
    Skip = 0
    MaxKeyFrames = 4
SPECIFICATION Spec
INVARIANTS KeyFramesAligned EdgesJoinKeyFrames FaultsNeedOverlap SavedMapIsWhole
PROPERTY MatchedOnce
CHECK_DEADLOCK FALSE
