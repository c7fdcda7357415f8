CONSTANTS
    Axes = 2
    MinUnbalanced = 2
    VoxelSize = 2
    Width = 3
    MaxSteps = 3
    CubeLen = 26
    DetRange = 2
    NumMatch = 2
    MaxIter = 4
    MaxStride = 3
    Strides <- MCStrides
    MaxMoves = 5
    MaxDt = 2
    MaxTime = 5
    Measures <- MCMeasures
    Rings = 2
    RingGap = 3
    SearchRadius = 1
    NumCandidates = 2
    MaxWalls = 3
    CloudSizeToKeep = 2
    Reach = 2
    RingParts = 2
    MostPicked = 2
    ColumnJump = 3
    DepthJump = 3
    EdgeCurvature = 9
    Slots = 24
    Columns = 3
    RingSize = 9
    Messages <- MCMessages
    Scans <- MCScans
    Ranges = {20, 22}
SPECIFICATION Spec
INVARIANTS TreeIsExact UpdateEnds MapFollows MeasureIsTaken GuessFits PreprocFits
CHECK_DEADLOCK FALSE
