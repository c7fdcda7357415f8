CONSTANTS
    Keep = 2
    UseWheel = TRUE
    Scan = 2
    Gap = 5
    Start = 6
    LidarSteps <- MCLidarSteps
    ImuSteps <- MCImuSteps
    WheelSteps <- MCWheelSteps
    MaxScans = 3
    MaxImu = 5
    MaxWheel = 2
SPECIFICATION Spec
INVARIANTS TypeOK ScansInOrder
PROPERTIES MeasureIsWhole EmptyBackNeedsRollback FrameIsTaken
