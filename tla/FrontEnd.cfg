CONSTANTS
    Modes = {"MAPPING", "LOCALIZATION"}
    Scan = 2
    Pauses = {0}
    Gap = 3
    ImuSteps = {1, 2, 4}
    Back = 1
    MaxImu = 6
    MaxScans = 6
SPECIFICATION Spec
INVARIANTS TypeOK OnlyLateIsMissed SamplesSinceBase
PROPERTIES PoseIsCurrent
CHECK_DEADLOCK FALSE
