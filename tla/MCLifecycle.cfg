SPECIFICATION Spec
CONSTANTS
    N = 2
    MaxImu = 2
    Sources <- RawAndOther
    LidarTypes <- LivoxAndNone
    RingSize = 1
    MaxNodes = 2
INVARIANTS TypeOK NoLostImu ExitIsFinal SetUpOnce NothingOutlives
PROPERTIES JoinsReturn ImuDrains
CHECK_DEADLOCK FALSE
