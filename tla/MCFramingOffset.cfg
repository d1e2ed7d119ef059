SPECIFICATION Spec
CONSTANTS
    l1 = l1
    l2 = l2
    Lidar <- OneLidar
    Listed <- OneLidar
    NoLidar = NoLidar
    SyncModes <- Synced
    HostEpoch = 0
    Ms = 1
    Interval = 3
    TimeMod = 1024
    OffsetMod = 7
    MaxTime = 15
    MaxGap = 12
    MaxBurst = 1
    MaxRaw = 1
INVARIANTS OffsetsAddUp
CHECK_DEADLOCK FALSE
