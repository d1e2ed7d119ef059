SPECIFICATION Spec
CONSTANTS
    l1 = l1
    l2 = l2
    Lidar <- OneLidar
    Listed <- OneLidar
    NoLidar = NoLidar
    SyncModes <- Synced
    HostEpoch = 0
    Ms = 2
    Interval = 7
    TimeMod = 1024
    OffsetMod = 16
    MaxTime = 24
    MaxGap = 2
    MaxBurst = 1
    MaxRaw = 1
INVARIANTS SpanBounded OffsetsAddUp
PROPERTIES FramesApart
CHECK_DEADLOCK FALSE
