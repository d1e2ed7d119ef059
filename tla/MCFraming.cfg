SPECIFICATION Spec
CONSTANTS
    l1 = l1
    l2 = l2
    Lidar <- TwoLidars
    Listed <- TwoLidars
    NoLidar = NoLidar
    SyncModes <- Either
    HostEpoch = 20
    Ms = 1
    Interval = 2
    TimeMod = 1024
    OffsetMod = 64
    MaxTime = 4
    MaxGap = 9
    MaxBurst = 1
    MaxRaw = 2
INVARIANTS TypeOK PointsConserved FrameHasItsBase HostPaced
PROPERTIES RotationSettles
CHECK_DEADLOCK FALSE
