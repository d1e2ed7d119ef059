SPECIFICATION Spec
CONSTANTS
    Handle <- Lidars
    NoHandle = 0
    N = 2
    Looker <- Threads
    Settings <- NodeSettings
    MaxFrames = 2
    MaxImu = 1
    MaxStored = 2
INVARIANTS LidarIdTells
CHECK_DEADLOCK FALSE
