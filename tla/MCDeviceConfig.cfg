SPECIFICATION Spec
CONSTANTS
    h1 = h1
    h2 = h2
    p1 = p1
    p2 = p2
    Handle <- OneLidar
    Param <- Params
    UserParams <- ListsFirst
    Slots = 1
    MaxInfo = 2
INVARIANTS SamplingIsConfigured BitsOutstanding
PROPERTIES ReachesSampling
CHECK_DEADLOCK FALSE
