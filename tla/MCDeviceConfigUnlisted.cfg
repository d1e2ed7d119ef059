SPECIFICATION Spec
CONSTANTS
    h1 = h1
    h2 = h2
    p1 = p1
    p2 = p2
    Handle <- BothLidars
    Param <- OneParam
    UserParams <- ListsNone
    Slots = 1
    MaxInfo = 2
INVARIANTS TypeOK
PROPERTIES ReachesNormalMode
CHECK_DEADLOCK FALSE
