SPECIFICATION Spec
CONSTANTS
    h1 = h1
    h2 = h2
    p1 = p1
    p2 = p2
    Handle <- OneLidar
    Param <- OneParam
    UserParams <- ListsFirstParam
    Slots = 1
    MaxInfo = 2
PROPERTIES ImuIsAnswered
CHECK_DEADLOCK FALSE
