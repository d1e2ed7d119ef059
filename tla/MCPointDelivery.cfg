SPECIFICATION Spec
CONSTANTS
    N = 2
    Capacity = 2
    DelayedStores <- BothMachines
INVARIANTS TypeOK SemaphoreBinary NoLostWakeup
PROPERTIES Drains JoinReturns
