SPECIFICATION Spec
CONSTANTS
    Size = 4
    IdxMod = 8
    MaxFrames = 10
    Hz = 10
INVARIANTS TypeOK SlotExclusive NoTornFrame CreatedBeforeUse HeldInOrder IInv RingHoldsASecond
PROPERTIES ImplementsFifo
CHECK_DEADLOCK FALSE
