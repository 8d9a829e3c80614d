SPECIFICATION FairSpec
CONSTANTS
    Window = 4
    FinAck = 17
    UnsetAcks = {3}
    MallocFails = FALSE
    Available = 2
    MaxNet = 3
    MaxLosses = 1
INVARIANTS NoNeedlessReset StoredInPlace AcknowledgedIsStored NobodyAlone
PROPERTIES Opens Delivers
