SPECIFICATION Spec
CONSTANTS
    Window = 2
    FinAck = 17
    UnsetAcks = {2}
    MallocFails = TRUE
    Available = 2
    MaxSeq = 3
    MaxControls = 3
INVARIANTS AcksWhatItHas SentInPlace
PROPERTY LivesThroughPhases
