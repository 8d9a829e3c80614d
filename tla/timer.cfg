SPECIFICATION TimerSpec
CONSTANTS
    MaxTimers = 3
    InitialRto = 3
    Period = 2
    MaxSegments = 4
    MaxTime = 11
INVARIANTS EachHasOne TimeoutStays
PROPERTIES SweepsHalf SampleIsReal
CHECK_DEADLOCK FALSE
