SPECIFICATION FairSpec
CONSTANTS
    s = s
    g = g
    r = r
    Stations = {s, g}
    Remote = {r}
    Gateway = g
    CacheSize = 3
    RecvBuffers = 2
    SendBuffers = 3
    MaxFrames = 2
INVARIANTS HangsOnlyByLoss LastRequestCounts RingInStep
PROPERTY ConnectsInTheEnd
CHECK_DEADLOCK FALSE
