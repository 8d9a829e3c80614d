SPECIFICATION BufferSpec
CONSTANTS
    RcvWindow = 8
    Top = 9
    MaxChunks = 5
INVARIANT InOrder
PROPERTY KeepsTheBytes
CHECK_DEADLOCK FALSE
