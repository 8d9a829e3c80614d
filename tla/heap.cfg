\* A disturbed state is where the model ends: it has no successor.
SPECIFICATION SpecShared
CONSTANTS
    HeapSize = 11
    HeaderSize = 2
    Requests = {0, 1, 3}
INVARIANT SharedInOrder
PROPERTY KeepsPromise
CHECK_DEADLOCK FALSE
