CONSTANTS
  RingSize = 4
  Window = 3
  Mss = 2
  Available = 5
  MaxTimers = 2
  Reorder = TRUE
  Lossy = TRUE
SPECIFICATION Spec
INVARIANTS RingIntegrity InOrderDelivery CursorExact NoByteForgotten
