CONSTANTS
  RingSize = 4
  Window = 3
  Mss = 2
  Available = 4
  MaxTimers = 4
  Reorder = FALSE
  Lossy = TRUE
SPECIFICATION Spec
PROPERTY DuplicatesAreAcknowledged
