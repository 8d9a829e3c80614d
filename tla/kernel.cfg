CONSTANTS
  Width = 2
  Height = 1
  LongText = 3
  CardLines = {1, 11}
  Pushes = {0, 127}
  MaxCards = 2
  MaxTasks = 2
  MaxTimers = 1
SPECIFICATION FairSpec
INVARIANTS OneCursor PrintsNearTheScreen EveryDriverIsHeard FramesAreOwn NoWildTimer
PROPERTIES MovesAsPushed EveryTaskRuns
