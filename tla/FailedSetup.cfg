SPECIFICATION Spec
CONSTANTS
  MaxStarts = 2
  MaxNotifies = 0
  EarlyRestart = FALSE
INVARIANT RefusalMeansRunning
CHECK_DEADLOCK FALSE
