SPECIFICATION Spec
CONSTANTS
  MaxStarts = 2
  MaxNotifies = 0
  EarlyRestart = TRUE
INVARIANT OneDoProc
CHECK_DEADLOCK FALSE
