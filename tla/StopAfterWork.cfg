SPECIFICATION GSpec
CONSTANTS
  MaxStarts = 1
  MaxNotifies = 1
  EarlyRestart = FALSE
  MaxTasks = 3
  EarlyWork = FALSE
  StopsWhen = "results are back"
  OtherCoroutines = FALSE
INVARIANTS TriggerIsSafe
\* The server may be deleted or its start-up fail.
CHECK_DEADLOCK FALSE
