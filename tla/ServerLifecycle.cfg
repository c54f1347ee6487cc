SPECIFICATION ServersSpec
CONSTANTS
  MaxStarts = 2
  MaxNotifies = 3
  EarlyRestart = FALSE
  MaxTasks = 2
  EarlyWork = TRUE
  StopsWhen = "any time"
  OtherCoroutines = TRUE
INVARIANTS TypeOK NotifyInOrder TriggerMisusedOnly OneThreadPerState
PROPERTIES NotifiedIsDispatched StopDeletes
\* The object may be deleted, or its DoProc have failed for good.
CHECK_DEADLOCK FALSE
