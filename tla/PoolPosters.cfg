SPECIFICATION Spec
CONSTANTS
  Servers = {main, other}
  MainServer = main
  Workers = {w1}
  NoWorker = NoWorker
  Coroutines = {c1}
  NoCo = NoCo
  DefaultMaxTasks = 1
  MaxTaskValues = {0}
  MaxCalls = 3
INVARIANTS TypeOK NoLostWakeup QueueBound SingleOwner
PROPERTIES OutcomeFinal ImplementsService
