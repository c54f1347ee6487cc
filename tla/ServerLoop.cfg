SPECIFICATION LoopSpec
CONSTANTS
  Coroutines = {c1, c2}
  Dispatcher = Dispatcher
  MaxWaits = 2
  MaxRedirects = 1
  OneWait = {c1}
  Accepted = {a}
  Opened = {o}
  NoConn = NoConn
  MaxBytes = 2
  MaxCloses = 2
INVARIANTS LoopTypeOK WaitsKeepCoroutines ReferenceReturned InputInOrder FreedOnce
PROPERTIES RightWake WaitEnds InputArrives
\* Scripts, peers and the bounds may have no more to do.
CHECK_DEADLOCK FALSE
