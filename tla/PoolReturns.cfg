SPECIFICATION SafeSpec
CONSTANTS
  Servers = {main}
  MainServer = main
  Workers = {w1, w2}
  NoWorker = NoWorker
  Coroutines = {c1}
  NoCo = NoCo
  DefaultMaxTasks = 2
  MaxTaskValues = {}
  MaxCalls = 3
SYMMETRY Symmetry
INVARIANTS NoLostReturn CallOrder DropsOnlyEnded
