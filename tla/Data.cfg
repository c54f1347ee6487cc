SPECIFICATION DataSpec
CONSTANTS
  Byte = {0, 1}
  CacheSize = 2
  MaxWrite = 2
  MaxLen = 7
  Threads = {t1, t2}
  Messages = {m1, m2, m3, m4}
  NoThread = NoThread
  Limit = 3
  Base = 4
  StrLimit = 3
  Lengths = {0, 1, 2, 3}
  Kinds = {"sint8", "uint8", "sint16", "uint16", "int", "uint32", "uint64", "int64", "uiboolean", "cstring", "cstring_len", "string", "lstring1", "lstring2"}
  Little = TRUE
  MaxFields = 2
  MaxNotifies = 3
  Uses = {"small", "connection", "as it comes"}
  Short = 2
  Medium = 4
  PayloadLengths = {0, 2, 3}
  Masked = FALSE
  MaxFrames = 3
  Block = 6
  MaxLines = 4
  MaxLine = 4
  EndsLast = TRUE
  Bits = 4
  Ops = {"+", "-", "*", "/", "%", "|", "^", "&", "~", "<", ">", "=="}
  MaxChars = 4
  MaxTasks = 3
  MaxReturns = 2
INVARIANTS
  DataTypeOK
  Terminated
  OneOwner OwnData
  FieldsComeBack
  ContentArrives
  FramesInOrder NoFrameLeft
  SetsEveryLine
  HelpersAreExact
  CleanWorker HandedOverOnce
PROPERTIES FileSpec StaleOnlyWhenSilent
\* A behaviour ends with its last call, or with the process.
CHECK_DEADLOCK FALSE
