CONSTANTS
  Short = 2
  Medium = 4
  PayloadLengths = {0, 2, 3}
  Masked = TRUE
  MaxFrames = 2
SPECIFICATION StreamSpec
INVARIANTS FramesInOrder
CHECK_DEADLOCK FALSE
