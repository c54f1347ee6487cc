CONSTANTS
  MaxNotifies = 2
  Uses = {"small"}
SPECIFICATION TransferSpec
INVARIANTS TransferIsSafe
CHECK_DEADLOCK FALSE
