CONSTANTS
  MaxWrites = 3
  Pieces = 2
  MaxPackets = 1
SPECIFICATION Spec
INVARIANT OneWriteInProgress
CHECK_DEADLOCK FALSE
