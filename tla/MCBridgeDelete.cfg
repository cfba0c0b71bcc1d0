CONSTANTS
  MaxWrites = 3
  Pieces = 2
  MaxPackets = 3
  MaxLines = 5
  Paced = TRUE
  Laws <- MCLaws
SPECIFICATION BridgeSpec
INVARIANT ThreadDeletedOnce
CHECK_DEADLOCK FALSE
