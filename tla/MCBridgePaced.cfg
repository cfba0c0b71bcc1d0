CONSTANTS
  MaxWrites = 3
  Pieces = 2
  MaxPackets = 3
  MaxLines = 5
  Paced = TRUE
  Laws <- MCLaws
SPECIFICATION FairBridgeSpec
INVARIANTS BridgeTypeOK BufferSafe OneWriteInProgress BlameHasCause NothingSentAfterClosing
PROPERTIES CloseEnds ImplementsChannel
CHECK_DEADLOCK FALSE
