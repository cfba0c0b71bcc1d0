CONSTANTS
  MaxWrites = 3
  Pieces = 2
  MaxPackets = 1
SPECIFICATION FairSpec
INVARIANTS TypeOK NoStrandedMessage OneReceiveChain NoOvertaking
PROPERTIES NoTornPop QueueDrains
CHECK_DEADLOCK FALSE
