SPECIFICATION FairSpec
CONSTANTS
  MaxAccepts = 2
  Fds = {1, 2}
  Reserved = 2
  MaxCells = 2
  MaxPackets = 1
PROPERTIES
  ImplementsSessions
  PacketsReceivedOrderly
  DisconnectsCleanedUp
CHECK_DEADLOCK FALSE
