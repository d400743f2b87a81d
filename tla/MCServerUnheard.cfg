SPECIFICATION FairSpec
CONSTANTS
  MaxAccepts = 2
  Fds = {1, 2}
  Reserved = 2
  MaxCells = 2
  MaxPackets = 1
PROPERTIES
  PacketsReceived
CHECK_DEADLOCK FALSE
