SPECIFICATION SpecEitherRoom
CONSTANTS
  MaxAccepts = 3
  Fds = {1, 2}
  Reserved = 2
  MaxCells = 3
  MaxPackets = 1
INVARIANTS
  HandlesOwned
  NoDoubleDetach
  RepliesReachSender
  ReceiverOwnsClient
  NothingLeftBehind
  EnoughElements
PROPERTIES
  ClosesOnlyAbandoned
CHECK_DEADLOCK FALSE
