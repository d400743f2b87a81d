SPECIFICATION FairSpec
CONSTANTS
  Callers = {c1, c2}
  MaxCalls = 4
INVARIANTS
  InterruptsOwnCall
PROPERTIES
  ImplementsTimedCalls
  EveryCallAnswered
CHECK_DEADLOCK FALSE
