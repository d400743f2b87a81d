SPECIFICATION FairSpec
CONSTANTS
  Receivers = {r1, r2}
  Tids = {t1}
  Blocks = {b1}
  MaxRequests = 2
  MaxLives = 2
  MaxRuns = 2
  MaxCount = 2
INVARIANTS
  CountsExact
PROPERTIES
  RequestsAnswered
CHECK_DEADLOCK FALSE
