SPECIFICATION Spec
CONSTANTS
  Receivers = {r1, r2}
  Tids = {t1}
  Blocks = {b1}
  MaxRequests = 1
  MaxLives = 1
  MaxRuns = 2
  MaxCount = 1
INVARIANTS
  AssertHolds
CHECK_DEADLOCK FALSE
