SPECIFICATION Spec
CONSTANTS
  Receivers = {r1, r2}
  Tids = {t1, t2}
  Blocks = {b1}
  MaxRequests = 2
  MaxLives = 2
  MaxRuns = 1
  MaxCount = 0
INVARIANTS
  FollowedOnce
  FollowingTruthful
  CoverageOwned
SYMMETRY Symmetry
CHECK_DEADLOCK FALSE
