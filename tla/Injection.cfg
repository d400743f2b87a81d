SPECIFICATION FairSpec
CONSTANTS
  Managers = {m1, m2}
  Nobody = Nobody
  Pids = {p1, p2}
  Bits32 = {p1}
  PathNamespaces = {"abstract", "filesystem"}
  WaitSeconds = 2
  FirstSecond = 100
  MaxTime = 1
  MaxCalls = 2
  MaxLives = 2
INVARIANTS
  LocksMatch
PROPERTIES
  SkipsInjected
  Calls64Return
  CallsEndWithInjector
