SPECIFICATION Spec
CONSTANTS
  Managers = {m1, m2}
  Nobody = Nobody
  Pids = {p1, p2}
  Bits32 = {p1}
  PathNamespaces = {"abstract"}
  WaitSeconds = 2
  FirstSecond = 100
  MaxTime = 0
  MaxCalls = 1
  MaxLives = 1
PROPERTY
  TimeoutMeansUnready
