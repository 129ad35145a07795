SPECIFICATION ESpec
CONSTANTS
  Clients = {c1}
  Main = {m1, m2}
  Aux = {}
  Host <- MCHost
  MissLimit = 2
  None = None
  MaxGen = 1
  MaxBattles = 1
  MaxChanges = 2
PROPERTIES
  Recovers
  GoneIsNoticed
  StopEndsThread
\* The thread may be over for good: no deadlock.
CHECK_DEADLOCK FALSE
