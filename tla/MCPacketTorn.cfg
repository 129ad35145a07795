SPECIFICATION ESpec
CONSTANTS
  Clients = {c1}
  Main = {m1}
  Aux = {}
  Host <- MCHost
  MissLimit = 2
  None = None
  MaxGen = 2
  MaxBattles = 1
  MaxChanges = 1
INVARIANTS
  StateIsHeard
\* The thread may be over for good: no deadlock.
CHECK_DEADLOCK FALSE
