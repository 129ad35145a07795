SPECIFICATION MCSpec
CONSTANTS
  Clients = {c1, c2}
  Main = {m1}
  Aux = {a1}
  Host <- MCHost
  MissLimit = 2
  None = None
  MaxGen = 2
  MaxBattles = 2
  MaxChanges = 2
  Mod = 14
  Start = 11
  Length = 8
  MaxSegment = 3
  Window = 4
  BudgetBytes = 5
  BudgetSec = 1
  MaxTime = 2
  Unset = Unset
  Streams <- MCStreams
  FlowStreams <- MCFlowStreams
  LockK = 3
  MinBody = 2
  MaxBody = 7
  HeaderLen = 2
  EnterMin = 6
  PageMax = 4
  ScanAlways = 4
  GapMin = 2
  GapDivisor = 2
  MaxWait = 1
  MaxPiece = 5
  MaxHole = 1
  MaxClock = 1
  Unknown = Unknown
SYMMETRY Interchangeable
INVARIANTS
  StateIsSaid
  EpochIsNew
  Unbroken
  NothingStuck
  NothingMissed
  TrueToStream
PROPERTIES
  KeptWhileFine
  OfflineAgrees
  SearchIsComplete
\* The thread may be over for good, and a stream at its end: no deadlock.
CHECK_DEADLOCK FALSE
