SPECIFICATION MCSpec
CONSTANTS
  Obs = {o1, o2}
  Bad = {o2}
  Names = {1, 2, 3, 4, 5}
  QueueMax = 1
  BatchMax = 2
  MaxBody = 1
  MaxRuns = 2
  Faults = {"crash", "refused", "disk", "unlink", "errorbody"}
  Threads = {"uploader", "closer"}
  Seqs = 2
  MaxClock = 1
  MaxFiles = 4
  MaxRestarts = 1
  MaxBack = 1
  WindowJoin = 1
  EngineJoin = 1
  Budget = 2
  BatchWait = 1
  PostTimes = {1, 3}
  RecheckMax = 1
  Grace = 3
  MaxQueued = 1
  MaxNow = 4
  Disk = TRUE
INVARIANTS
  LossIsAccounted
  ExitIsAccounted
  NamedInOrder
  SavedInGrace
PROPERTIES
  DiskReleasedOnlyWhenSafe
  ImplementsDelivery
\* The program may be over for good: no deadlock.
CHECK_DEADLOCK FALSE
