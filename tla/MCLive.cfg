SPECIFICATION MCSpec
CONSTANTS
  Obs = {o1, o2}
  Bad = {o2}
  Names = {1, 2, 3, 4, 5, 6, 7}
  QueueMax = 2
  BatchMax = 2
  MaxBody = 1
  MaxRuns = 1
  Faults = {"crash", "refused", "read", "foreign", "other"}
  Paths = {p, q}
  Builds = {"plain", "hidden", "torn"}
  Cells = 3
  Streams <- MCStreams
  SizeOf <- MCSizes
  MaxWrites = 3
  MaxLaunches = 2
  Missing = Missing
INVARIANTS
  StampIsTrue
PROPERTIES
  FollowsPatch
  SpooledIsSettled
  MemoryReachesDisk
  StopIsPrompt
\* The program may be over for good: no deadlock.
CHECK_DEADLOCK FALSE
