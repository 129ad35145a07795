SPECIFICATION Spec
CONSTANTS
  Obs = {o1, o2}
  Bad = {}
  Names = {1, 2, 3}
  QueueMax = 2
  BatchMax = 2
  MaxBody = 2
  MaxRuns = 1
  Faults = {"errorbody"}
INVARIANTS
  UploaderSurvives
\* The program may be over for good: no deadlock.
CHECK_DEADLOCK FALSE
