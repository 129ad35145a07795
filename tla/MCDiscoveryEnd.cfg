SPECIFICATION RSpec
CONSTANTS
  QueueMax = 2
  MaxBytes = 1
  AuxMaxBytes = 2
  FlushAt = 2
  MaxRows = 3
  MaxDrops = 1
  Faults = {"open", "write", "unlink"}
  None = None
INVARIANTS
  EndRowIsComplete
\* The process may be over: no deadlock.
CHECK_DEADLOCK FALSE
