SPECIFICATION MCSpec
CONSTANTS
  \* the devices
  Slots = {s1}
  Ips = {i1}
  Given = {a}
  Buckets = {"register_slot"}
  Limit <- MCLimit
  MaxDevices = 2
  MaxRequests = 2
  MaxTime = 3
  Second = 2
  Window = 3
  None = None
  \* the first starts
  x = x
  y = y
  Agents = {x, y}
  MaxTokens = 2
  MaxStarts <- MCStarts
  MaxEdits = 1
  Mishaps = {"read", "save", "crash"}
  Absent = Absent
  \* the satong
  p1 = p1
  p2 = p2
  Pcs = {p1, p2}
  Clients <- MCClients
  Texts = {t}
  Skews <- MCSkews
  HubLimits <- MCHubLimits
  Interval = 3
  MergeSec = 2
  Heartbeat = 2
  Offline = 3
  MaxRequest = 2
  SatongDays = 3
  MaxAhead = 1
  PageLimit = 1
  MaxShouts = 2
  MaxTroubles = 1
  Delays = {3}
  LastTime = 4
  Nil = Nil
INVARIANTS
  OneHolder
  NameSurvives
  RateBounded
  RetryIsEnough
  TokenIsAccounted
  RowsAreShouts
  OfflineHasAReason
PROPERTIES
  SavesKeep
  KeptUntilStored
  ReadInOrder
\* The observers may be set up, or the clock at its end: no deadlock.
CHECK_DEADLOCK FALSE
