SPECIFICATION LSpec
CONSTANTS
  Obs = {o1, o2, o3}
  Keys = {1, 2}
  Retention = 1
  Ahead = 1
  PageSize = 1
  MaxWall = 2
  Null = Null
  Day = 1
  Offset = 1
  ExpiryDays = 2
SYMMETRY Interchangeable
INVARIANTS
  NewestIsShown
  CountedOnce
  DeliveredUnlessBehind
  SearchAgrees
