SPECIFICATION Spec
CONSTANTS
  Instance = {i1, i2}
  MaxChanges = 2
  MaxFaults = 1
  MaxLoads = 3
  NoInstance = NoInstance
  NoNews = NoNews
INVARIANTS TypeOK FreshUnlessMissed ToldOnce
PROPERTY CatchesUp
CHECK_DEADLOCK FALSE
