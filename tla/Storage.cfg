CONSTANTS
  w1 = w1
  w2 = w2
  Worker = {w1, w2}
  Keys <- MCKeys
  Slots = 3
  Stripes = 2
  NoOne = NoOne
  MaxClears = 1
  None = None
  MaxRecords <- MCMaxRecords
  QueueSize = 2
  MaxBatch = 1
  LaneSlots = 1
  MaxOther = 1
  MaxFaults = 1
  MaxTime = 5
  Upgrades = {1, 4}
  Retention = 3
  Lag = 1
  Chunk = 1
  MaxRows = 1
SPECIFICATION MCSpec
INVARIANTS TypeOK HoldsIffCritical ClearedIsCleared OneStallPerDeadLock WrittenOnceInOrder ExactUnlessOvertaken
PROPERTIES NoTornRead EveryCallReturns StorageCatchesUp
CHECK_DEADLOCK FALSE
