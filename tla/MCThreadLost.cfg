CONSTANTS
  Tools = {}
  MaxBatch = 0
  MaxCalls = 0
  MaxIterations = 1
  Faults = {"compaction"}
  MaxPosts = 2
  MaxInterrupts = 0
  MaxCrashes = 0
  MaxReturns = 0
  MaxSwitches = 0
SPECIFICATION Spec
INVARIANTS NothingLost
CHECK_DEADLOCK FALSE
