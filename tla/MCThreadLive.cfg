CONSTANTS
  Tools = {"start_job"}
  MaxBatch = 1
  MaxCalls = 1
  MaxIterations = 2
  Faults = {"stream"}
  MaxPosts = 2
  MaxInterrupts = 1
  MaxCrashes = 1
  MaxReturns = 2
  MaxSwitches = 0
SPECIFICATION FairSpec
INVARIANTS JobsNoted
PROPERTIES TurnsSettle
CHECK_DEADLOCK FALSE
