CONSTANTS
  Tools = {}
  MaxBatch = 0
  MaxCalls = 0
  MaxIterations = 1
  Faults = {}
  MaxPosts = 1
  MaxInterrupts = 1
  MaxCrashes = 1
  MaxReturns = 0
  MaxSwitches = 0
SPECIFICATION Spec
INVARIANTS InterruptStands
CHECK_DEADLOCK FALSE
