CONSTANTS
  Tools = {"gated"}
  MaxBatch = 1
  MaxCalls = 1
  MaxIterations = 2
  Faults = {}
  MaxPosts = 1
  MaxInterrupts = 1
  MaxCrashes = 0
  MaxReturns = 0
  MaxSwitches = 0
SPECIFICATION Spec
INVARIANTS AcceptedAnswerStands
CHECK_DEADLOCK FALSE
