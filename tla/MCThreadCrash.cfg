CONSTANTS
  Tools = {"plain", "suggest_project"}
  MaxBatch = 2
  MaxCalls = 2
  MaxIterations = 2
  Faults = {"knowledge"}
  MaxPosts = 2
  MaxInterrupts = 1
  MaxCrashes = 2
  MaxReturns = 0
  MaxSwitches = 0
SPECIFICATION Spec
INVARIANTS AllSettled CrashNotedOnce
PROPERTIES ImplementsDelivery
CHECK_DEADLOCK FALSE
