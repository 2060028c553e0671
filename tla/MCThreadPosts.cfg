CONSTANTS
  Tools = {"plain"}
  MaxBatch = 2
  MaxCalls = 2
  MaxIterations = 2
  Faults = {"stream", "cut", "length", "knowledge"}
  MaxPosts = 2
  MaxInterrupts = 1
  MaxCrashes = 0
  MaxReturns = 0
  MaxSwitches = 1
SPECIFICATION Spec
INVARIANTS RequestsAcceptable MidTurnAnswered QueueExact
CHECK_DEADLOCK FALSE
