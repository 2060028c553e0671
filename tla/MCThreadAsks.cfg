CONSTANTS
  Tools = {"gated", "ask_human", "suggest_project", "start_job"}
  MaxBatch = 1
  MaxCalls = 3
  MaxIterations = 3
  Faults = {"compaction"}
  MaxPosts = 1
  MaxInterrupts = 1
  MaxCrashes = 0
  MaxReturns = 0
  MaxSwitches = 2
SPECIFICATION Spec
INVARIANTS AllowedRuns ShownTrue AtRest SwitchAsLogged
CHECK_DEADLOCK FALSE
