CONSTANTS
  JobIds = {a, b}
  NoJob = NoJob
  MaxMessages = 1
  MaxReplies = 1
  MaxCrashes = 0
  MaxFaults = 0
SPECIFICATION Spec
INVARIANTS FinishedEnded RunsAsApproved NumbersDistinct
CHECK_DEADLOCK FALSE
