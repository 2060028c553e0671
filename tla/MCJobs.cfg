CONSTANTS
  JobIds = {a}
  NoJob = NoJob
  MaxMessages = 2
  MaxReplies = 2
  MaxCrashes = 2
  MaxFaults = 1
SPECIFICATION FairSpec
INVARIANTS ReturnedOnce ReturnsSound
PROPERTIES ReturnComes
CHECK_DEADLOCK FALSE
