CONSTANTS
  Sessions = {s1, s2, s3}
  MaxActors = 3
  MaxTurns = 2
SPECIFICATION FairSpec
INVARIANTS TableSound
PROPERTIES UnusedUnloads
CHECK_DEADLOCK FALSE
