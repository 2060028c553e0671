CONSTANTS
  Sessions = {s1}
  MaxActors = 1
  MaxTurns = 1
SPECIFICATION Spec
PROPERTIES UnloadsOnlyIdle
CHECK_DEADLOCK FALSE
