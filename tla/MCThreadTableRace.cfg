CONSTANTS
  Sessions = {s1, s2}
  MaxActors = 2
  MaxTurns = 1
SPECIFICATION Spec
INVARIANTS OneTurn
CHECK_DEADLOCK FALSE
