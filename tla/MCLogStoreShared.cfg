CONSTANTS
  a = a
  b = b
  c = c
  Handles = {a, b}
  Owner <- OneProcess
  MaxEvents = 3
  MaxCrashes = 0
  MaxErrors = 0
SPECIFICATION Spec
INVARIANTS DamageIsBlind
CHECK_DEADLOCK FALSE
