CONSTANTS
  a = a
  b = b
  c = c
  Handles = {a, b, c}
  Owner <- SharedPair
  MaxEvents = 3
  MaxCrashes = 1
  MaxErrors = 1
SPECIFICATION Spec
INVARIANTS LogSound CacheSound
PROPERTIES OnlyGrows
CHECK_DEADLOCK FALSE
