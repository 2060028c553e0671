CONSTANTS
  a = a
  b = b
  c = c
  Handles = {a, b}
  Owner <- TwoProcesses
  MaxEvents = 3
  MaxCrashes = 0
  MaxErrors = 0
SPECIFICATION Spec
INVARIANTS NeverDamaged
CHECK_DEADLOCK FALSE
