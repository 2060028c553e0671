CONSTANTS
  Procs = {p, q}
  Calls = {a, b}
  Gates = {g, h}
  None = None
  MaxLeads = 3
  MaxTasks = 2
  MaxAsks = 2
  MaxCrashes = 1
SPECIFICATION Spec
INVARIANTS AnswersItsAsk ElsewhereIsElsewhere
CHECK_DEADLOCK FALSE
