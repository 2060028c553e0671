CONSTANTS
  Workflows <- BuildOnly
  Figures = {1}
  Proposals = {0}
  Faults = {}
  MaxCalls = 2
  MaxAnswers = 2
  MaxMishaps = 1
SPECIFICATION Spec
INVARIANT RaiseFrees
CHECK_DEADLOCK FALSE
