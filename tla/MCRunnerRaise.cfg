CONSTANTS
  Workflows <- BuildOnly
  Figures = {7}
  Proposals = {0}
  Faults = {}
  MaxCalls = 1
  MaxAnswers = 2
  MaxMishaps = 1
SPECIFICATION Spec
INVARIANT LogFolds
CHECK_DEADLOCK FALSE
