CONSTANTS
  Workflows <- All
  Figures = {7}
  Proposals = {0, 7}
  Faults = {"render", "checks", "install", "ci", "push", "remote", "rival", "refused"}
  MaxCalls = 1
  MaxAnswers = 2
  MaxMishaps = 1
SPECIFICATION FairSpec
INVARIANTS AttemptsApart SpendHeld PushedChecked WritesUnderLock
PROPERTIES ImplementsPath RunSettles
CHECK_DEADLOCK FALSE
