CONSTANTS
  Tools = {"read", "write"}
  ArgsOf <- MCArgsOf
  ResultOf <- MCResultOf
  Posts = {1}
  None = None
  Ratios = {100}
  Overhead = 3
  Cap = 1
  MaxResult = 2
  Emergency = 10
  Fraction = 9
  Block = 1
  Settings <- MCSettings
  MaxWork = 5
  MaxOddities = 1
SPECIFICATION Spec
INVARIANTS FillCountsAppended OnlyMarksRewrite
PROPERTIES BatchFreesEnough
CHECK_DEADLOCK FALSE
