CONSTANTS
  Tools = {"read", "write"}
  ArgsOf <- MCArgsOf
  ResultOf <- MCResultOf
  Posts = {1}
  None = None
  Ratios = {100}
  Overhead = 1
  Cap = 1
  MaxResult = 2
  Emergency = 10
  Fraction = 9
  Block = 1
  Settings <- MCSettings
  MaxWork = 5
  MaxOddities = 1
SPECIFICATION Spec
INVARIANTS WordsKept ChainSound PairsKept MeasureFits
PROPERTIES SweepFreesEnough
CHECK_DEADLOCK FALSE
