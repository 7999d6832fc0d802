SPECIFICATION Spec
CONSTANTS
  call = call
  put = put
  Options <- TwoOptions
  Deltas <- SmallFills
  Prices <- FewPrices
  MaxFills = 4
  MaxError = 250
INVARIANTS TypeOK AverageWithinPrices OnlyErrorPanics ErrorWithinRounding
PROPERTY ErrorOnlyFromGrowth
CHECK_DEADLOCK FALSE
