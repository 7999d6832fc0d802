SPECIFICATION Spec
CONSTANTS
  Qty = 2
  Target = 2
  Spread = 1
  Drift = 0
  Positions = {1}
  Markets <- TwoMarkets
  MaxOrders = 3
  MaxDrops = 1
  MaxLost = 0
INVARIANTS TypeOK PositionWithinLimits NoSelfTrade EndIsReported FailuresAreKnown
CHECK_DEADLOCK FALSE
