SPECIFICATION FairSpec
CONSTANTS
  call = call
  put = put
  Options <- TwoOptions
  MaxOrders = 1
  MaxIDs = 2
  MaxPending = 1
  MaxQty = 2
  Shapes <- PairAndSpread
  QueueCap = 2
  MaxRestarts = 0
  Faults <- NoFaults
PROPERTY FilledOrdersAreRemoved
CHECK_DEADLOCK FALSE
