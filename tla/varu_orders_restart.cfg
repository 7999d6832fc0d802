SPECIFICATION Spec
CONSTANTS
  call = call
  put = put
  Options <- TwoOptions
  MaxOrders = 1
  MaxIDs = 2
  MaxPending = 1
  MaxQty = 2
  Shapes <- PairAndSpread
  QueueCap = 2
  MaxRestarts = 1
  Faults <- NoFaults
INVARIANT PortfolioIsRestored
CHECK_DEADLOCK FALSE
