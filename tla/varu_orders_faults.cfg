SPECIFICATION NewsSpec
CONSTANTS
  call = call
  put = put
  Options <- TwoOptions
  MaxOrders = 2
  MaxIDs = 2
  MaxPending = 1
  MaxQty = 2
  Shapes <- PairAndSpread
  QueueCap = 2
  MaxRestarts = 1
  Faults <- AllFaults
INVARIANTS TypeOK IndexExact RegistryExact NewsIsComing WorkingIsPending SlotsAwaitNews
PROPERTY ImplementsOrderLife
CHECK_DEADLOCK FALSE
