SPECIFICATION FairNewsSpec
CONSTANTS
  call = call
  put = put
  Options <- TwoOptions
  MaxOrders = 2
  MaxIDs = 2
  MaxPending = 2
  MaxQty = 2
  Shapes <- PairAndSpread
  QueueCap = 2
  MaxRestarts = 0
  Faults <- FailingCancels
INVARIANT LedgerExact
PROPERTY KnownOrdersFreeTheirSlot
CHECK_DEADLOCK FALSE
