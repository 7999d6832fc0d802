SPECIFICATION EntrySpec
CONSTANTS
  Equities = {1}
  Shortable = {1}
  Bars <- TwoBars
  Quantities <- Sizes
  Limits = {1, 3}
  Rate = 4
  Cash0 = 30
  Multiplier = 2
  Rekt = 9
  Patience = 2
  DailyInterest = {1}
  DayLength = 6
  LooFrom = 0
  LooBy = 1
  OpenAt = 1
  LocFrom = 4
  CloseAt = 5
  Horizon = 8
  MaxOrders = 3
  TicksPerPrice = 10
PROPERTY FillsStayAfforded
CHECK_DEADLOCK FALSE
