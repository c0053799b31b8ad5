CONSTANTS
  MaxPrice = 4
  MaxOrders = 4
  SizeMod = 4
  Sizes = {0, 1, 2}
SPECIFICATION HFairSpec
INVARIANTS
  TypeOK
  NotCrossed
  BestPricesExact
  NoOrderLost
  TimePriority
PROPERTIES
  ImplementsBookSpec
  CallsReturn
