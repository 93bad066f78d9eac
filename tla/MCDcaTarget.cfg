SPECIFICATION SpotSpec
CONSTANTS
  Ids <- CycleOrders
  MaxSize = 3
  Budget = 4
  Cleanup = 1
  UnitCost = 1
  MaxOpen = 3
  MaxEvents = 5
  Behaviours = {}
  Plans <- Resized
  Ahead = 0
  Lag = 1
PROPERTY TargetFillFreezes
