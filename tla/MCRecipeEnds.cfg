SPECIFICATION FairSessionSpec
CONSTANTS
  Ids <- ClosingOrders
  MaxSize = 3
  Budget = 6
  Cleanup = 1
  UnitCost = 1
  MaxOpen = 4
  MaxEvents = 40
  Behaviours = {"rejected"}
  Plans <- Closings
  Ahead = 0
  Lag = 1
PROPERTY FlattenEnds
PROPERTY CallsReturn
 
