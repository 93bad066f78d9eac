SPECIFICATION SpotSpec
CONSTANTS
  Ids <- CycleOrders
  MaxSize = 3
  Budget = 7
  Cleanup = 1
  UnitCost = 1
  MaxOpen = 3
  MaxEvents = 5
  Behaviours = {"thirdAsset", "baseFee"}
  Plans <- Cycles
  Ahead = 0
  Lag = 1
INVARIANT FlattenAlone
PROPERTY CycleFromFlat
PROPERTY FlattenIsFinal
