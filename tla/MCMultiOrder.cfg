SPECIFICATION MCSpec
CONSTANTS
  Ids <- AllIds
  MaxSize = 2
  Budget = 5
  Cleanup = 1
  UnitCost = 2
  MaxOpen = 2
  MaxEvents = 4
  Behaviours = {"overfill", "improved", "baseFee", "excess", "accepted", "rejected", "unknown", "late", "thirdAsset"}
INVARIANT Covered
INVARIANT FollowsVenue
INVARIANT OnlyFaultsQuarantined
INVARIANT OneGenerationLive
