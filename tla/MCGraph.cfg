SPECIFICATION Spec
CONSTANTS
  Buffer = 1
  Tolerance = 1
  Cooldown = 1
  None = None
  Graphs <- MCGraphs
  Shapes <- MCShapes
  OddShapes <- MCOddShapes
  MaxBars <- MCMaxBars
  MaxOdd = 1
  MaxPositions = 2
INVARIANTS
  ReducersFollowHistory
  OpportunityExplained
  CooldownExact
  ExitIsCurrent
  CheckpointRestores
  NeverBeforeReported
