SPECIFICATION Spec
CONSTANTS
  None = None
  Configs <- AllProfiles
INVARIANTS
  EngineFollowsBroker
  CashIsExplained
  WithinRiskBudget
  NoEntryAfterExit
PROPERTIES
  ImplementsCashAccount
