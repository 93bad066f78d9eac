SPECIFICATION FairSpec
CONSTANTS
  Production = TRUE
  MaxCycles = 1
  MaxQty = 2
  MaxAttempts = 1
  Notes <- PlainOrOutside
INVARIANT TypeOK
INVARIANT NoOversell
INVARIANT RecordedOnce
INVARIANT OneClose
INVARIANT FlatIsFlat
INVARIANT NakedHalts
PROPERTY CustodyFinal
PROPERTY HaltIsFinal
PROPERTY TradeIsFinal
PROPERTY OperationEnds
