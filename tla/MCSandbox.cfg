SPECIFICATION Spec
CONSTANTS
  Qty = 2
  MaxEntries = 2
  MaxRevisions = 1
  MaxFaults = 1
  None = None
  MaxBars = 3
  Lookback = 1
  MaxFailures = 2
INVARIANTS
  LiveIsTracked
  TradeIsProtected
  EndsFlat
  OneExposure
PROPERTIES
  EveryCandleOnce
