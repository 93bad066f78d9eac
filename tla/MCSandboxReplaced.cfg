SPECIFICATION Spec
CONSTANTS
  Qty = 2
  MaxEntries = 1
  MaxRevisions = 1
  MaxFaults = 0
  None = None
  MaxBars = 2
  Lookback = 0
  MaxFailures = 1
INVARIANT ReplacementSeesFills
