SPECIFICATION Spec
CONSTANTS
  Production = FALSE
  MaxCycles = 2
  MaxQty = 1
  MaxAttempts = 0
  Notes <- AllNotes
PROPERTY EntryFromFlat
