SPECIFICATION Spec
CONSTANTS
  Procs = {p, q}
  Requests <- MCRequests
  Files <- MCFiles
  Start = 4
  MaxNow = 6
  MaxCalls = 3
  None = None
INVARIANTS
  ClosedBarsOnly
  AnswerIsWhole
PROPERTIES
  NothingLost
CHECK_DEADLOCK FALSE
