SPECIFICATION Spec
CONSTANTS
  PointerSize = 8
  Requests <- MCRequests
  Line0 <- MCLine
  MaxAttempts = 2
  MaxFaults = 2
INVARIANTS
  LineLooksWhole
  FullCountIsTrue
CHECK_DEADLOCK FALSE
