CONSTANTS
  Tries = 2
  Checks = 1
  Cycles = 8
  Patience = 1
  MaxRuns = 2
  MaxLost = 2
  MaxEvents = 2
SPECIFICATION Spec
INVARIANTS
  TargetNear
  LayoutRight
PROPERTIES
  Returns
CHECK_DEADLOCK FALSE
