CONSTANTS
  speed = speed
  limit = limit
  name = name
  Objects <- MCObjects
  Index <- MCIndex
  Chunks <- MCChunks
  MaxCnt = 3
  MaxFaults = 4
  MaxEmergencies = 1
  MaxCalls = 2
SYMMETRY Symmetry
SPECIFICATION Spec
INVARIANTS
  ReadTrue
  WriteTrue
PROPERTIES
  IsChannel
CHECK_DEADLOCK FALSE
