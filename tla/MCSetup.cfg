SPECIFICATION Spec
CONSTANTS
  Buses <- MCBuses
  Content <- MCContent
  MaxFaults <- MCMaxFaults
  Table <- MCTable
  SyncBuses <- MCSyncBuses
  Cycles <- MCCycles
  SyncDelay = 10
  MaxTime = 3
  Wrap = 256
  MaxSlave = 7
INVARIANTS
  TopologyTrue
  DetailsTrue
  MappingTrue
  DelaysTrue
  SyncTogether
CHECK_DEADLOCK FALSE
