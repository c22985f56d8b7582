CONSTANTS
  s4 = s4
  s8 = s8
  Slaves = {s4, s8}
  Wide = {s8}
  Content <- MCContent
  Calls <- MCCalls
  ECT_SII_START = 1
  EC_MAXNAME = 3
  EC_MAXSM = 4
  EC_MAXEEPDO = 8
  EC_MAXEEPBUF = 96
  EC_DEFAULTRETRIES = 1
  MaxCalls = 2
  MaxFaults = 1
  MaxRefusals = 3
SPECIFICATION Spec
INVARIANTS
  FoundRight
  AccessTrue
  ControlTrue
CHECK_DEADLOCK FALSE
