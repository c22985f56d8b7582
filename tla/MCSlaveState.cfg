CONSTANTS
  slavecount = 2
  MAX_FPRD_MULTI = 1
  Requests = {{8}}
  Kinds = {servo, valve}
  MaxCalls = 2
  MaxChanges = 2
  MaxLost = 2
SYMMETRY Symmetry
SPECIFICATION Spec
INVARIANTS
  ReadTrue
  AddressesUnique
  RecoveryTrue
  Reconfigured
CHECK_DEADLOCK FALSE
