CONSTANTS
  Errors = {e1, e2}
  NoError = NoError
  EC_MAXELIST = 3
  MaxPushes = 7
SPECIFICATION FairSpec
INVARIANTS
  WaitingIsAnnounced
PROPERTIES
  RingIsFifo
  DrainEnds
