CONSTANTS
  EC_MAXBUF = 4
  t1 = t1
  t2 = t2
  Threads <- MCThreads
  NoThread = NoThread
  Setups <- MCSetups
  Wkcs = {1}
  BatchSize = 2
  Lag = 2
  MaxTries = 2
SPECIFICATION Spec
SYMMETRY Symmetry
INVARIANTS
  IndexExclusive
  AnswerIsMine
PROPERTIES
  ReceivedStays
CHECK_DEADLOCK FALSE
