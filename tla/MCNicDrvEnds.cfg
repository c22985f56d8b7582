CONSTANTS
  EC_MAXBUF = 2
  t1 = t1
  t2 = t2
  Threads <- MCThreads
  NoThread = NoThread
  Setups <- EndSetups
  Wkcs = {1}
  BatchSize = 3
  Lag = 1
  MaxTries = 2
SPECIFICATION FairSpec
PROPERTIES
  ExchangesEnd
CHECK_DEADLOCK FALSE
