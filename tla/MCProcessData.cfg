CONSTANTS
  Groups <- MCGroups
  Exchanging <- MCExchanging
  MaxSegment = 2
  EC_MAXIOSEGMENTS = 4
  EC_MAXBUF = 6
  MaxExchanges = 2
  LateWrites = FALSE
SPECIFICATION Spec
INVARIANTS
  SegmentsCover
  FMMUsDisjoint
  BytesInOneDatagram
  MapsItsSMs
  ExpectedMeansExchanged
  BitsInPlace
CHECK_DEADLOCK FALSE
