SPECIFICATION FairSpec
CONSTANTS
  w1 = w1
  w2 = w2
  w3 = w3
  p1 = p1
  p2 = p2
  free = free
  Writers <- MCWriters
  Payloads <- MCPayloads
  Free = free
  MaxSequence = 5
INVARIANTS
  ChainIntact
  TamperingIsReported
PROPERTIES
  ImplementsLog
  AppendsFinish
