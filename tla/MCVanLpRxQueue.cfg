CONSTANTS
  c1 = c1
  c2 = c2
  bad = bad
  NoCapture = NoCapture
  QueueLength = 3
  IndexModulus = 6
  CounterModulus = 2
  Captures <- MCCaptures
  WellFormed <- MCWellFormed
SPECIFICATION LpFairSpec
INVARIANTS
  RingInv
PROPERTIES
  NoStoreUnderReader
  ImplementsFifo
  CommitNeverBlocks
  EveryFrameDelivered
