SPECIFICATION FairSpec
CONSTANTS
  p1 = p1
  p2 = p2
  f1 = f1
  w = w
  Producers = {p1, p2}
  Flushers = {f1}
  Writer = w
  BatchSizes = {1, 2}
  MaxQueue = 2
  MaxBatch = 2
  MaxRetries = 1
  MaxOffered = 4
INVARIANTS FlushBarrier AllCounted
PROPERTY NobodyWaitsForever
