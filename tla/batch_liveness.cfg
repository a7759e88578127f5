\* Every committed item is settled, with two instances that may crash.
CONSTANTS
  b1 = b1
  Batch = {b1}
  Item = {i1}
  Attempt = {a1, a2, a3}
  Worker = {w1, w2}
  Client = {}
  BatchOf <- OneBatch
  MaxFiles = 2
  NoItem = NoItem  NoAttempt = NoAttempt  NoBatch = NoBatch
SPECIFICATION FairSpec
PROPERTIES QueuedItemSettles EndedBatchRemoved
