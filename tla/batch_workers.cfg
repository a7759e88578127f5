\* Two server instances race for the items of one batch, and two downloads for its results.
CONSTANTS
  b1 = b1
  Batch = {b1}
  Item = {i1, i2}
  Attempt = {a1, a2, a3}
  Worker = {w1, w2}
  Client = {c1, c2}
  BatchOf <- OneBatch
  MaxFiles = 2
  NoItem = NoItem  NoAttempt = NoAttempt  NoBatch = NoBatch
SPECIFICATION Spec
SYMMETRY Symmetry
INVARIANTS TypeOK OneLiveAttempt PublishedOnce FilesKept StatusAgrees ArchiveCurrent
PROPERTIES ResultFinal CanceledStartsNothing PurgeOnlyExpired ImplementsLedger
