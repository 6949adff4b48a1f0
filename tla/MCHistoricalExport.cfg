SPECIFICATION FairSpec
CONSTANTS
  t1 = t1  t2 = t2  x1 = x1  x2 = x2
  Threads = {t1, t2}
  Exports = {x1, x2}
  DateTo <- MCDateTo
  ChunksIn <- MCChunksIn
  MaxBatch = 2
  MaxFaults = 1
INVARIANTS NoChunkTwice NothingMissed
PROPERTY ExportEnds
CHECK_DEADLOCK FALSE
