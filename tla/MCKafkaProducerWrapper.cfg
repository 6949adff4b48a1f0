SPECIFICATION FairSpec
CONSTANTS
  m1 = m1
  m2 = m2
  m3 = m3
  c1 = c1
  c2 = c2
  Msgs = {m1, m2, m3}
  SizeOf <- MCSizeOf
  Callers = {c1, c2}
  Ticks = {t1, t2}
  Closer = closer
  MaxBatchSize = 4
  MaxQueueSize = 2
  MaxList = 2
INVARIANTS
  TypeOK
  HandedOverInOrder
PROPERTIES
  ImplementsChannel
  BufferDrains
CHECK_DEADLOCK FALSE
