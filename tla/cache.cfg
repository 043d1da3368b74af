\* Two threads, two blocks, a cache that fills up with one.
CONSTANTS
  t1 = t1
  t2 = t2
  a = a
  b = b
  Threads = {t1, t2}
  Nobody = nobody
  Blocks = {a, b}
  NoBlock = noBlock
  Capacity = 1
  MaxWrites = 3
  MaxFaults = 1
  MaxCrashes = 1
SPECIFICATION FairSpec
CONSTRAINT WithinLimits
INVARIANTS Coherent SyncDurable
PROPERTY OperationsReturn
