\* A pool of two entries for five inodes in two hash chains, two inodes in a
\* block of the table; two threads use, allocate, free and sync.
CONSTANTS
  t1 = t1
  t2 = t2
  t3 = t3
  Threads = {t1, t2, t3}
  PoolSize = 2
  TotalInodes = 5
  PerBlock = 2
  HashSize = 2
  Named = {2, 3}
  MaxOps = 3
  MaxFaults = 1
SPECIFICATION Spec
SYMMETRY Interchange
CONSTRAINT Within
INVARIANTS OneCopy RefsExact NothingLost InodesAccounted
