\* One thread; the page cache is written back in any order and power may fail.
CONSTANTS
  t1 = t1
  t2 = t2
  a = a
  b = b
  v1 = v1
  v2 = v2
  Zero = zero
  AfterRing = inodeBitmap
  Threads = {t1}
  Homes = {a, b}
  Vals = {v1, v2}
  N = 9
  Workload <- Mixed
  PowerLoss = TRUE
  MaxCommits = 2
  MaxCrashes = 2
  MaxFaults = 0
  MaxOpen = 8
SPECIFICATION Spec
CONSTRAINT WithinLimits
INVARIANTS CrashConsistent CutKeepsAcknowledged
CHECK_DEADLOCK FALSE
