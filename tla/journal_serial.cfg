\* Commits of one and two blocks by two threads, checkpoints that overlap each
\* other, process crashes at every step, recovery included, a failing device call.
CONSTANTS
  t1 = t1
  t2 = t2
  a = a
  b = b
  v1 = v1
  v2 = v2
  Zero = zero
  AfterRing = inodeBitmap
  Threads = {t1, t2}
  Homes = {a, b}
  Vals = {v1, v2}
  N = 13
  Workload <- Mixed
  PowerLoss = FALSE
  MaxCommits = 3
  MaxCrashes = 2
  MaxFaults = 1
  MaxOpen = 8
SPECIFICATION Spec
CONSTRAINT OnlyCheckpointsOverlap
INVARIANTS TypeOK PairedWindows CrashConsistent CheckpointExact
PROPERTY AtomicDurable
CHECK_DEADLOCK FALSE
