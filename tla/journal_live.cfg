\* Two threads in a ring of seven slots: commits that overlap, wrap, fill it up;
\* checkpoints that overlap; a crash; a failing device call.
CONSTANTS
  t1 = t1
  t2 = t2
  a = a
  b = b
  v1 = v1
  v2 = v2
  Zero = zero
  AfterRing = inodeBitmap
  Threads = {t1, t2}
  Homes = {a, b}
  Vals = {v1, v2}
  N = 8
  Workload <- OneOrTwo
  PowerLoss = FALSE
  MaxCommits = 2
  MaxCrashes = 1
  MaxFaults = 1
  MaxOpen = 8
SPECIFICATION FairSpec
CONSTRAINT NoMixed
INVARIANT SlotsExclusive
PROPERTY OperationsReturn
CHECK_DEADLOCK FALSE
