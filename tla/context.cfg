\* Two FUSE threads, two files and two blocks; mkfs gets the sizes around
\* which its layout changes, one of its images is mounted.
CONSTANTS
  t1 = t1
  t2 = t2
  f = f
  g = g
  Threads = {t1, t2}
  Main = Main
  Timer = Timer
  Files = {f, g}
  NONE = NONE
  Blocks = {1, 2}
  Sizes <- LayoutSizes
  Mounted = {2}
  MaxOps = 3
  MaxTimeouts = 1
  MaxCrashes = 1
  MaxFaults = 1
SPECIFICATION FairSpec
INVARIANTS FormatsWhole RefsCovered DataInPlace FsyncKeeps UnmountKeeps NoneUsesDestroyed
PROPERTY UnmountEnds
CHECK_DEADLOCK FALSE
