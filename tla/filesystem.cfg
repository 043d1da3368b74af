\* Three threads, two names, a directory in the root, at most five inodes.
CONSTANTS
  t1 = t1
  t2 = t2
  t3 = t3
  a = a
  b = b
  Threads = {t1, t2, t3}
  Names = {a, b}
  Paths <- FewPaths
  Inums = {1, 2, 3, 4, 5}
  Root = 1
  Images <- FewImages
  MaxOps = 3
  MaxFaults = 1
SPECIFICATION Spec
SYMMETRY Interchange
CONSTRAINT Inside
INVARIANTS TreeSound HandlesKeepFile
PROPERTY ActsOnceAsNamed
