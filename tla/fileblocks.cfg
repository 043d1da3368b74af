\* A regular file and a directory, six blocks, one direct index and tables of two.
CONSTANTS
  f = f
  g = g
  d = d
  Files = {f}
  Dirs = {d}
  Blocks = {1, 2, 3, 4, 5, 6}
  Direct = 1
  Per = 2
  Wrap = 4
  Ranges <- Reaches
  Sizes = {0, 3, 14}
  Vals = {1, 2}
  MaxCalls = 4
  MaxFaults = 1
SPECIFICATION Spec
CONSTRAINT WithinLimits
INVARIANTS BlocksPartitioned BlocksCounted ReadsBackWritten
CHECK_DEADLOCK FALSE
