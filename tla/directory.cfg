\* Two short names and one of full length, two blocks of up to three records, one
\* lookup without the lock.
CONSTANTS
  a = a
  b = b
  c = c
  r1 = r1
  Names = {a, b, c}
  NoName = noName
  Size <- Sizes
  Inums = {1, 2}
  Full = 3
  Block = 8
  Readers = {r1}
  MaxBlocks = 2
SPECIFICATION DirSpec
CONSTRAINT WithinLimits
INVARIANTS Faithful Tiled
PROPERTY LookupTruthful
SYMMETRY SameSize
CHECK_DEADLOCK FALSE
