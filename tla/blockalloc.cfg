\* Two owners, a bitmap in two blocks of which the second is not full.
CONSTANTS
  c1 = c1
  c2 = c2
  Clients = {c1, c2}
  Nobody = nobody
  Total = 4
  BitsPerBlock = 3
  BitmapBlocks = 2
SPECIFICATION AllocSpec
SYMMETRY Owners
INVARIANTS FreeCounted HeldExactly SurvivesUnmount SearchFindsLowest
CHECK_DEADLOCK FALSE
