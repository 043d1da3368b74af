\* Two files: one is truncated and written again.
CONSTANTS
  f = f
  g = g
  d = d
  Files = {f, g}
  Dirs = {}
  Blocks = {1, 2, 3}
  Direct = 1
  Per = 2
  Wrap = 4
  Ranges <- Shorts
  Sizes = {0}
  Vals = {1, 2}
  MaxCalls = 4
  MaxFaults = 0
SPECIFICATION Spec
INVARIANT NoSharing
CHECK_DEADLOCK FALSE
