\* Two callers; every bitmap of three blocks is an initial state.
CONSTANTS
  c1 = c1
  c2 = c2
  Clients = {c1, c2}
  Total = 3
  Word = 4
SPECIFICATION Spec
SYMMETRY Callers
INVARIANTS CountersAgree ExtentsExclusive FindsFirstFit FragmentsCounted
CHECK_DEADLOCK FALSE
