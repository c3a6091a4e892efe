\* Two instances, three entries.
SPECIFICATION LogSpec
CONSTANTS
  Instance = {p1, p2}
  Entry = {e1, e2, e3}
SYMMETRY Symmetry
INVARIANTS
  LogTypeOK
  KeptUnlessUpset
CHECK_DEADLOCK FALSE
