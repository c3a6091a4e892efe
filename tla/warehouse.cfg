\* Two creates at once, four rows of two types; the foreign key on or off.
SPECIFICATION Spec
CONSTANTS
  Call = {c1, c2}
  Factory = {f1}
  Type = {t1, t2}
  RowLimit = 4
SYMMETRY Symmetry
INVARIANTS
  RefusedNeedsCause
  LocationsStay
CHECK_DEADLOCK FALSE
