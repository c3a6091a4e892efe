\* Two overlapping requests (one may be the other's retry), two orders, two
\* tags, one tag per MERGE, every fault.
SPECIFICATION Spec
CONSTANTS
  Epc = {e1, e2}
  Order = {o1, o2}
  NoOrder = NoOrder
  Request = {r1, r2}
  ChunkSize = 1
  Line = {}
  Columns = {}
SYMMETRY Symmetry
INVARIANTS
  TypeOK
  BackupRecorded
  AcknowledgedStocked
  AcknowledgedOnce
  DuplicateRowsNeedOverlap
  LostOnlyIfLate
PROPERTY ImplementsLedger
CHECK_DEADLOCK FALSE
