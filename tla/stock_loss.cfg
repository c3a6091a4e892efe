SPECIFICATION Spec
CONSTANTS
  Epc = {e1, e2}
  Order = {o1}
  NoOrder = NoOrder
  Request = {r1, r2}
  ChunkSize = 1
  Line = {}
  Columns = {}
INVARIANT NothingLost
CHECK_DEADLOCK FALSE
