\* Two requests race for one tag; chunks of two, so that a chunk is not always
\* full.  The reports are checked for every status and department of the
\* requests and every style of the tag that two lines can tell apart.
SPECIFICATION FairSpec
CONSTANTS
  Epc = {e1}
  Order = {o1, o2}
  NoOrder = NoOrder
  Request = {r1, r2}
  ChunkSize = 2
  Line = {l1, l2}
  Columns <- ColumnsUpToNames
INVARIANT ReportedQuantity
PROPERTIES
  RequestsEnd
  ReportsNeverShrink
CHECK_DEADLOCK FALSE
