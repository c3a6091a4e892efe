\* One tag: an exchange, a scan, and two syncs whose MERGEs may both find no
\* row.  With row versions no match waits, which leaves out no interleaving.
\* Its order is o1, or none the ERP knows.
SPECIFICATION Spec
CONSTANTS
  Epc = {e1}
  Order = {o1}
  None = None
  Unknown = Unknown
  Undefined = Undefined
  Exchange = {x1}
  Sync = {y1, y2}
  Scan = {s1}
  BatchSize = 1
  Versions = {TRUE}
SYMMETRY Symmetry
INVARIANTS
  AgreeUnlessDrift
  PendingVisible
  RegisteredTwiceNeedsOverlap
PROPERTY ImplementsRecord
CHECK_DEADLOCK FALSE
