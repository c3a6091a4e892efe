\* Two exchanges on two tags, one tag per statement, so that they can wait for
\* each other.
SPECIFICATION FairSpec
CONSTANTS
  Epc = {e1, e2}
  Order = {o1, o2}
  None = None
  Unknown = Unknown
  Undefined = Undefined
  Exchange = {x1, x2}
  Sync = {}
  Scan = {}
  BatchSize = 1
  Versions = {FALSE}
INVARIANTS
  AgreeUnlessDrift
  SomeoneMoves
PROPERTIES
  TransactionsEnd
  ImplementsRecord
CHECK_DEADLOCK FALSE
