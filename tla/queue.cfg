\* Two scans, two instances, one stall allowed.
SPECIFICATION FairSpec
CONSTANTS
  Job = {j1, j2}
  Worker = {w1, w2}
  None = None
  MaxStalled = 1
INVARIANTS
  NoScanForgotten
  LockedIsActive
PROPERTIES
  ScansEnd
  ImplementsDelivery
CHECK_DEADLOCK FALSE
