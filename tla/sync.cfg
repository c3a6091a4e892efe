\* Two instances, a scan in progress, a tag that can get an order and one that
\* starts with E28, two faults: enough to stall a job too often.
SPECIFICATION FairSpec
CONSTANTS
  e1 = e1
  e2 = e2
  e3 = e3
  c1 = c1
  c2 = c2
  Epc = {e1, e3}
  Command = {c1}
  CommandOf <- OneCommand
  PrefixOf <- OwnPrefix
  Internal = {e3}
  Job = {f1}
  Worker = {w1, w2}
  None = None
  MaxStalled = 1
  Scanner = {s1}
  FaultLimit = 2
INVARIANTS
  OnlyStallsBlock
PROPERTIES
  FactoryFree
CHECK_DEADLOCK FALSE
