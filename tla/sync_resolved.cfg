\* Two tags that share a prefix but belong to two commands, so that each run
\* fetches one of them.
SPECIFICATION FairSpec
CONSTANTS
  e1 = e1
  e2 = e2
  e3 = e3
  c1 = c1
  c2 = c2
  Epc = {e1, e2}
  Command = {c1, c2}
  CommandOf <- TwoCommands
  PrefixOf <- PrefixButE3
  Internal = {}
  Job = {f1}
  Worker = {w1}
  None = None
  MaxStalled = 1
  Scanner = {s1}
  FaultLimit = 1
PROPERTIES
  UnknownResolved
CHECK_DEADLOCK FALSE
