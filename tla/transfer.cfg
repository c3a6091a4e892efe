\* Two requests at once, orders of one factory and another one they may be
\* given to, four items and picks, one month's end, one failure.
SPECIFICATION FairSpec
CONSTANTS
  f1 = f1
  f2 = f2
  o1 = o1
  o2 = o2
  Same = Same
  Call = {c1, c2}
  Factory = {f1, f2}
  Company = {f1}
  Order = {o1, o2}
  Body <- Bodies
  ListLimit = 2
  WorkLimit = 4
  MonthLimit = 1
  FaultLimit = 1
INVARIANTS
  OrderTwiceNeedsOverlap
  CodeTwiceNeedsLossOrOverlap
  DetailsHaveOrder
  OnlyPickedChange
  WaitsForTheOpen
PROPERTIES
  CallsEnd
  ImplementsBook
CHECK_DEADLOCK FALSE
