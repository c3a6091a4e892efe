\* Three changes: one in the gap, and two whose frames overtake each other.
SPECIFICATION FairSpec
CONSTANT ChangeLimit = 3
INVARIANTS
  StaleNeedsCause
PROPERTY ChangeShown
CHECK_DEADLOCK FALSE
