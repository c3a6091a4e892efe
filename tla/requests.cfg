\* Three requests of one user, a host that comes and goes, one restart.
SPECIFICATION FairSpec
CONSTANTS
  h1 = h1
  Request = {r1, r2, r3}
  User = {u1}
  Host = {h1}
  HostOf <- OneHost
  FaultLimit = 1
INVARIANTS
  PoolsNeedOverlap
  UnloadedIsLoading
  RevivedNeedsOverlap
PROPERTY HostRecovers
CHECK_DEADLOCK FALSE
