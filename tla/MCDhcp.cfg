SPECIFICATION FairSpec
CONSTANTS
  s1 = s1
  s2 = s2
  a1 = a1
  a2 = a2
  Servers = {s1, s2}
  Addrs = {a1, a2}
  Pool <- MCPool
  TimeoutCount = 2
  MaxTry = 5
  MaxID = 3
INVARIANTS TypeOK BoundToGrant SuccessHasLease
PROPERTIES Returns
CHECK_DEADLOCK FALSE
