SPECIFICATION FairSpec
CONSTANTS
  near = near
  gateway = gateway
  far = far
  Hosts = {near, gateway, far}
  Local = {near, gateway}
  Gateway = gateway
  ArpTimeout = 1
  ArpCount = 5
  Delta <- MCDelta
  TftpCount = 2
  BootpCount = 2
  Longest = 3
  MaxStarts = 2
INVARIANTS TypeOK RightNextHop AbandonedNotSent
PROPERTIES SuccessKept StartsAgain Returns
CHECK_DEADLOCK FALSE
