SPECIFICATION FairSpec
CONSTANTS
  p1 = p1
  p2 = p2
  p3 = p3
  s1 = s1
  s2 = s2
  old = old
  wkp = wkp
  FileBlocks = 3
  LastLen = 1
  SeqSize = 8
  TimeoutCount = 1
  Ports <- MCPorts
  PortsReused = FALSE
  StalePorts <- MCStale
  Tids <- MCTids
  OldTid <- old
  WellKnownPort <- wkp
  TimerRuns = TRUE
INVARIANTS TypeOK Loaded AckedAreStored
PROPERTIES ImplementsLoad Returns
CHECK_DEADLOCK FALSE
