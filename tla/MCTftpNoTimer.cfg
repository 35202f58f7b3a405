SPECIFICATION FairSpec
CONSTANTS
  p1 = p1
  p2 = p2
  p3 = p3
  s1 = s1
  s2 = s2
  old = old
  wkp = wkp
  FileBlocks = 1
  LastLen = 1
  SeqSize = 8
  TimeoutCount = 1
  Ports <- MCOnePort
  PortsReused = TRUE
  StalePorts <- MCOnePort
  Tids <- MCOneTid
  OldTid <- old
  WellKnownPort <- wkp
  TimerRuns = FALSE
PROPERTIES Returns
CHECK_DEADLOCK FALSE
