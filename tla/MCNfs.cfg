SPECIFICATION FairSpec
CONSTANTS
  file = file
  link = link
  short = short
  circle = circle
  none = none
  Chunks = 2
  Links <- MCLinks
  File <- file
  LinkTo <- MCLinkTo
  ShortLinks <- MCShort
  NoFile = none
  OldId = 1
  MaxId = 13
INVARIANTS TypeOK Prefix Loaded
PROPERTIES ImplementsLoad Returns
CHECK_DEADLOCK FALSE
