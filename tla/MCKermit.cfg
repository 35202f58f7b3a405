\* Three blocks: more packets (7) than sequence numbers (4), so that numbers
\* come round; two packets and two replies on their way.
SPECIFICATION Spec
CONSTANTS
  Blocks = 3
  SeqSize = 4
  MaxLine = 2
  MaxReplies = 2
  MaxImage = 4
INVARIANTS
  TypeOK
  InOrder
  NoneTwice
  Loaded
PROPERTIES ImplementsLoad
\* The command returns, or a bound is reached.
CHECK_DEADLOCK FALSE
