SPECIFICATION FairSpec
CONSTANTS
  N = 3
  Burst = 2
INVARIANTS WrapAfterAll StartedOnce
PROPERTIES OnceReturns
