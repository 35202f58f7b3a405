SPECIFICATION OverflowSpec
CONSTANTS
  v1 = v1
  v2 = v2
  default = default
  garbage = garbage
  Values <- MCValues
  DefaultEnv <- default
  Garbage <- garbage
  RestFails = FALSE
INVARIANTS SavedIsPersistent
