SPECIFICATION Spec
CONSTANTS
  v1 = v1
  v2 = v2
  v3 = v3
  default = default
  garbage = garbage
  Values <- MCValues
  DefaultEnv <- default
  Garbage <- garbage
  RestFails = FALSE
INVARIANTS TypeOK Recoverable OneCurrentCopy
PROPERTIES BootsAgree ImplementsStore
