SPECIFICATION Spec
CONSTANTS
  Addresses = {unknown}
  Mine = unknown
  MaxFailures = 3
  Window = 2
  QuietFrom = 3
  MaxTime = 5
  MaxFaults = 2
  None = None
CHECK_DEADLOCK FALSE
INVARIANTS
  TypeOK
  SlidingLimit
  BlockedForCause
PROPERTIES
  KeepTryingGetsIn
