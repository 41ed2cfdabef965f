SPECIFICATION MCSpec
CONSTANTS
  app1 = app1
  app2 = app2
  n1 = n1
  n2 = n2
  Apps = {app1, app2}
  Names = {n1, n2}
  MaxOps = 2
  Files <- FilesHere
  Offered <- OfferedHere
  MaxStarts = 3
  MaxFaults = 1
  None = None
INVARIANTS
  TypeOK
  ListAgrees
  BusyHasOwner
PROPERTIES
  BusyClears
CHECK_DEADLOCK FALSE
