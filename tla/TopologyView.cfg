SPECIFICATION Spec
CONSTANTS
  Apps <- AppsHere
  Databases <- DatabasesHere
  MaxCalls = 2
  MaxStarts = 2
  MaxFaults = 1
  None = None
INVARIANTS
  TypeOK
  ListsExact
  CanvasExact
  IdsDistinct
CHECK_DEADLOCK FALSE
