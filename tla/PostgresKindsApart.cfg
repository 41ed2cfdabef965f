SPECIFICATION Spec
CONSTANTS
  Requests = {q1, q2, q3}
  Overlaps <- CreatesRaceAndDeletesRace
  MaxFaults = 2
  None = None
SYMMETRY RequestSymmetry
CHECK_DEADLOCK FALSE
INVARIANTS
  RowHasObjects
  DeletedLeavesNothing
