SPECIFICATION Spec
CONSTANTS
  Requests = {q1, q2, q3, q4}
  Overlaps <- AllRace
  MaxFaults = 0
  None = None
SYMMETRY RequestSymmetry
CHECK_DEADLOCK FALSE
INVARIANTS
  DeletedLeavesNothing
