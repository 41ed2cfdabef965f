SPECIFICATION Spec
CONSTANTS
  Requests = {q1, q2, q3, q4}
  Overlaps <- OnlyDeletesRace
  MaxFaults = 2
  None = None
SYMMETRY RequestSymmetry
CHECK_DEADLOCK FALSE
INVARIANTS
  TypeOK
  RowAgrees
