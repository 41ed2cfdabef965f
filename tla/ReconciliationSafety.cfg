SPECIFICATION Spec
CONSTANTS
  Apps = {a1}
  Workers = {w1, w2}
  Kinds = {"secret", "service", "deployment", "networkPolicy", "httpRoute"}
  Happens = {"update", "env", "delete", "refresh"}
  MaxVersion = 3
  MaxFaults = 2
  NoRow = NoRow
  Idle = Idle
SYMMETRY Symmetry
INVARIANTS
  TypeOK
  OneWorkerPerApp
  TombstoneUntilClean
  LeaseInv
  ReconciledMeansApplied
  AppliedInv
PROPERTIES
  RemovalIsFinal
  NeverRollsBack
  ReconciledAdvances
  LeadsLives
CHECK_DEADLOCK FALSE
