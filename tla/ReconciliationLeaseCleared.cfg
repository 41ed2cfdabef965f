SPECIFICATION Spec
CONSTANTS
  Apps = {a1}
  Workers = {w1, w2}
  Kinds = {"secret", "deployment"}
  Happens = {"redeploy", "delete"}
  MaxVersion = 1
  MaxFaults = 0
  NoRow = NoRow
  Idle = Idle
CHECK_DEADLOCK FALSE
INVARIANTS
  TombstoneUntilClean
