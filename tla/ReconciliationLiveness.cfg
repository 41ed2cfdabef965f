SPECIFICATION FairSpec
CONSTANTS
  Apps = {a1}
  Workers = {w1, w2}
  Kinds = {"secret", "deployment"}
  Happens = {"update", "env", "redeploy", "delete", "stall", "drift"}
  MaxVersion = 2
  MaxFaults = 1
  NoRow = NoRow
  Idle = Idle
CHECK_DEADLOCK FALSE
PROPERTIES
  Settles
  DeleteCompletes
