SPECIFICATION FairSpec
CONSTANTS
  Apps = {a1}
  Workers = {w1}
  Kinds = {"secret", "deployment"}
  Happens = {"delete"}
  MaxVersion = 1
  MaxFaults = 0
  NoRow = NoRow
  Idle = Idle
CHECK_DEADLOCK FALSE
PROPERTIES
  DeleteRemoves
