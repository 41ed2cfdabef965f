SPECIFICATION Spec
CONSTANTS
  Apps = {a1}
  Names = {n1, n2}
  Values = {v1, v2}
  Databases = {d1}
  Passwords = {p1, p2}
  HealthPaths = {h1, h2}
  SampleApps = {a1}
  SampleDatabases = {d1}
  None = None
INVARIANTS
  TypeOK
  EntriesAreUnique
PROPERTIES
  KeepsPromisesButFileValues
