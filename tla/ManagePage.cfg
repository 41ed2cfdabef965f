SPECIFICATION Spec
CONSTANTS
  Apps = {a1, a2}
  Databases = {d1, d2}
  Platform = {p1}
  Names = {n1, n2}
  HealthPaths = {h1, h2}
  MaxCalls = 2
  MaxStarts = 3
  None = None
SYMMETRY Alike
INVARIANTS
  TypeOK
  NothingOfAnother
  DraftIsShown
PROPERTIES
  DraftsAreSent
