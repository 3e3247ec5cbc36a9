SPECIFICATION Spec
CONSTANTS
  a = a
  b = b
  u = u
  h1 = h1
  h2 = h2
  Ids = {a, b}
  Urls = {u}
  Home <- Shared
  Handlers = {h1, h2}
  WireCap = 1
  Lossy = TRUE
CHECK_DEADLOCK FALSE
SYMMETRY Symmetry
CONSTRAINT OnCourse
INVARIANTS
  TypeOK
  DashboardFollows
