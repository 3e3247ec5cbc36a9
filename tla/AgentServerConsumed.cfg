SPECIFICATION Spec
CONSTANTS
  a = a
  b = b
  u = u
  v = v
  h1 = h1
  h2 = h2
  c1 = c1
  c2 = c2
  c3 = c3
  c4 = c4
  Ids = {a, b}
  Urls = {u}
  Placements <- OneHome
  Additions <- Nothing
  Handlers = {h1, h2}
  Consumers = {c1, c2, c3}
  NoUrl = NoUrl
  NoId = NoId
  NoConsumer = NoConsumer
  MaxSaveFailures = 0
CHECK_DEADLOCK FALSE
SYMMETRY Symmetry
INVARIANTS
  RegisteredHasConsumer
