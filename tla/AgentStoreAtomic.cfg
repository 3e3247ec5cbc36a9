SPECIFICATION Spec
CONSTANTS
  a = a
  b = b
  u = u
  v = v
  p = p
  q = q
  NoAgent = NoAgent
  NoFile = NoFile
  Blank = Blank
  Torn = Torn
  Ids = {a}
  Urls = {u}
  Metas = {p}
  MaxFaults = 0
INVARIANTS
  AtomicWrites
