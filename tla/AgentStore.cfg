SPECIFICATION FairSpec
CONSTANTS
  a = a
  b = b
  u = u
  v = v
  p = p
  q = q
  NoAgent = NoAgent
  NoFile = NoFile
  Blank = Blank
  Torn = Torn
  Ids = {a, b}
  Urls = {u}
  Metas = {p, q}
  MaxFaults = 1
INVARIANTS
  TypeOK
  OneAgentPerHost
  IdentityDurable
  Settled
  FileAtomic
PROPERTIES
  ChangesReachDisk
