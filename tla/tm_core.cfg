SPECIFICATION Spec
CONSTANTS
  d1 = d1  d2 = d2  d3 = d3  d4 = d4
  n1 = n1  m1 = m1
  Dirs = {d1, d2, d3, d4}
  NoDir = NoDir
  Names = {n1}
  Metas = {m1}
  Seed <- Chain
  Requests = {r1, r2, r3}
  Ops = {"create", "delete"}
  Unset = Unset
  Servers = {s1}
  ReadOnly = {}
  FastReads = {}
  DBFaults = FALSE
  RowsCut = TRUE
  MaxTries = 1
  MaxCrashes = 0
  NoRequest = NoRequest
  NoEvent = NoEvent
SYMMETRY RequestSymmetry
INVARIANTS
  TypeOK
  Forest
  EveryChangeHasOneOwner
PROPERTIES
  ImplementsTree
CHECK_DEADLOCK FALSE
