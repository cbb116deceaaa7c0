SPECIFICATION Spec
CONSTANTS
  d1 = d1  d2 = d2  d3 = d3  d4 = d4
  n1 = n1  m1 = m1
  Dirs = {d1, d2, d3}
  NoDir = NoDir
  Names = {n1}
  Metas = {m1}
  Seed <- RootAndChild
  Requests = {r1}
  Ops = {"create", "update", "delete"}
  Unset = Unset
  Servers = {s1}
  ReadOnly = {s1}
  FastReads = {}
  DBFaults = FALSE
  RowsCut = FALSE
  MaxTries = 1
  MaxCrashes = 0
  NoRequest = NoRequest
  NoEvent = NoEvent
INVARIANTS
  ReadOnlyServersChangeNothing
CHECK_DEADLOCK FALSE
