SPECIFICATION FairSpec
CONSTANTS
  d1 = d1  d2 = d2  d3 = d3  d4 = d4
  n1 = n1  m1 = m1
  Dirs = {d1, d2, d3, d4}
  NoDir = NoDir
  Names = {n1, n2}
  Metas = {m1}
  Seed <- RootAndChild
  Requests = {r1, r2}
  Ops = {"createRoot", "create", "update", "delete"}
  Unset = Unset
  Servers = {s1, s2}
  ReadOnly = {s2}
  FastReads = {s1}
  DBFaults = TRUE
  RowsCut = FALSE
  MaxTries = 1
  MaxCrashes = 1
  NoRequest = NoRequest
  NoEvent = NoEvent
INVARIANTS
  CascadeIsComplete
  StreamTellsTheTruth
  SuccessIsAnnounced
  RefusalsChangeNothing
PROPERTIES
  HistoryStands
  EveryRequestEnds
CHECK_DEADLOCK FALSE
