SPECIFICATION FairSpec
CONSTANTS
  Procs = {p1, p2}
  NoProc = NoProc
  Requests = {r1, r2}
INVARIANTS
  TypeOK
  RequestsHaveTheirFiles
  OrderlyEndsCutNothing
  StaleSocketsHaveACause
  OnlyShutdownsCutOff
PROPERTIES
  InterruptsEndTheServer
CHECK_DEADLOCK FALSE
