SPECIFICATION Spec
CONSTANTS
  b = b  c = c  g = g
  Dirs = {b, c}
  NoDir = NoDir
  First <- BaseOnly
  Base = b
  Clients = {TRUE}
  Seeded = {}
  PageSize = 2
  SubscribeMayFail = FALSE
  CallsFail = FALSE
  MaxRuns = 1
  MaxPending = 1
  NoWork = NoWork
INVARIANTS
  CanceledRunSaysSo
CHECK_DEADLOCK FALSE
