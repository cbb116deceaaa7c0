SPECIFICATION FairSpec
CONSTANTS
  b = b  c = c  g = g
  Dirs = {b, c, g}
  NoDir = NoDir
  First <- BaseOnly
  Base = b
  Clients = {TRUE}
  Seeded = {}
  PageSize = 1
  SubscribeMayFail = FALSE
  CallsFail = FALSE
  MaxRuns = 1
  MaxPending = 1
  NoWork = NoWork
PROPERTIES
  DirectoriesAreFound
CHECK_DEADLOCK FALSE
