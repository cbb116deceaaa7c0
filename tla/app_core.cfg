SPECIFICATION FairSpec
CONSTANTS
  b = b  c = c  g = g
  Dirs = {b, c, g}
  NoDir = NoDir
  First <- BaseOnly
  Base = b
  Clients = {TRUE, FALSE}
  Seeded = {}
  PageSize = 2
  SubscribeMayFail = TRUE
  CallsFail = TRUE
  MaxRuns = 2
  MaxPending = 1
  NoWork = NoWork
INVARIANTS
  TypeOK
  TracksItsTreeOnly
  StoreTellsTheTruth
  ReconciledOnce
  OneChangeLostPerRun
PROPERTIES
  DirectoriesAreFound
  CancelEndsRun
CHECK_DEADLOCK FALSE
