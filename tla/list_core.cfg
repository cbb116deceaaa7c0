SPECIFICATION Spec
CONSTANTS
  d1 = d1  d2 = d2  d3 = d3  d4 = d4
  n1 = n1  m1 = m1
  Dirs = {d1, d2, d3, d4}
  NoDir = NoDir
  Names = {n1}
  Metas = {m1}
  Seed <- Chain
  Kinds = {"roots", "children", "parents", "until"}
  FirstPages = {0}
  Limits = {0, 1}
  DefaultPageSize = 2
  MaxInt = 31
  FastReads = TRUE
INVARIANTS
  TypeOK
  NothingIsOmitted
  NothingIsMadeUp
  FailsOnlyByDeletion
CHECK_DEADLOCK FALSE
