SPECIFICATION Spec
CONSTANTS
  d1 = d1  d2 = d2  d3 = d3  d4 = d4  d5 = d5
  Dirs = {d1, d2, d3, d4, d5}
  NoDir = NoDir
  First <- Family
  Requests = {r1, r2, r3}
  NoRequest = NoRequest
  PageSize = 2
SYMMETRY RequestSymmetry
INVARIANTS
  TypeOK
  OnlyWhatWasAskedFor
  SuccessIsComplete
  HalfDeletionsHaveARival
  ListingsAreWhole
PROPERTIES
  DeletionsStand
  TreeUntilDeletionsOverlap
CHECK_DEADLOCK FALSE
