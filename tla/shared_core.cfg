SPECIFICATION Spec
CONSTANTS
  a = a  b = b  d = d
  Dirs = {a, b, d}
  NoDir = NoDir
  First <- RootAndBase
  Base = b
  Controllers = {k1, k2}
  NoWork = NoWork
  MaxStarts = 3
SYMMETRY ControllerSymmetry
INVARIANTS
  TypeOK
  HeardOnce
  HeardInTurn
  DeletionsCalledPerStart
  OneChangeLostPerStart
  AloneInOrder
CHECK_DEADLOCK FALSE
