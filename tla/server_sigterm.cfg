SPECIFICATION Spec
CONSTANTS
  Procs = {p1}
  NoProc = NoProc
  Requests = {r1}
INVARIANTS
  TerminationIsCaught
CHECK_DEADLOCK FALSE
