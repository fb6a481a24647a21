CONSTANTS
  Procs = {p1}
  First = p1
  Numbers = {0, 1}
SPECIFICATION TrapSpec
CHECK_DEADLOCK FALSE
INVARIANT TrapsFromUserMode
