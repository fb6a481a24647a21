CONSTANTS
  NPROC = 3
  Machines <- MCDataMachines
  PAGES = 46
  HEAP = 1
  CAREFUL = TRUE
SPECIFICATION Spec
CHECK_DEADLOCK FALSE
INVARIANT DataDuplicated
