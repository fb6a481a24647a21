CONSTANTS
  NPROC = 2
  Machines <- MCFreeMachines
  PAGES = 30
  HEAP = 1
  CAREFUL = FALSE
SPECIFICATION Spec
CHECK_DEADLOCK FALSE
PROPERTY FreeInvalidates
