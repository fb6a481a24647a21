CONSTANTS
  NPROC = 3
  Machines <- MCMachines
  PAGES = 44
  HEAP = 3
  CAREFUL = TRUE
SPECIFICATION Spec
CHECK_DEADLOCK FALSE
INVARIANTS
  TypeOK
  
  CodeIsShared
  
 
