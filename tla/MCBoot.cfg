SPECIFICATION MCSpec
CONSTANTS
  Trees <- MCTrees
  CELL = 64
  SELF = 17
  DRAM_BASE = 16
  PKE_MAX_ALLOWABLE_RAM = 16
  PGSIZE = 2
  FAN = 4
  TIMER_INTERVAL = 3
  LATE = 2
  Layouts <- MCLayouts
  WORD = 2
  SIZE = 6
  INT = 2
  DEC = 3
  HEX = 4
  MEM = 6
  Calls <- MCCalls
  Jobs <- MCJobs
CHECK_DEADLOCK FALSE
INVARIANTS
  ScanMatchesTree
  FreePagesUsable
  KernelMapped
  
  StringsMatch
PROPERTIES
  BootEnds
  
  TicksArrive
