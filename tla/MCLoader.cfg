SPECIFICATION LoadSpec
CONSTANTS
  PGSIZE = 2
  MAXVA = 12
  WORD = 14
  LOWVA = 2
  PHNUM = 3
  MAX_FILES = 5
INVARIANT RegionsRecorded
 
INVARIANT StdStreamsKept
CHECK_DEADLOCK FALSE
