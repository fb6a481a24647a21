CONSTANTS
  MaxCalls = 6
  MaxTyped = 3
SPECIFICATION FairSpec
CHECK_DEADLOCK FALSE
INVARIANTS
  SyscallReturnsResult
  CommandsInOrder
  NoAssertionFails
  KeysInOrder
PROPERTY CallsReturn
