CONSTANTS
  Procs = {p1, p2}
  First = p1
  Numbers = {0, 1}
SPECIFICATION TrapSpec
CHECK_DEADLOCK FALSE
INVARIANTS
  ContextKept
  EntryFindsProcess
  TranslationsFresh
