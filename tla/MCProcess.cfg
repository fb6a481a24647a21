CONSTANTS
    NPROC = 3
    TIME_SLICE_LEN = 2

SPECIFICATION FairSpec

INVARIANTS
    TypeOK
    ReadyAccounted
    SchedulerNeverPanics
    ShutdownAfterExits
    ForkTellsParentFromChild
    FamilyTree
    SliceBounded

PROPERTIES
    ZombieIsFinal
    
    NoStarvation
