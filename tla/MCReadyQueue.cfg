CONSTANT NPROC = 4

SPECIFICATION Spec

INVARIANTS
    TypeOK
    ListIntact

PROPERTIES
    ImplementsFifo
    InsertReturns
