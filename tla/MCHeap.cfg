CONSTANTS
    ALIGNMENT = 2
    SIZEOF_BLOCK = 2
    SIZE_SPACE = 32
    InitArgs <- MCInitArgs
    Sizes <- MCSizes
SPECIFICATION FairSpec
INVARIANTS
    TypeOK
    ListTilesHeap
    NoAdjacentFree
PROPERTIES
    OnlyLiveFreesAct
    FirstFit
    KmallocReturns
    HeapPoolRefined
CHECK_DEADLOCK FALSE
