CONSTANTS
    PAGE_SIZE = 2
    ENTRIES = 2
    DIR_ENTRIES = 4
    MAX_TABLES = 3
    IDENTITY_END = 4
    KERNEL_END = 5
    Framebuffers <- MCFramebuffers
    Ranges <- MCRanges
    Pages <- MCPages
SPECIFICATION Spec
INVARIANTS
    TypeOK
    TablesOwnedOnce
    PagingOnIsSafe
    RangeMapped
    TlbCoherent
PROPERTY OnlyNamedPageChanges
CHECK_DEADLOCK FALSE
