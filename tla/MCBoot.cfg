CONSTANTS
    UINT32 = 256
    UINT64 = 512
    WORD = 1
    ENTRY_MIN_SIZE = 2
    Maps <- MCMaps
    VIDEO_SPACE = 256
    PIXEL = 2
    MIN_LARGURA = 3
    MIN_ALTURA = 4
    MARGEM = 1
    CHAR_LARGURA = 1
    CHAR_ALTURA = 2
    LINHA_ALTURA = 3
    SEP_DY = 1
    GAP = 1
    SEP_COLUNAS = 3
    TEXT_MAX = 5
    Texts <- MCTexts
    Geometries <- MCGeometries
    GDT_BASE = 69632
    TSS_BASE = 19088743
    KERNEL_STACK = 90112
    BLOCK_SIZE = 16
    MAX_BLOCKS = 16
    LOW_MEMORY = 16
    FALLBACK_END = 128
    KERNEL_START = 17
    KERNEL_END = 47
    ENTRIES = 2
    DIR_ENTRIES = 8
    MAX_TABLES = 5
    IDENTITY_END = 64
    ALIGNMENT = 8
    SIZEOF_BLOCK = 8
    HEAP_INITIAL_SIZE = 33
    Descriptions <- MCDescriptions
SPECIFICATION FairSpec
INVARIANTS
    ReadsInMap
    TotalsExact
    PanicInFrame
    HeapHoldsItsPages
    FaultsShown
PROPERTIES
    WalksAgree
    BootSettles
CHECK_DEADLOCK FALSE
