CONSTANTS
    BLOCK_SIZE = 4
    MAX_BLOCKS = 10
    UINT64 = 80
    LOW_MEMORY = 4
    FALLBACK_END = 32
    KERNEL_START = 5
    KERNEL_END = 9
    Boots <- LastPageBoots
    Counts = {0, 1, 2, 3}
SPECIFICATION Spec
INVARIANT OnlyWholePagesReleased
CHECK_DEADLOCK FALSE
