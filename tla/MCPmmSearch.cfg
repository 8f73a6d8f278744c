CONSTANTS
    WORD = 4
    MAX_BLOCKS = 8
    MAX_COUNT = 4
SPECIFICATION FairSpec
INVARIANT SearchCorrect
PROPERTY SearchReturns
CHECK_DEADLOCK FALSE
