CONSTANTS
    LINHA_MAX = 24
    Geometries <- MCGeometries
    MAX_Y = 495
    SCREEN_SPACE = 1073741824
    Frames <- MCFrames
SPECIFICATION HSpec
INVARIANTS
    TermTypeOK
    LineOnScreen
    HeaderInFrame
    HeaderKept
CHECK_DEADLOCK FALSE
