CONSTANTS
    Keys <- MCKeys
    MaxDown = 3
    MaxQueue = 1
SPECIFICATION Spec
INVARIANTS
    NoStuckModifier
PROPERTY TypedAsHeld
CHECK_DEADLOCK FALSE
