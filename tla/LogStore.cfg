SPECIFICATION Spec
CHECK_DEADLOCK FALSE
CONSTANTS
    Value = {a, b}
    MaxPieces = 4
    MaxEnds = 2
    MaxShortDumps = 1
INVARIANT FileFollowsMemory
PROPERTY RestartIsPrefix
