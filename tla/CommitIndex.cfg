SPECIFICATION Spec
CHECK_DEADLOCK FALSE
CONSTANTS
    MaxNodes = 5
    MaxIndex = 3
    MaxUint = 9
INVARIANTS
    ResultIsCommitIndex
    GroupsCounted
