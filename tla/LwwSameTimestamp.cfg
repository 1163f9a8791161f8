SPECIFICATION Spec
CHECK_DEADLOCK FALSE
CONSTANTS
    Node = {0, 1}
    Key = {k1}
    Value = {a}
    Deleted = Deleted
    Nothing = Nothing
    MaxChanges = 2
    MaxPerKey = 1
    MaxCrashes = 1
INVARIANT TimestampsDiffer
