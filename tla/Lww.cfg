SPECIFICATION Spec
CHECK_DEADLOCK FALSE
CONSTANTS
    Node = {0, 1}
    Key = {k1}
    Value = {a}
    Deleted = Deleted
    Nothing = Nothing
    MaxChanges = 3
    MaxPerKey = 1
    MaxCrashes = 1
INVARIANTS
    TypeOK
    StorageIsNewest
    TimestampsDifferOneLife
PROPERTIES
    ReadsOnlyAdvance
    EventuallyEqual
