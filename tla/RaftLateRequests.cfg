SPECIFICATION Spec
CONSTANTS
    Node = {n1, n2}
    Value = {v1, v2}
    Nil = Nil
    MaxUint = 9
    MaxTerm = 2
    MaxAbandoned = 1
    MaxCrashes = 1
SYMMETRY Symmetry
VIEW NoHistory
INVARIANTS
    TypeOK
    NextIndexInRange
    RequestCoversLog
    AppliedGapless
    LeaderNeverPanics
    MatchIndexHonest
