SPECIFICATION Spec
CONSTANTS
    Node = {n1, n2}
    Value = {v1, v2}
    Nil = Nil
    MaxUint = 9
    MaxTerm = 3
    MaxAbandoned = 0
    MaxCrashes = 0
SYMMETRY Symmetry
VIEW NoHistory
INVARIANTS
    AckedIsApplied
