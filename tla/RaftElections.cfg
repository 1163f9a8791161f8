SPECIFICATION Spec
CONSTANTS
    Node = {n1, n2, n3}
    Value = {}
    Nil = Nil
    MaxUint = 9
    MaxTerm = 2
    MaxAbandoned = 0
    MaxCrashes = 1
SYMMETRY Symmetry
INVARIANTS
    ElectionInv
    ElectionSafety
    VoteOnce
    LeadershipFlags
PROPERTIES
    TermAndVoteStick
