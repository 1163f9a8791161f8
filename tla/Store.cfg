SPECIFICATION StoreSpec
CONSTANTS
    Node = {n1, n2}
    v1 = v1
    v2 = v2
    r1 = r1
    k = k
    a = a
    b = b
    Value = {v1, v2}
    Read = {r1}
    Key = {k}
    Op <- Ops
    Before <- Terminals
    Absent = Absent
    NoAnswer = NoAnswer
    Nil = Nil
    MaxUint = 9
    MaxTerm = 2
    MaxAbandoned = 0
    MaxCrashes = 1
SYMMETRY NodesAlike
VIEW Relevant
INVARIANTS
    StoreTypeOK
    ReplicasAgree
    StillAnswerable
    AnsweredIsReplicated
PROPERTIES
    Implements
CHECK_DEADLOCK FALSE
