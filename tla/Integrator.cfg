SPECIFICATION Spec
CONSTANTS
    Host = {c, h1, h2}
    Worker = {h1, h2}
    Points = {0, 1, 5, 6}
    MaxUnupdated = 5
    Nil = Nil
INVARIANTS
    TypeOK
    RequestsHoldAllPoints
    FdsFindTheirRequests
    SumIsComplete
    GivesUpOnTheDead
    AssertsOnlyThen
PROPERTIES
    CalcEnds
