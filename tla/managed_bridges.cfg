CONSTANTS
    n1 = n1
    n2 = n2
    x1 = x1
    Nets = {n1, n2}
    Nics = {x1}
    Old = {n1}
    None = None
    Other = Other
    Gone = Gone
    MaxAsks = 1
    MaxEvents = 2
SPECIFICATION FairSpec
INVARIANTS TypeOK
PROPERTIES  Recovers
CHECK_DEADLOCK FALSE
