CONSTANTS
    Ids = {i1, i2}
    Peers = {p1, p2}
    None = None
    MaxAsks = 2
    MaxEvents = 2
SPECIFICATION FairSpec
INVARIANTS TypeOK Guarded AnswerStands
PROPERTIES Recovers
CHECK_DEADLOCK FALSE
