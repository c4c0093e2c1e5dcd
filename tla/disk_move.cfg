CONSTANTS
    Dirs = {d1, d2}
    Home = d1
    Movers = {m1, m2}
    Callers = {c1}
    Nobody = nobody
    Nowhere = nowhere
    Gone = gone
    MaxVersion = 2
    MaxFaults = 2
SPECIFICATION FairSpec
INVARIANTS TypeOK HolderMoves LatestKept Settled
PROPERTIES BootsLatest HoldEnds
