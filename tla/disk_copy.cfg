CONSTANTS
    Copiers = {c1}
    Disks = {d1, d2}
    Base = Base
    None = None
    Torn = Torn
    Stray = Stray
    Lossy = FALSE
    MaxWrites = 2
    MaxEvents = 1
SPECIFICATION FairSpec
INVARIANTS TypeOK 
PROPERTY Undone
