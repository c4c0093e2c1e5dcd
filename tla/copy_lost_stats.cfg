CONSTANTS
    Copiers = {c1}
    Disks = {d1, d2}
    Base = Base
    None = None
    Torn = Torn
    Stray = Stray
    Lossy = TRUE
    MaxWrites = 2
    MaxEvents = 0
SPECIFICATION Spec
INVARIANT NeverHalfWritten
