CONSTANTS
    MaxBackups = 2
    FullEvery = 2
    Slots = {s1}
    Keepers = {}
    Deleters = {d1}
    Overlap = TRUE
    ReadErrors = FALSE
SPECIFICATION Spec
INVARIANT ChainsIntact
CHECK_DEADLOCK FALSE
