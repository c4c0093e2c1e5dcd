CONSTANTS
    MaxBackups = 2
    FullEvery = 2
    Slots = {s1}
    Keepers = {k1}
    Deleters = {}
    Overlap = FALSE
    ReadErrors = TRUE
SPECIFICATION FairSpec
INVARIANT ChainsIntact
PROPERTIES RunsEnd CallsEnd
CHECK_DEADLOCK FALSE
