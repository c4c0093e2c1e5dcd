CONSTANTS
    MaxBackups = 3
    FullEvery = 2
    Slots = {s1}
    Keepers = {}
    Deleters = {d1}
    Overlap = FALSE
    ReadErrors = FALSE
SPECIFICATION Spec
INVARIANTS TypeOK ChainsIntact
PROPERTY CatalogSpec
CHECK_DEADLOCK FALSE
