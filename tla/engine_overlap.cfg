CONSTANTS
    MaxBackups = 2
    FullEvery = 2
    Slots = {s1}
    Keepers = {k1}
    Deleters = {d1}
    Overlap = TRUE
    ReadErrors = FALSE
SPECIFICATION Spec
PROPERTIES OnlyRemovedOnPurpose OwnDirKept SeenDependentsGoFirst PromisedCheckpointsKept
CHECK_DEADLOCK FALSE
