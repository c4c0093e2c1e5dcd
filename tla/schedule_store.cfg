CONSTANTS
    Vms = {v1, v2}
    Legacy = {v2}
    Slots = {s1}
    Operators = {o1}
    MaxTime = 2
    MaxEdits = 1
    MaxFaults = 1
SPECIFICATION FairSpec
INVARIANT TypeOK
PROPERTIES OwnEntryOnly EditKeepsOutcome DueIsHandled
CHECK_DEADLOCK FALSE
