CONSTANTS
    Vms = {v1, v2}
    First = v1
    Ips = {a}
    Rules = {r1, r2}
    Oldest = r1
    Open = open
    Default = default
    Junk = junk
    Absent = absent
    Null = null
    Nothing = nothing
    MaxEvents = 2
SPECIFICATION FairSpec
INVARIANTS TypeOK NoDraft
PROPERTIES JumpsStay Follows ForeignLeaves
CHECK_DEADLOCK FALSE
