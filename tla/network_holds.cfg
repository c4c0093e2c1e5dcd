CONSTANTS
    Makers = {v1}
    Attachers = {a1}
    Removers = {w1}
    Ids = {n1, n2}
    First = n1
    Ips = {i1}
    Os = os
    Nothing = nothing
    MaxFaults = 1
SPECIFICATION FairSpec
INVARIANTS TypeOK OnNetwork Reserved OneHolder
PROPERTIES HoldsEnd
CHECK_DEADLOCK FALSE
