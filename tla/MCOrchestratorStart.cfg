SPECIFICATION StartSpec
CONSTANTS
    a1 = a1  a2 = a2  a3 = a3  c1 = c1  c2 = c2
    Agent = {a1, a2, a3}
    Capability = {c1, c2}
    Action = {}
    Needed <- NeededStages
INVARIANTS
    StartTypeOK
    StagesAreStaffed
    RaisesForAReason
CHECK_DEADLOCK FALSE
