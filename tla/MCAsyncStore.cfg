SPECIFICATION Spec
CONSTANTS
    k1 = k1
    k2 = k2
    k3 = k3
    Keys <- MCKeys
    Callers = {c1, c2}
    Slots = 2
    Plans <- MCPlans
    Faults = TRUE
    Retain <- MCKeys
    Nobody = Nobody
SYMMETRY Symmetry
INVARIANTS
    StagingAccounted
    LeaseExclusive
    NeverUnverified
    QueueServed
PROPERTIES
    ImplementsStagingSlots
    PlannedWorkKept
CHECK_DEADLOCK FALSE
