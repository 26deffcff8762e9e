SPECIFICATION Spec
CONSTANTS
    NumExperts = 2
    Remote = Remote
    Global <- MCGlobal
    LocalOf <- MCLocalOf
    Offset <- MCOffset
    Cases <- MCPlanned
INVARIANTS
    ReadyIsLoaded
CHECK_DEADLOCK FALSE
