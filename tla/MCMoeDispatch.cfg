SPECIFICATION DispatchSpec
CONSTANTS
    NumExperts = 3
    Batches <- MCBatches
    Cases <- MCCases
    ContractRows = 2
    MeasuredRows <- MCMeasured
    NoLimit = NoLimit
    CoopSlots = 3
    TempRows = 3
    Fat = 2
    CaptureTokens = 3
INVARIANTS
    EachRouteOnce
    RightBits
CHECK_DEADLOCK FALSE
