SPECIFICATION Spec
CONSTANTS
    BlockSize = 2
    Quad = 2
    DataBytes = 1
    ScaleBytes = 4
    NumKvHeads = 2
    NumPages = 6
    Nothing = Nothing
    Reqs = {1, 2}
    MaxBlocks = 4
    TopK = 3
    ProgramBudget = 8
    ProbeStep = 1
    MaxProbe = 2
    Caps = {2}
    Chunks = {1, 4}
    DecodeLens = {1, 2}
    MaxCalls = 3
    BatchBudget = 5
    CaptureSize = 2
    Orders <- MCOrders
    Picks <- MCPicks
    Extra = 3
    FloatBits = 6
    Quotients = {0, 1, 2, 3, 5, 6, 7, 9, 10, 11, 13, 14, 15, 19, 20, 21, 27, 28, 29, 39, 40, 41, 48, 100}
    Exponents = {0, 1, 2, 3, 4, 5, 6, 7, 8, 9, 10, 11, 12, 13, 14, 15, 16}
INVARIANTS
    QueriesAttendOwnTokens
    PoolHoldsLatest
    PrefillSlicesRight
    WrittenValuesKept
CHECK_DEADLOCK FALSE
