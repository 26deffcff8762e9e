SPECIFICATION PluginSpec
CONSTANTS
    Platforms = {"gb10"}
    Dtypes = {"nvfp4", "fp8"}
    Broken <- MCBroken
    Drifts <- MCDrifts
    Early <- MCEarly
    Objects = {o1, o2, o3}
    Addresses = {a1, a2}
    MaxVersion = 1
    Copies <- MCCopies
    Layers = {"qkv", "ngram", "other"}
    Setups <- MCSetups
INVARIANTS
    PoolsReachTheirKernels
    ServedScalesAreUnit
    CaptureIsSafe
    WrappedExactlyOnce
    LoadedTablesAreReal
    OperatorsReachTheirLayer
SYMMETRY MCSymmetry
CHECK_DEADLOCK FALSE
