SPECIFICATION FairSpec
CONSTANTS
    a1 = a1
    a2 = a2
    a3 = a3
    Keys <- MCKeys
    LayerOf <- MCLayerOf
    SizeOf <- MCSizeOf
    Quota <- MCQuota
    Align = 1
    Callers = {c1, c2}
    Streams = {s1, s2}
    MaxWork = 1
    Nobody = Nobody
INVARIANTS
    AccountsExact
    NoReuseUnderKernel
    BusyOnlyIfLeased
PROPERTIES
    LockReleased
