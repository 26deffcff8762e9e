SPECIFICATION FairSpec
CONSTANTS
    r1 = r1
    r2 = r2
    r3 = r3
    Rows <- MCRows
    Requests <- MCRequests
    Capacity = 2
    Callers = {c1, c2}
    Prefetcher = Prefetcher
    Faults = TRUE
    Nobody = Nobody
INVARIANTS
    OriginalBytesOnly
    ServedAsRequested
    ClosedIsQuiet
PROPERTIES
    ControlReleased
CHECK_DEADLOCK FALSE
