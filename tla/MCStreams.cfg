SPECIFICATION MCSpec
CONSTANTS
    W = 13
    S = 5
    C = 4
    L = 3
    MaxChunks = 2
    FailureLimit = 3
    ResetLimit = 3
    WindowLimit = 4
    Capacity = 1
    StartPtr = 8
    MaxHead = 12
    MaxRestarts = 1
    OutBuffer = 2
    PerCycle = 2
    MaxItems = 7
    None = None
    s1 = s1
    s2 = s2
    s3 = s3
    Subs <- MCSubs
    AddrOf <- MCAddrOf
    Addresses = {1, 2}
    Configured = {1}
    Buffer = 1
    MaxPolls = 3
INVARIANTS OnlyCutMarkersAreSkipped NewestIsKept NewestBatchIsKept
PROPERTIES CatchesUpOrStops StreamNeverHangs LockIsReleased
CHECK_DEADLOCK FALSE
