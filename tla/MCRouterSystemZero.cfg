SPECIFICATION MCSpec
CONSTANTS
    a = a
    b = b
    hostA = hostA
    hostB = hostB
    set = set
    NoResult = None
    NoKey = None
    NoHost = NoHost
    Callers <- MCCallers
    Conns <- MCConns
    Hosts <- MCHosts
    Order <- MCOrder
    Fixed = 0
    MaxNext = 2
    Keys <- MCZeroFrames
    Results <- MCResults
    Devices <- MCDevices
    Fanouts <- MCNoFanouts
    TTL = 1
    MaxTime = 2
    MaxEntries = 2
    MaxCalls = 2
INVARIANT RepliesComeFromOwnDevice
CHECK_DEADLOCK FALSE
