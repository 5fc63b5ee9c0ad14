SPECIFICATION MCSpec
CONSTANTS
    a = a
    b = b
    hostA = hostA
    hostB = hostB
    set = set
    NoResult = None
    NoKey = None
    NoHost = NoHost
    Callers <- MCCallers
    Conns <- MCConns
    Hosts <- MCHosts
    Order <- MCOrder
    Fixed = 0
    MaxNext = 2
    Keys <- MCFrames
    Results <- MCResults
    Devices <- MCDevices
    Fanouts <- MCFanouts
    TTL = 1
    MaxTime = 2
    MaxEntries = 2
    MaxCalls = 1
SYMMETRY MCSymmetry
INVARIANTS OneOwnerPerFlight SameHostSameDevice AddressedRepliesComeFromTheirDevice
PROPERTIES NotReroutedWithinTTL JoinersGetAnOutcome
CHECK_DEADLOCK FALSE
