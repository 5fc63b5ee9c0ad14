SPECIFICATION FairSpec
CONSTANTS
    c1 = c1
    c2 = c2
    None = None
    Clients <- MCOneClient
    Servers = {"router"}
    Routes <- MCTwoRoutes
    Native = {}
    Dynamic = FALSE
    QueueCap = 1
    MaxCalls = 1
    MaxReqs = 4
    MaxErrors = 0
    MayStop = TRUE
INVARIANT ReadsExhaustTheirRoutes
PROPERTY NobodyWaitsForEver
CHECK_DEADLOCK FALSE
