SPECIFICATION Spec
CONSTANTS
    c1 = c1
    c2 = c2
    None = None
    Clients <- MCClients
    Servers = {"router", "single"}
    Routes <- MCTwoRoutes
    Native = {"serial"}
    Dynamic = TRUE
    QueueCap = 1
    MaxCalls = 2
    MaxReqs = 2
    MaxErrors = 1
    MayStop = FALSE
SYMMETRY MCSymmetry
INVARIANTS AnswersAreForThisCall
PROPERTY ImplementsContract
CHECK_DEADLOCK FALSE
