SPECIFICATION MCSpec
CONSTANTS
    w1 = w1
    w2 = w2
    None = None
    Readers <- MCNone
    Streams <- MCNone
    Writers <- MCWriters
    Tools <- MCNone
    ProxyOn = FALSE
    Errors <- MCErrors
    MaxClients = 1
    Values = {1, 2}
    Faults = {9}
    MaxLeases = 2
    MaxLate = 1
    object = object
    sink = sink
    Params <- MCParams
    Configured <- MCConfigured
    RingParams <- MCRingParams
    BulkChunk = 1
    W = 13
    S = 5
    C = 4
    L = 3
    StartPtr = 8
    MaxHead = 8
    MaxRestarts = 1
    MinWindow = 2
    MaxWindow = 4
    Supports = {TRUE, FALSE}
    MaxFailures = 1
    BridgeParams <- MCBridgeParams
    Type <- MCType
    Kind <- MCKind
    Source <- MCSource
    Default <- MCDefault
    BridgeRequests <- MCBridgeRequests
    Writable = {"virtual", "mode", "target", "name"}
    OutOfRange = {"tenth"}
    ConstantValue = 7
    Sessions = {s1, s2}
    Roles = {"bridge", "serial", "can"}
    Readings = {1, 2}
    Bounds <- MCBounds
SYMMETRY MCSymmetry
INVARIANTS ReportsAreTrue WritesAreSerialized TurnWithinOneRotation RingValuesAreTheFramesRead
     ReadsAgree
PROPERTY NothingLostOrRepeated
CHECK_DEADLOCK FALSE
