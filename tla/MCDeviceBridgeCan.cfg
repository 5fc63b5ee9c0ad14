INIT BridgeInit
NEXT BridgeNext
CONSTANTS
    BridgeParams <- MCBridgeParams
    Type <- MCType
    Kind <- MCKind
    Source <- MCSource
    Default <- MCDefault
    BridgeRequests <- MCBridgeRequests
    Writable = {"virtual", "mode", "target", "name"}
    OutOfRange = {"tenth"}
    ConstantValue = 7
    Sessions = {s1, s2}
    Roles = {"can"}
    Readings = {1, 2}
    Bounds <- MCBounds
INVARIANTS PlaceholdersAreNotPersisted
CHECK_DEADLOCK FALSE
