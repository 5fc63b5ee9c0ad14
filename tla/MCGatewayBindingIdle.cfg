SPECIFICATION FairBindingSpec
CONSTANTS
    r1 = r1
    r2 = r2
    s1 = s1
    t1 = t1
    t2 = t2
    None = None
    Readers <- MCOneReader
    Streams <- MCStreams
    Writers <- MCNone
    Tools <- MCOneTool
    ProxyOn = TRUE
    Errors <- MCTimeouts
    MaxClients = 2
PROPERTIES NextRequestReconnects
