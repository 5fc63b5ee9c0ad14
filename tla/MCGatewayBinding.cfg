SPECIFICATION TalkativeSpec
CONSTANTS
    r1 = r1
    r2 = r2
    s1 = s1
    t1 = t1
    t2 = t2
    None = None
    Readers <- MCReaders
    Streams <- MCStreams
    Writers <- MCNone
    Tools <- MCTools
    ProxyOn = TRUE
    Errors <- MCErrors
    MaxClients = 3
INVARIANTS HealthyClientsStayOpen BindingIsWhole NoLeakedClient
PROPERTY NextRequestReconnects
