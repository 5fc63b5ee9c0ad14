SPECIFICATION MCSpec
CONSTANTS
    Blank = Blank
    Torn = Torn
    Settings <- MCSettings
    PerChunk = 2
    Times = {1, 2}
    SeqNos = {1, 2}
    Data = {1, 2}
    MaxLen = 2
    MergeLimits = {0, 1, 2, 3}
    Callers = {c1, c2}
    Objects <- MCObjects
    NodeHas <- MCNodeHas
    NodeFixed = {"byte"}
    Unmapped = {"loose"}
    MapFixed = {}
    Calls <- MCCalls
    SeqTurn = 2
    SeqMax = 3
    StartSeq = {0, 2}
    MaxRequests = 3
    MaxForeign = 1
    StartNode <- MCStartNode
    Entries <- MCEntries
    Tools = {t1, t2}
    Inputs <- MCInputs
    MaxSlots = 2
    MaxPlanLost = 1
    NodeID = 1
    StartDevice <- MCStartDevice
    OtherPDO <- MCOtherPDO
    SelectKey = "select"
    StartReg <- MCStartReg
    Requests <- MCRequests
    MaxScan = 3
    MaxMapped = 3
    MaxLost = 2
    MaxImports = 1
    MaxCrashes = 1
    MaxScans = 1
INVARIANTS CommittedChunksAreKept  MergedAsPromised LateAnswersAreRecognised PlansAreAllOrNothing ScanReportsTheDevice PublishedIsSaved
CHECK_DEADLOCK FALSE
