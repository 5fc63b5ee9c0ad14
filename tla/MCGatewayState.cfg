SPECIFICATION MCSpec
CONSTANTS
    d1 = d1
    d2 = d2
    h1 = h1
    h2 = h2
    g1 = g1
    g2 = g2
    Devices = {d1, d2}
    Holders = {h1, h2}
    TTLs = {1, 3}
    MaxTime = 5
    MaxTokens = 4
    NoLease = NoLease
    Loads = {200, 300, 1800}
    Spikes <- MCSpikes
    Targets = {0, 500}
    SetPoints <- MCSetPoints
    MaxEvents = 3
    Window = 2
    Pairs = 2
    Channel = 2
    MaxRings = 2
    MaxTaken = 6
    Configured = {1}
    SeriesOf <- MCSeries
    Recorders = {g1, g2}
    Hot = 2
    Finest = 2
    Retention = 3
    Quiet = 1
    Levels = {1, 3}
    Ranges <- MCLongRange
    Spark = 2
    ImportLimit = 2
    Bodies <- MCBodies
    Rows <- MCRows
    Bad = Bad
    MaxClock = 4
    MaxSamples = 3
INVARIANTS   HotTilesAreExact 
PROPERTIES DeadTokenStaysDead NoTakeover 
CHECK_DEADLOCK FALSE
