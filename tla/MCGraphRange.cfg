SPECIFICATION GraphSpec
CONSTANTS
    g1 = g1
    g2 = g2
    Configured = {1}
    SeriesOf <- MCOneSeries
    Recorders = {g1}
    Hot = 2
    Finest = 2
    Retention = 3
    Quiet = 1
    Levels = {1, 3}
    Ranges <- MCShortRange
    Spark = 2
    ImportLimit = 2
    Bodies <- MCEmpty
    Rows <- MCEmpty
    Bad = Bad
    MaxClock = 6
    MaxSamples = 3
INVARIANT RangesAreBackfilled
CHECK_DEADLOCK FALSE
