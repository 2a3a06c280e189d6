SPECIFICATION StatSpec
CONSTANTS
    MaxSample = 3
    MaxRuns = 5
    MaxFiles = 3
    MaxTicks = 2
CHECK_DEADLOCK FALSE
INVARIANTS
    FiguresConsistent
    BandWithinDistribution
    HistogramKeepsRequests
