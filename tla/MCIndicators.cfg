SPECIFICATION Spec
CONSTANTS
    NA = NA
    Null = Null
    FastLength = 2
    SlowLength = 4
    AtrPeriod = 3
    Factor = 1
    V3 = 20
    Drift = 5
    Scale = 100
    Quotes <- MCQuotes
    MaxBars = 8
INVARIANTS
    Persistable
    TrendSide
PROPERTIES
    FeedsReplay
    Ratchets
CHECK_DEADLOCK FALSE
