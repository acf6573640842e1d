SPECIFICATION FairSpec
CONSTANTS
    Ratio = 2
    Settings <- MCSettings
    Horizon = 6
    MaxFaults = 2
INVARIANTS
    NoGaps
    BiasComplete
    MemoryDurable
PROPERTIES
    ClosedOnly
    CatchesUp
