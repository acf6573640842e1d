SPECIFICATION Spec
CONSTANTS
    Quotes <- MCQuotes
    EntryPrice = 10
    Risk = 2
    MaxBars = 3
    Unit = 100
    FeeRate = 1
    SlippageRate = 1
INVARIANTS
    PositionCloses
    FillsAttainable
    DiffersOnlyByTrigger
CHECK_DEADLOCK FALSE
