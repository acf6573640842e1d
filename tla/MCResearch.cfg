CONSTANTS
    None = None
    DayBars = 2
    Lookback = 1
    Windows <- MCWindows
    Parts <- MCParts
    Delays = {1, 2}
    Risk = 5
    EfficiencyBars = {2}
    FlipWindow = 3
    PersistenceIqr <- MCPersistenceIqr
    FirstTrend = "long"
    FirstHema = "short"
    RetentionFloor <- MCFloor
    TradeFloor = 1
    Quotes <- MCQuotes
    QuietQuotes <- MCQuietQuotes
    ExitQuotes <- MCExitQuotes
    MaxTime = 9
    MaxFlips = 3
    MaxDetours = 1
    FlipBars <- MCFlipBars
SPECIFICATION Spec
INVARIANTS
    PipelineConsistent
    StudiesAgree
PROPERTIES
    RowsFinal
    EvidenceFrozen
    UnlockedByValidation
CHECK_DEADLOCK FALSE
