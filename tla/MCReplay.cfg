SPECIFICATION BacktestSpec
CONSTANTS
    None = None
    LastTime = 5
    Ratio = 2
    Times <- MCTimes
    Bars <- MCBars
    ExitOnReversal = TRUE
    Unit = 10
    Quantity = 1
    FeeRate = 1
    SlippageRate = 1
INVARIANTS
    HeldWithHema
    NoLookAhead
    AccountFollows
    ReportReconciles
CHECK_DEADLOCK FALSE
