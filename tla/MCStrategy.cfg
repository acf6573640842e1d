SPECIFICATION Spec
CONSTANTS
    None = None
    LastTime = 4
    Times <- MCTimes
    Bars <- MCBars
    ExitOnReversal = TRUE
INVARIANTS
    PendingSound
    NoTradeAgainstBias
    FreshSetup
    StopHonoured
    ExitPriceTraded
PROPERTIES
    NoSameBarReversal
    FlipAnswered
    ImplementsLifecycle
CHECK_DEADLOCK FALSE
