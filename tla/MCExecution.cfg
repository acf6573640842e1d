SPECIFICATION FairSpec
CONSTANTS
    None = None
    Unloaded = Unloaded
    LastCandle = 3
    Runtimes = {r1, r2}
    Decisions <- MCDecisions
    MaxFaults = 2
INVARIANTS
    BooksAgree
    Explained
    Decodable
    RecoveryExact
    NoStandoff
PROPERTIES
    HistoryFinal
    CatchesUp
    ImplementsPaperTrading
CHECK_DEADLOCK FALSE
