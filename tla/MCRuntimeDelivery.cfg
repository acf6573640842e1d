SPECIFICATION Spec
CONSTANTS
    Ratio = 2
    Settings <- MCSaveFails
    Horizon = 5
    MaxFaults = 1
INVARIANTS
    AllDelivered
