SPECIFICATION Spec
CONSTANTS
    PageSize = 2
    Attempts = 3
    MaxBars = 5
    Horizon = 6
    Rows <- MCRows
INVARIANTS
    ExactRange
    RequestsBounded
CHECK_DEADLOCK FALSE
