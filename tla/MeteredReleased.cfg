SPECIFICATION Spec
CONSTANTS
    Holds = {c1, c2}
    Calls = {c1, c2}
    GrantKeys = {"grandfather", "order"}
    MaxHold = 2
    Costs = {1, 3}
    Grandfather = 3
    TopUp = 2
    Lossy = TRUE
    MaxCrashes = 0
INVARIANTS
    ReleasedMeansRefunded
\* Every call may have been answered.
CHECK_DEADLOCK FALSE
