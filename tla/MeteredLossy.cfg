SPECIFICATION FairSpec
CONSTANTS
    Holds = {c1, c2}
    Calls = {c1, c2}
    GrantKeys = {"grandfather", "order"}
    MaxHold = 2
    Costs = {1, 3}
    Grandfather = 3
    TopUp = 2
    Lossy = TRUE
    MaxCrashes = 1
INVARIANTS
    TypeOK
    LedgerExplainsBalance
    ReceiptMatchesLedger
    ChargeBounded
    ToolRunsOnHeldCredits
    NoHoldForgotten
PROPERTIES
    HoldsSettle
\* Every call may have been answered.
CHECK_DEADLOCK FALSE
