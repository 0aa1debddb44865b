SPECIFICATION ToolsSpec
CONSTANTS
    Clients = {c1}
    Args = {a1}
    MaxRuns = 2
    Calls = {1, 2}
    Holds = {1, 2}
    GateLossy = FALSE
    Lossy = FALSE
    MaxCrashes = 0
    GrantKeys = {"grandfather", "order"}
    MaxHold = 2
    Costs = {1, 3}
    Grandfather = 3
    TopUp = 2
    Price = 2
INVARIANTS
    NoSecondEffect
CHECK_DEADLOCK FALSE
