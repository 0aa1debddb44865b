SPECIFICATION ToolsSpec
CONSTANTS
    Clients = {c1, c2}
    Args = {a1}
    MaxRuns = 2
    Calls = {1, 2}
    Holds = {1, 2}
    GateLossy = TRUE
    Lossy = TRUE
    MaxCrashes = 0
    GrantKeys = {"grandfather", "order"}
    MaxHold = 2
    Costs = {1, 3}
    Grandfather = 3
    TopUp = 2
    Price = 2
SYMMETRY Symmetry
INVARIANTS
    ToolsTypeOK
    
PROPERTIES
    KeepsContract
CHECK_DEADLOCK FALSE
