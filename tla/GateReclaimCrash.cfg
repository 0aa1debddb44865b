SPECIFICATION GateSpec
CONSTANTS
    Procs = {p1}
    Calls = {c1, c2, c3}
    Args = {a1, a2}
    UniqueIndex = TRUE
    Lossy = FALSE
    MayFail = TRUE
    MemoryExpires = TRUE
    MaxRuns = 3
    MaxCrashes = 1
INVARIANTS
    AtMostOneEffect
\* Clients may all be content with their answers.
CHECK_DEADLOCK FALSE
