SPECIFICATION GateSpec
CONSTANTS
    Procs = {p1}
    Calls = {c1, c2, c3}
    Args = {a1, a2}
    UniqueIndex = TRUE
    Lossy = FALSE
    MayFail = FALSE
    MemoryExpires = TRUE
    MaxRuns = 3
    MaxCrashes = 2
INVARIANTS
    TypeOK
    OneHolderPerProcess
    AtMostOneEffect
    AnswersAreTrue
PROPERTIES
    ClaimsSettle
    KeepsContract
\* Clients may all be content with their answers.
CHECK_DEADLOCK FALSE
