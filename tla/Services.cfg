SPECIFICATION ServicesSpec
CONSTANTS
    Orders = {o1, o2}
    Customers = {cust1}
    Owner <- OneOwner
    Subscriptions = {o2}
    Unmapped = {o2}
    Requests = {d1, d2}
    MaxAttempts = 2
    MaxCrashes = 1
    Emails = {e1}
    Clicks = {c1, c2}
    MaxLinks = 2
    StoreMayFail = FALSE
    ReadsMayFail = TRUE
    MaxRestarts = 1
    Callers = {p1, p2}
    Limit = 2
    Days = 2
    MaxCalls = 3
    Lossy = TRUE
    Parties = {d1, d2}
    Screens = {s1}
    StaleAfterDays = 1
    KeepPercent = 50
    MaxDay = 4
    MaxRuns = 2
    Lookups = {d1, d2}
    TTL = 2
    MaxAge = 2
    MaxTime = 3
    Words = {"rosneft", "oil", "llc", "gru"}
    Generic = {"llc"}
    Short = {"gru"}
    Percent = 60
    Top = 1
    MaxWider = 1
    Lists <- SmallLists
    ShipmentLists <- TradeLists
    Named <- PartyNames
    MaxParties = 2
    Parts = {"polar", "keys", "quota", "index", "files", "match", "trade"}
SYMMETRY Symmetry
INVARIANTS
    ServicesTypeOK
    NoOrderForgotten
    RefundTakesAccess
    RefusalsAreTrue
    RefusalsAreDue
    QuotaHolds
    CleanIsCurrent
    HitsAreCurrent
    CopiesAreCurrent
    AgeIsTold
    CleanMeansUnlisted
    HitsAreExact
    VerdictIsTrue
CHECK_DEADLOCK FALSE
