SPECIFICATION BusinessSpec
CONSTANTS
    Calls = {c1, c2}
    WithJobs = {c2}
    Agents = {x1, x2}
    Anonymous = Anonymous
    None = None
    Lossy = TRUE
    MayDrop = FALSE
    MaxTries = 2
    MaxCrashes = 1
    Addresses = {"plus", "bare", "mail"}
    Bare = {"bare"}
    Mail = {"mail"}
    PersonOf <- OnePhone
    Stops = {x1, x2}
    Sends = {x1, x2}
    Page = 1
    ReadMayFail = TRUE
    MaxRestarts = 1
    MaxRequests = 3
    Runs = {x1, x2}
    Replies = {h1}
    MinDigest = 2
    DigestMax = 2
SYMMETRY Symmetry
INVARIANTS
    BusinessTypeOK
    ReceiptsAreTrue
    OutcomesSurvive
    OnlyOwnersCancel
    BookedOnce
    StopsHold
    OnlyTheSeenLeave
    NumbersHold
\* Calls, sends and requests may all have been answered.
CHECK_DEADLOCK FALSE
