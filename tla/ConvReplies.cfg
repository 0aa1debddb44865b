SPECIFICATION Spec
CONSTANTS
    Threads = {t1, t2, t3}
    Replies = {m1}
    Handlers = {h1, h2}
    Pool <- TwoNumbers
    Refs = {r1, r2}
    Window = 2
    Lossy = FALSE
SYMMETRY Symmetry
INVARIANTS
    TypeOK
    AttributedOnce
PROPERTIES
    NeverGuesses
\* Every request may have been sent and every reply handled.
CHECK_DEADLOCK FALSE
