SPECIFICATION Spec
CONSTANTS
    Threads = {t1, t2}
    Replies = {m1, m2}
    Handlers = {h1, h2}
    Pool <- TwoNumbers
    Refs = {r1, r2}
    Window = 2
    Lossy = FALSE
SYMMETRY Symmetry
INVARIANTS
    ExactIsNeverRerouted
\* Every request may have been sent and every reply handled.
CHECK_DEADLOCK FALSE
