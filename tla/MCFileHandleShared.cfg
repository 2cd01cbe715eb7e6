CONSTANTS
    t1 = t1
    t2 = t2
    t3 = t3
    h1 = h1
    h2 = h2
    Threads = {t1, t2, t3}
    Handles = {h1, h2}
    Kinds <- SharedKinds
CHECK_DEADLOCK FALSE
SPECIFICATION Spec
INVARIANTS
    CloseToOpen
