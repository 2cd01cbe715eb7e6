CONSTANTS
    t1 = t1
    t2 = t2
    t3 = t3
    h1 = h1
    h2 = h2
    Threads = {t1, t2, t3}
    Handles = {h1, h2}
    Kinds <- MCKinds
CHECK_DEADLOCK FALSE
SPECIFICATION Spec
INVARIANTS FreshReads ReadersKeepSources
PROPERTIES ReadsReturn
