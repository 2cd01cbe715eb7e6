CONSTANTS
    Kinds <- MCKinds
    Threads = {t1, t2}
    Workers = {w1, w2}
SPECIFICATION Spec
INVARIANTS
    RepliesFaithful
    Measured
    OutcomeTrue
PROPERTIES
    SignalEnds
CHECK_DEADLOCK FALSE
