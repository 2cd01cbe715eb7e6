SPECIFICATION Spec
CONSTANTS
    Threads = {t1, t2}
    Free = free
    MaxCalls = 4
    MaxGen = 3
    MaxInodes = 7
    Kinds <- MCKinds
CHECK_DEADLOCK FALSE
INVARIANTS TableInOrder
PROPERTIES IndexNeverRegresses RequestsReturn
