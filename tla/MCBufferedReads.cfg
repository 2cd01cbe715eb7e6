CONSTANTS
    p1 = p1
    p2 = p2
    Pools = {p1, p2}
    MaxBlocks = 3
    ReservedBlocks = 1
    SemLimit = 4
    MaxLost = 1
    BlockSize = 2
    PriorityWorkers = {w1}
    NormalWorkers = {w2}
    TasksPerWorker = 1
    Kinds <- MCKinds
CHECK_DEADLOCK FALSE
SPECIFICATION BRSpec
INVARIANTS BlocksInOrder PermitAccounting
PROPERTIES ReadsComplete CallsEnd
