CONSTANTS
    Threads = {t1, t2}
    MaxReadSize = 4
    MinReadSize = 2
    minSeeksForRandom = 2
    Kinds <- MCKinds
CHECK_DEADLOCK FALSE
SPECIFICATION Spec
INVARIANTS ReadsRight StreamInOrder
PROPERTIES ReadsReturn
