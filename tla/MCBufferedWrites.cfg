CONSTANTS
    Pools = {f, other}
    File = f
    MaxBlocks = 2
    SemLimit = 2
    MaxLost = 1
    BlockSize = 2
    ChunkSize = 1
    Kinds <- AllKinds
    MaxWg = 3
CHECK_DEADLOCK FALSE
SPECIFICATION Spec
INVARIANTS
    PipelineInOrder
    BytesInPlace
PROPERTIES
    PublishedWhole
    CallsReturn
