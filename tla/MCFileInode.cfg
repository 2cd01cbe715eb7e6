SPECIFICATION Spec
CONSTANTS
    Handles = {h1, h2}
    Bytes = {1}
    Contents <- MCContents
    MaxSize = 2
    MaxCalls = 5
    MaxRemote = 1
    EnableStreamingWrites = TRUE
    ComposeThreshold = 1
    None = None
SYMMETRY HandleSymmetry
CHECK_DEADLOCK FALSE
INVARIANTS ContentInOrder
PROPERTIES NoLostUpdate PublishesInOrder NoSilentLoss
