SPECIFICATION Spec
CONSTANTS
    MERKLE_HEIGHT = 3
    EVENT_CHUNK_SIZE = 6
    STALENESS_THRESHOLD = 0
    InitialLeaves = 1
    LeafIndex = 0
    Orders = {o1}
    nul = nul
    None = None
    Nullifiers = {nul}
    Blocks <- MCBlocks
    MaxBlocks = 3
    Polls = {1}
    OverlapBounded = TRUE
    NoNullifier = None
    NoBlock = NoBlock
    NoPath = NoPath
    NoProof = NoProof
INVARIANT StartupPathOpens
CHECK_DEADLOCK FALSE
