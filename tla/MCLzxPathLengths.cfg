CONSTANTS
    MaxCodeLen = 4
    Bytes = 8
    PositionSlots = 8
    LengthSyms = 24
    MaxMatch = 17
    MaxChainDepth = 2
    ChunkMax = 28
    Hash <- MCHash
    Chunks <- MCChunks
    Strategies = {"LiteralOnly"}
    MaxChunks = 2
    MaxUpsets = 0
SPECIFICATION Spec
CHECK_DEADLOCK FALSE
INVARIANT LengthsPreserved
