CONSTANTS
    MaxCodeLen = 4
    Bytes = 8
    PositionSlots = 8
    LengthSyms = 24
    MaxMatch = 17
    MaxChainDepth = 2
    ChunkMax = 28
    Hash <- MCHash
    Chunks <- MCChunks
    Strategies = {"Greedy"}
    MaxChunks = 3
    MaxUpsets = 0
SPECIFICATION Spec
CHECK_DEADLOCK FALSE
INVARIANT FallbackRoundTrips
