CONSTANTS
    MaxCodeLen = 4
    Bytes = 8
    PositionSlots = 8
    LengthSyms = 24
    MaxMatch = 17
    MaxChainDepth = 2
    ChunkMax = 28
    Hash <- MCHash
    Chunks <- MCChunks
    Strategies = {"Greedy", "LiteralOnly", "Uncompressed"}
    MaxChunks = 4
    MaxUpsets = 1
SPECIFICATION Spec
CHECK_DEADLOCK FALSE
INVARIANTS
    TypeOK
    RoundTrip
    TreesComeBack
