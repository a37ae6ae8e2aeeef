CONSTANTS
    N = 8
    ReserveStart = 5
    Span = 3
    Byte = 4
    Nibble = 2
    d1 = d1
    d2 = d2
    Data = {d1, d2}
    Fresh = d1
    Garbage = garbage
    Erased = erased
    RootBlocks <- MCRootBlocks
    FileBlocks <- MCFileBlocks
    Formats <- BothFormats
    MaxSequence = 3
    MaxFailures = 3
SPECIFICATION Spec
CHECK_DEADLOCK FALSE
INVARIANTS TypeOK HealedIsCurrent OthersKept SmallBlockRootIsNewest
