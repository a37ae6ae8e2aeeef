CONSTANTS
    N = 7
    FirstUsable = 1
    ReserveStart = 6
    ConfigBlocks = 1
    n1 = n1
    n2 = n2
    n3 = n3
    c1 = c1
    c2 = c2
    Names <- MCNames
    Chunk = {c1, c2}
    DiskName <- Truncated
    Zero = zero
    Contents <- MCContents
    Starts <- MCStarts
    Payloads <- MCPayloads
    Staged <- MCStaged
    EntriesPerRoot = 1
    MaxEntries = 2
SPECIFICATION MountSpec
PROPERTIES LoadIsGenuine LoadKeepsMap ImplementsFileStore
