CONSTANTS
    N = 10
    FirstUsable = 1
    ReserveStart = 9
    ConfigBlocks = 1
    n1 = n1
    n2 = n2
    x1 = x1
    x2 = x2
    c1 = c1
    c2 = c2
    o1 = o1
    o2 = o2
    b1 = b1
    Names <- MCNames
    Chunk = {c1, c2, o1, o2, b1}
    DiskName <- SameNames
    Zero = zero
    Contents <- MCContents
    Starts <- MCStarts
    Payloads <- LowPayloads
    Staged <- MCStaged
    EntriesPerRoot = 2
    MaxEntries = 0
    Boot <- MCBoot
    Xell <- MCXell
    BootChunk = boot
    Erased = erased
    MinRoot <- MCMinRoot
    ForcedRoot = 5
    PhysRoots <- MCPhys
    Overflows <- MCOverflows
    XexpName <- MCXexp
    MobileSlots = 1
    Mobiles <- MCMobiles
SPECIFICATION AssemblySpec
INVARIANTS AssemblyTypeOK FilesReadBack BootIntact MobileKept RoomIsEnough
CHECK_DEADLOCK FALSE
