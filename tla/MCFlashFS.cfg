CONSTANTS
    N = 7
    FirstUsable = 3
    ReserveStart = 6
    ConfigBlocks = 0
    n1 = n1
    n2 = n2
    c1 = c1
    c2 = c2
    Names = {n1, n2}
    Chunk = {c1, c2}
    DiskName <- MCDiskName
    Zero = zero
    Contents <- MCContents
    Starts <- MCRoots
    Payloads <- MCPayloads
    Staged <- MCStaged
    EntriesPerRoot = 1
    MaxEntries = 2
SPECIFICATION Spec
INVARIANTS TypeOK ChainsDisjoint ChainsHeld
PROPERTIES KeepsOnImage WriteStoresAll NamesStayUnique NoLossOnSuccess FailureKeepsFiles FailsOnlyWhenFull ReservedUntouched
