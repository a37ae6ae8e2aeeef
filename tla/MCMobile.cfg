CONSTANTS
    N = 6
    FirstUsable = 2
    ReserveStart = 5
    ConfigBlocks = 0
    pg1 = pg1
    pg2 = pg2
    part = part
    filled = filled
    Slots <- MCSlots
    Layouts <- Both
    PagesPerBlock <- MCPages
    Unit = 3
    Byte = 24
    SizePages = 12
    PageData <- MCPageData
    Padded <- MCPadded
    Erased = erased
    Blank = blank
    Versions <- MCVersions
    Folders <- MCFolders
    Maps <- MCMaps
    MaxVersions = 3
SPECIFICATION Spec
CHECK_DEADLOCK FALSE
INVARIANTS TypeOK BigBlockNewestFound NothingInvented ShortBlobsComeBack
