\* A remainder, as on the 4096 GB disk, and an inode bitmap that fits the table.
SPECIFICATION SpecAll
CONSTANTS
    BitsPerBlock = 6
    TotalBlocks = 12
    InodeValidBlocks = 1
    InodeBlocks = 3
    InodesPerBlock = 2
    Contents <- MCContents
    MaxInUse = 5
    MaxOwned = 2
    MaxMixed = 2
    CounterModulus = 64
    NoLba = NoLba
    Neither = Neither
    Done = Done
INVARIANTS
    InodeBitmapTracksUse
PROPERTIES
    ImplementsAllocator
    HandedOutBlank
    InodesKept
