SPECIFICATION Spec
CONSTANTS
    a = a
    b = b
    aLong = aLong
    Dot = Dot
    DotDot = DotDot
    Name <- LongNames
    Stored <- StoredLong
    InodeCount = 4
    InlineItems = 3
    BlockItems = 5
    TotalSpace = 1
    MaxLinks = 3
INVARIANTS
    NoDanglingEntry
    NamesUnique
    TreeShape
    FreeInodesBlank
    CountersConserved
PROPERTIES
    OneEntryPerStep
    NonEmptyDirKept
