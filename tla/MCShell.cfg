SPECIFICATION SpecShell
CONSTANTS
    a = a
    b = b
    v = v
    zero = zero
    Dot = Dot
    DotDot = DotDot
    Zero = zero
    Name <- Names
    Stored <- Whole
    ClientName = {a, b}
    Value = {v}
    InodeCount = 3
    InlineItems = 3
    BlockItems = 4
    TotalSpace = 1
    MaxLinks = 2
    Offsets = {0, 3}
    MaxFd = 2
    Chunk = 2
    MaxDepth = 2
SYMMETRY Perms
INVARIANTS
    HandlesAreNames
    WrittenIsThere
    DotDotIsParent
PROPERTIES
    ReadsInOrder
    CatShowsFile
    WorkingDirKept
