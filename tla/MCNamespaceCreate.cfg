SPECIFICATION Spec
CONSTANTS
    a = a
    b = b
    aLong = aLong
    Dot = Dot
    DotDot = DotDot
    Name <- ShortNames
    Stored <- StoredShort
    InodeCount = 3
    InlineItems = 3
    BlockItems = 4
    TotalSpace = 1
    MaxLinks = 3
PROPERTY CreatedIsLinked
