SPECIFICATION Spec
CONSTANTS
    InodeCount = 3
    Capacity = 2
    Value = {0, 1}
    Zero = 0
    MaxLinks = 2
INVARIANTS
    CacheTransparent
    LinksNeverShort
    FreeInodesBlank
    PointersStay
