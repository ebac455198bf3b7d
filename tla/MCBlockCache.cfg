SPECIFICATION Spec
CONSTANTS
    Lba = {a, b, c, d}
    Super = Super
    Value = {blank, v}
    Blank = blank
    Capacity = 2
    Holder = {h1, h2}
    None = None
SYMMETRY Symmetry
INVARIANTS
    ListMatchesMap
    CleanIsOnDisk
    HeldIsTracked
    SizeBounded
PROPERTIES
    ImplementsStore
