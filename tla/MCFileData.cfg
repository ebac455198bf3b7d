SPECIFICATION Spec
CONSTANTS
    File = {f, g}
    Lba = {l1, l2, l3}
    NoLba = NoLba
    Value = {x, y}
    Zero = Zero
    NodeByte = NodeByte
    Data <- Writes
    BlockSize = 2
    InlineSize = 1
    MaxSize = 5
SYMMETRY Symmetry
INVARIANTS
    BlocksPartitioned
    SizeFitsStorage
PROPERTIES
    ImplementsBytes
