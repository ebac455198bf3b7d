SPECIFICATION Spec
CONSTANTS
    BitsPerBlock = 6
    TotalBlocks = 18
    InodeValidBlocks = 1
    InodeBlocks = 2
    CounterModulus = 64
    NoLba = NoLba
    Done = Done
INVARIANTS
    MetadataReserved
