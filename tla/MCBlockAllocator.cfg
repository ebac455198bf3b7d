SPECIFICATION Spec
CONSTANTS
    BitsPerBlock = 6
    TotalBlocks = 18
    InodeValidBlocks = 1
    InodeBlocks = 2
    CounterModulus = 64
    NoLba = NoLba
    Done = Done
INVARIANTS
    BitmapTracksOwners
    CounterConserved
    RefusedOnlyWhenFull
PROPERTIES
    NeverHandedOutTwice
