\* Trees of up to three levels: leaves, inner nodes and roots are split, beside
\* other files that may take the block any of them needs.
SPECIFICATION SpecIndex
CONSTANTS
    M = 4
    LastKey = 6
    Blocks = 15
    MaxTaken = 2
INVARIANTS
    WellFormed
PROPERTIES
    ImplementsMap
    HarmOnlyWhenFull
