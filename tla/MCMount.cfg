SPECIFICATION Spec
CONSTANTS
    MaxFormats = 2
    MaxOps = 2
INVARIANTS
    CleanIsWhole
    FormatLeavesNothing
PROPERTIES
    StartAndStopEnd
