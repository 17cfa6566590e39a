SPECIFICATION Spec
CONSTANTS
    backups = 3
    maxSize = 2
    Lengths <- SomeLengths
    MaxRecords = 7
    MaxFaults = 4
INVARIANTS
    AgeOrder
    SizeBounded
PROPERTY
    NewestKept
CHECK_DEADLOCK FALSE
