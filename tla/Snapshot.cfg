SPECIFICATION SnapshotFairSpec
CONSTANTS
    h1 = h1
    h2 = h2
    Viewers <- TwoViewers
    PipeSize = 2
    MaxOutages = 7
INVARIANT
    ServedTogether
PROPERTY
    KeepsRefreshing
