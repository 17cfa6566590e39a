SPECIFICATION Spec
CONSTANTS
    t1 = t1
    t2 = t2
    p1 = p1
    p2 = p2
    MaxEventQueue = 2
    TTLs <- Short
    MaxPullPoints = 1
    Tokens <- TwoTokens
    Pullers <- TwoPullers
    Limits <- FullDrain
    MaxTime = 2
    MaxFlips = 2
    MaxSent = 1
SYMMETRY Symmetry
INVARIANTS
    ChangedAlternates
    DeliveredOnce
    NoLostWakeup
PROPERTIES
    ServedOnlyWhileAlive
    FeedSpec
