SPECIFICATION Spec
CONSTANTS
    h1 = h1
    h2 = h2
    SubstreamEnabled = TRUE
    Configs <- SomeConfigs
    DefaultConfig <- Default
    Absent = Absent
    Empty = Empty
    Torn = Torn
    Files <- FewFiles
    MetadataEnabled = FALSE
    Handlers <- TwoHandlers
    Requests <- ManyRequests
    MaxUpdates = 2
    MaxFaults = 1
SYMMETRY Symmetry
INVARIANTS
    AskedIsGranted
    KeptWhenAlone
    PersistedWhenAlone
    ConfigAlwaysValid
PROPERTY
    SupervisorSpec
CHECK_DEADLOCK FALSE
