SPECIFICATION LiveSpec
CONSTANTS
    h1 = h1
    h2 = h2
    SubstreamEnabled = TRUE
    Configs <- SomeConfigs
    DefaultConfig <- Default
    Absent = Absent
    Empty = Empty
    Torn = Torn
    Files <- OneFile
    MetadataEnabled = FALSE
    Handlers <- OneHandler
    Requests <- Persisted
    MaxUpdates = 1
    MaxFaults = 1
PROPERTY
    RestartComesUp
CHECK_DEADLOCK FALSE
