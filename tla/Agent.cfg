SPECIFICATION AgentLiveSpec
CONSTANTS
    c1 = c1
    c2 = c2
    u1 = u1
    Configs <- TwoConfigs
    Updaters <- OneUpdater
    MetadataEnabled = FALSE
    MaxUpdates = 1
    MaxFaults = 1
    Override = FALSE
    MaxMishaps = 2
INVARIANTS
    NoLostRestart
    OneFFmpegPerLife
    NotReadyWhileDown
    EndsForAReason
PROPERTY
    NoHalfAgent
CHECK_DEADLOCK FALSE
