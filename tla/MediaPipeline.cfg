SPECIFICATION LiveSpec
CONSTANTS
    main = main
    c1 = c1
    u1 = u1
    Paths <- MainPath
    Primary = main
    PayloadConflict = FALSE
    Configs <- OneConfig
    Updaters <- OneUpdater
    MaxUpdates = 1
    MaxFaults = 1
INVARIANTS
    ReadyKept
    ReadyInSession
    LeaksWithPublisherOnly
    LossNoticed
PROPERTY
    PipelineRecovers
CHECK_DEADLOCK FALSE
