SPECIFICATION LiveSpec
CONSTANTS
    Unset = Unset
    Starts <- SomeStarts
    SegmentSeconds = 1
    GB = 2
    Word = 64
    MaxSegments = 3
    MaxSize = 2
    MaxFaults = 1
INVARIANTS
    OnlyFinished
    NoNeedlessRemoval
    StopsWithinQuota
    RecordsMainOnly
    AdvertisedPlayable
PROPERTIES
    NewestLeft
    QuotaReached
CHECK_DEADLOCK FALSE
