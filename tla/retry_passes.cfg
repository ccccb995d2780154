SPECIFICATION Spec
CONSTANTS
    R = 4
    UrlOf <- MixedUrls
    Blocked <- MixedBlocked
    Stage <- MixedStages
    Probes = {1, 2}
    Pad = {2}
    Workers = 2
    Sample = 1
    MaxPasses = 2
    NoUrl = NoUrl
    NoRecord = NoRecord
INVARIANT TypeOK
INVARIANT RecoveredRan
PROPERTY RemergeChangesNothing
PROPERTY EventuallyFolded
CHECK_DEADLOCK FALSE
