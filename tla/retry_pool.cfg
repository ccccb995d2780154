SPECIFICATION Spec
CONSTANTS
    R = 5
    UrlOf <- FiveUrls
    Blocked <- FiveBlocked
    Stage <- FiveStages
    Probes = {1, 2}
    Pad = {}
    Workers = 2
    Sample = 2
    MaxPasses = 1
    NoUrl = NoUrl
    NoRecord = NoRecord
INVARIANT PoolIsExact
INVARIANT LateLaunchesBounded
CHECK_DEADLOCK FALSE
