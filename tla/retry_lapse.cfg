SPECIFICATION Spec
CONSTANTS
    R = 1
    UrlOf <- OneUrl
    Blocked <- OneBlocked
    Stage <- OneStage
    Probes = {1, 2}
    Pad = {}
    Workers = 1
    Sample = 1
    MaxPasses = 1
    NoUrl = NoUrl
    NoRecord = NoRecord
INVARIANT ClearedRan
CHECK_DEADLOCK FALSE
