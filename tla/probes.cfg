SPECIFICATION Spec
CONSTANTS
    Pool = 2
    Cap = 12
    Attempts = 5
    DeepSlots = 2
    UploadBudget = 40
    Variants = 10
    Dirs = 7
    Creates = 3
    Bursts = 3
    Need = 2
    Tries = 4
    Keys = 3
    Cut = 2
    Guess = 1
    Logins = 3
    Gated = 2
    Payloads = 2
    Hops = 2
    Budget = 2
    MaxRoutes = 2
    MaxControls = 2
    Faults = 1
INVARIANT TypeOK
INVARIANT AccusedIsGuilty
INVARIANT NothingSeenIsLost
INVARIANT CleanIsEarned
PROPERTY Decides
CHECK_DEADLOCK FALSE
