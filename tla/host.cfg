SPECIFICATION Spec
CONSTANTS
    Grades = {1, 2}
    Slots = {1, 2}
    Nobody = Nobody
    Kinds <- Batches
    Plans = {P1, P2}
    NoPlan = NoPlan
    Torn = Torn
    Attempts = 2
    RetryTimeouts = FALSE
    Kills = 1
INVARIANT RowsAreTrue
PROPERTY FrozenPlanHolds
PROPERTY LockIsSemaphore
PROPERTY NothingStrands
CHECK_DEADLOCK FALSE
