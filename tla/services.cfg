SPECIFICATION Spec
CONSTANTS
    Tries = 2
    MaxPages = 2
    Limit = 2
    Faults = 2
    Restarts = 2
    ProbeDeadline = 2
    LaneDeadline = 3
    MaxProbes = 3
    TotalTimeout = 3
    Crashes = 1
    Window = 3
    Edits = 2
    Runs = 2
INVARIANT TypeOK
INVARIANT AnswersAreWhole
INVARIANT KeepsToItsOwn
INVARIANT NothingStaysBehind
PROPERTY Ends
CHECK_DEADLOCK FALSE
