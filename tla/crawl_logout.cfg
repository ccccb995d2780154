SPECIFICATION Spec
CONSTANTS
    Segments <- Words
    Sites <- MCSites
    MaxPages = 5
    MaxDepth = 2
    Shown = 3
    Judged = 2
    Losses = 2
INVARIANT NeverLogsOut
CHECK_DEADLOCK FALSE
