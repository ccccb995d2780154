SPECIFICATION Spec
CONSTANTS
    J = 3
    Source <- ThreeSource
    Target <- ThreeTarget
    Project <- ThreeProject
    Conc = 2
    Modes = {"default", "no_repeat_repo", "whatsoever"}
    MaxRuns = 2
    Interrupts = 1
INVARIANT TypeOK
INVARIANT SerialDeploys
INVARIANT WedgeIsDead
INVARIANT EachJobOnce
PROPERTY EventuallyOver
CHECK_DEADLOCK FALSE
