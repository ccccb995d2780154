SPECIFICATION Spec
CONSTANTS
    Catalog <- Excerpt
    Depth = 3
    FracNum = 6
    FracDen = 10
    Curve <- SmallCurve
    NoGroup = NoGroup
    Unranked = Unranked
INVARIANT NumbersAgree
INVARIANT FixingNeverHurts
CHECK_DEADLOCK FALSE
