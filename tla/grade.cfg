SPECIFICATION FairSpec
CONSTANTS
    N = 4
    Browser = {2}
    LhProbes = {3}
    FracNum = 6
    FracDen = 10
    Walls = {"challenge", "interstitial"}
    PerPath = TRUE
    NetErrors = TRUE
    Options <- MCOptions
    NoReport = NoReport
INVARIANT TypeOK
INVARIANT Accounted
INVARIANT RankableIsMostlyRun
INVARIANT NoHttpOutcomeOfAWall
INVARIANT PerPathInnocent
INVARIANT StopsAtOnset
PROPERTY KeepsThePromise
CHECK_DEADLOCK FALSE
