SPECIFICATION Spec
CONSTANTS
    Apps <- Variety
    Battery <- Whole
    Tries = 2
    Abandons = 1
INVARIANT VerdictsAreReal
INVARIANT IdentitiesHold
PROPERTY BatteryEnds
CHECK_DEADLOCK FALSE
