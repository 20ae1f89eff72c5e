CONSTANTS
    Arms = {left, right}
    Calls = {c1, c2}
    MaxLaunches = 1
    MaxBreakdowns = 1
    MaxRecoveries = 1
    Overlap = FALSE
SPECIFICATION Spec
SYMMETRY Symmetry
INVARIANTS TypeOK VerifiedOffIsOff PoweredArmsAreOwned HeldArmsArePowered
PROPERTY MotionAuthorised
