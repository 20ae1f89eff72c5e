CONSTANTS
    Arms = {left}
    Calls = {c1}
    MaxLaunches = 1
    MaxBreakdowns = 1
    MaxRecoveries = 1
    Overlap = FALSE
SPECIFICATION FairSpec
PROPERTIES CancelledCallsEnd SilenceEndsMotion
