SPECIFICATION FairSpec
CONSTANTS
    None = None
    MaxSessions = 2
    MaxSteps = 1
    Requesting = {1}
    Grace = TRUE
    MaxRecords = 1
    MaxBreaks = 1
    MaxOrders = 1
    MaxEvents = 1
    MaxBacklog = 1
    MaxReporting = 1
INVARIANTS TypeOK ServedLeaseIsLive NothingAfterRefusal RejectedDidNotMove
PROPERTIES EndedRunsEnd ReadinessAnnounced
CHECK_DEADLOCK FALSE
