SPECIFICATION Spec
CONSTANTS
    Bimanual = TRUE
    Sessions = {s1, s2}
    NoSession = NoSession
    Gens = {g1, g2}
    NoGen = NoGen
    MaxWaypoints = 2
    Faults = TRUE
    Restarts = TRUE
    OutpacesPoll = FALSE
SYMMETRY Symmetry
INVARIANTS BridgeInv AutoQueueAttended OneReportPerCommand
PROPERTY TorqueReleasedOnlyAtZero
