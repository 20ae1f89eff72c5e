SPECIFICATION Spec
CONSTANTS
    Bimanual = FALSE
    Sessions = {s1, s2}
    NoSession = NoSession
    Gens = {g1, g2, g3}
    NoGen = NoGen
    MaxWaypoints = 1
    Faults = FALSE
    Restarts = FALSE
    OutpacesPoll = FALSE
SYMMETRY Symmetry
INVARIANTS TypeOK AdmissionExclusive OneCommander
PROPERTIES OneCommandInFlight MotionAuthorised ImplementsLifecycle
