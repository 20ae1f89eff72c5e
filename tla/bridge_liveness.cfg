SPECIFICATION FairSpec
CONSTANTS
    Bimanual = FALSE
    Sessions = {s1}
    NoSession = NoSession
    Gens = {g1, g2}
    NoGen = NoGen
    MaxWaypoints = 1
    Faults = TRUE
    Restarts = FALSE
    OutpacesPoll = FALSE
PROPERTIES DeadlineEnforced CleanupEnds QueuedWorkServed SupersededThreadsEnd
