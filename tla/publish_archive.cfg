SPECIFICATION FairSpec
CONSTANTS
    NumEpisodes = 2
    Legacy = {1}
    MaxRows = 2
    MaxProcs = 2
    MaxFaults = 1
    ViewingFirst = FALSE
INVARIANTS TypeOK ReceiptsAreTrue
PROPERTIES ImplementsArchive RecordingsSettle
CHECK_DEADLOCK FALSE
