SPECIFICATION FairSpec
CONSTANTS
    Names <- MCNames
    Files <- MCFiles
    Dirs <- MCDirs
    Batches <- AllBatches
    Dates <- MCDates
    Texts <- MCTexts
    Strangers = {"S"}
    Spots <- NoSpots
    MaxFaults = 1
    MaxKills = 2
    MaxCuts = 1
    MaxOutside = 0
    MaxUndos = 3
CHECK_DEADLOCK FALSE
INVARIANTS
    WriteAhead
    ReportedIsDurable
    InterruptedTellsAll
    UndoIsExact
    CompleteMeansRestored
PROPERTIES
    EveryRunEnds
