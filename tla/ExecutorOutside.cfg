SPECIFICATION Spec
CONSTANTS
    Names <- MCNames
    Files <- MCFiles
    Dirs <- MCDirs
    Batches <- ForeignBatches
    Dates <- MCDates
    Texts <- MCTexts
    Strangers = {"S"}
    Spots <- FewSpots
    MaxFaults = 1
    MaxKills = 1
    MaxCuts = 0
    MaxOutside = 2
    MaxUndos = 1
CHECK_DEADLOCK FALSE
INVARIANTS
    
    ChangesAreOffered
