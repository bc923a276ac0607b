SPECIFICATION MCSpec
CONSTANTS
    None = None
    Failed = Failed
    NoLimit = NoLimit
    NoDate = NoDate
    MaxValue = 100000000
    MaxScale = 2
    MaxRuns = 2
    MaxCount = 11
    MaxCounts = 3
    MaxLetters = 4
    Known <- MCKnown
    Stacks <- MCStacks
    Rows <- MCRows
    Entries <- MCEntries
    Listings <- MCListings
    Setups <- MCSetups
    Spring <- MCSpring
    Autumn <- MCAutumn
    Letters <- MCLetters
    Trims <- MCTrims
    Batches <- MCBatches
    Times <- MCTimes
    Silent = Failed
    Songs <- MCSongs
    Boxes <- MCBoxes
    Strips <- MCStrips
    V1_BLOCK_MAX = 4
    V2_BLOCK_MAX = 6
    TAIL = 3
    MaxEdits = 2
    Unset = None
    Platforms = {"Linux", "Windows"}
    Found <- MCFound
    Effects <- MCEffects
    Meddlings <- MCMeddlings
    SECOND = 4
    TICK = 2
    FIRST <- MCFirst
    TOLERANCE = 8
    MountPoints <- MCPoints
    Places <- MCVolumePlaces
    MaxActs = 2
    MaxMeddled = 1
    MaxMounts = 3
    Absent = None
    Filler <- MCFiller
    MaxText = 6
    Stems = {"s"}
    Cases = {"koto", "KOTO"}
    Contents <- MCContents
    Shipped <- MCShipped
    Loaders = {"t", "u"}
    COMPILED_CAPACITY = 1
    MAX_SOURCE_BYTES = 50
    MAX_NESTING = 5
    Coarse = FALSE
    MaxSaves = 3
    MaxLoads = 2
CHECK_DEADLOCK FALSE
INVARIANTS
    TableIsTrue
    EarlyAnswersAreRight
    DatesAgree
    NeverPastLimit
    TagsAreKept
    DepthIsCounted
    LoadIsTheFile
PROPERTIES
    UndoKeepsToItsOwn
