\* Presets, rows with their selection, Free Select, a folder's walk, the guard, the cards, the
\* menu, the command line.
CONSTANTS
    None = None
    Nothing = Nothing
    Windows = {w1, w2}
    Names <- MCNames
    Stored <- MCStored
    Endings <- MCEndings
    Tails <- MCTails
    Defaults <- MCDefaults
    MaxCalls = 4
    MaxTrouble = 1
    Rowable = {"a", "b", "c", "d"}
    Folders = {"c"}
    Columns = {"name", "size"}
    Key <- MCKey
    NewKeys <- MCNewKeys
    Lists <- MCLists
    Hidings <- MCHidings
    Slips = FALSE
    Things <- MCThings
    Laid <- MCLaid
    Calls = {"d", "e", "f"}
    MaxRuns = 1
    Places <- MCPlaces
    Branches <- MCBranches
    Rank <- MCRank
    Options <- MCOptions
    Marks <- MCMarks
    MaxBad = 2
    Desks = {m1}
    MAX_PRESETS = 1
    PresetLists <- MCPresetLists
    Menus <- MCMenus
    MaxEdits = 2
    MaxTroubles = 2
    Together = FALSE
    Switches = {"/p", "/l", "/r", "/k", "/?"}
    Words = {"dir", "file"}
    MaxLine = 5
    Slots = {0, 1}
    Nowhere = None
    Undecided = Nothing
    Parts <- MCParts
    Fold <- MCFold
    Roots <- MCRoots
    Parents <- MCParents
    Place <- MCPlace
    Requests <- MCRequests
    MaxPending = 3
    Working = {"presets", "rows", "free", "walk", "menu", "cli", "guard", "setup"}
    Blank = None
    Kinds = {"replace", "both", "paste"}
    Offers <- MCOffers
    AsksFor <- MCAsksFor
    Pastes = {"paste"}
    DefaultKind = "replace"
    Pipelines <- MCPipelines
    Photos <- MCPhotos
    Boards = {"x", "y"}
    MaxCards = 2
    MaxMade = 2
    MaxChanges = 3
    MaxStarts = 2
SYMMETRY MCSymmetry
SPECIFICATION MCSpec
\* The bounds on calls, trouble and runs stop the model.
CHECK_DEADLOCK FALSE
INVARIANTS
    
    FollowsTheFile
    NothingGoesMissing
    
    ExitTellsTheTruth
    GuardIsExact
    SelectIsOfItsText
PROPERTIES
    
    AnswersAreToItsQuestions
