SPECIFICATION Spec
CONSTANTS
    Names <- MCNames
    Files <- MCFiles
    Dirs <- MCDirs
    Dates = {0, 1}
    Texts = {"text"}
    Strangers = {}
    Jobs <- MCJobs
    Temps <- MCTemps
    TEMP_NAMES_ON_DISK = 1
    NewDirs <- MCNewDirs
    NewFiles <- MCNewFiles
INVARIANTS
    PlanIsSound
    PreviewIsTrue
