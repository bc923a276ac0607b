\* Two windows and a command line over the journals; the folder of files.
SPECIFICATION MCSpec
CONSTANTS
    None = None
    Windows = {"w1", "w2"}
    Tools = {"t"}
    Pid <- MCPid
    Found <- MCFound
    MaxClock = 1
    MaxRuns = 2
    MaxUndos = 3
    MaxFaults = 1
    MaxUnlocked = 0
    a = a
    A = A
    b = b
    f1 = f1
    f2 = f2
    f3 = f3
    Nothing = Nothing
    Spellings = {a, A, b}
    Files = {f1, f2, f3}
    Folders = {}
    Folded <- MCFolded
    Starts <- MCStarts
    First <- MCFirst
    Ops = {"rename", "retag"}
    Previewed = {b}
    Attempts = 2
    Retries = 1
    MaxCalls = 2
    MaxKills = 1
    MaxForeign = 1
    MaxReads = 1
\* The bounds on runs, calls and trouble stop the model.
CHECK_DEADLOCK FALSE
INVARIANTS
    
    NothingIsLost
    FilesAreKept
PROPERTIES
    UndoPicksTheNewest
    IsShelf
