SPECIFICATION MCSpec
CONSTANTS
    None = None
    Installs = {"user", "machine"}
    Day = 1
    RetryAfter = 2
    Clocks = {0, 1, 2}
    Newest = 2
    MaxPresses = 3
    MaxTicks = 1
    MaxKills = 1
    Blank = Blank
    Texts = {"", "a", "b"}
    Tagged = {"", "<C>"}
    Usable <- MCUsable
    ScriptNames = {"s"}
    Writable = {"read_only", "modified"}
    Cells <- MCCells
    MaxTouches = 5
    MaxIds = 2
    MaxRows = 3
    MaxLaid = 4
    MaxKeys = 4
    Working = {"boxes"}
CHECK_DEADLOCK FALSE
INVARIANTS
    CopyIsOneLinePerFile
