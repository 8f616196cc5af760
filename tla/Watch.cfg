SPECIFICATION FairSpec
CONSTANTS
    Main = "main"
    Includes = {"inc"}
    Outputs = {"aux"}
    Contents = {"a", "b"}
    NoContent = "none"
    Needs <- MCNeeds
    Inos = {1, 2}
    BackupIno = 3
    Granularity = 1
    RacyWindow = 1
    UserMay = {}
    MaxTime = 2
    MaxEdits = 2
CHECK_DEADLOCK FALSE
INVARIANTS
    
    OneBuildPerChange
PROPERTIES
    
    InterruptEnds
