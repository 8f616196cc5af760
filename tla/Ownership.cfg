SPECIFICATION Spec
CONSTANTS
    Names = {"log", "aux", "bbl"}
    Layouts = {"managed", "shared", "same"}
    HardLinks = {"managed", "same"}
    Faults = {"kill", "save", "publish", "evict"}
    MidBuild = {"create"}
    MaxCommands = 3
    MaxEvents = 1
INVARIANTS TypeOK ExportsCurrent
PROPERTIES UserFilesKept CleanIsComplete
CHECK_DEADLOCK FALSE
