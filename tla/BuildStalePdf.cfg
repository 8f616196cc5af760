SPECIFICATION Spec
CONSTANTS
    Docs = {"b", "plain"}
    Cites <- MCCites
    NoCites = "nothing"
    IndexDocs = {}
    UnstableDocs = {}
    BiberDocs = {}
    OnePageDocs = {}
    EmptyDocs = {}
    PartialDocs = {}
    Bibs = {"v1", "v2"}
    NoBibs = {}
    ProjectBbl = FALSE
    ForceMode = FALSE
    Faults = {"errors"}
    MidBuild = {}
    MaxPasses = 5
    MaxEvents = 3
INVARIANTS OkIsCurrent
