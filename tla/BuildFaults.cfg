SPECIFICATION Spec
CONSTANTS
    Docs = {"a", "b", "one", "empty"}
    Cites <- MCCites
    NoCites = "nothing"
    IndexDocs = {"a"}
    UnstableDocs = {}
    BiberDocs = {"b"}
    OnePageDocs = {"one"}
    EmptyDocs = {"empty"}
    PartialDocs = {}
    Bibs = {"v1"}
    NoBibs = {"bad", "absent"}
    ProjectBbl = TRUE
    ForceMode = TRUE
    Faults = {"kill", "engine", "errors", "index", "publish"}
    MidBuild = {"doc", "bib"}
    MaxPasses = 5
    MaxEvents = 3
INVARIANTS TypeOK TruncationMarked ToolsReadFinishedFiles HitIsFresh
