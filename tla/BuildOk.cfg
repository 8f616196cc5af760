SPECIFICATION FairSpec
CONSTANTS
    Docs = {"a", "b", "p", "plain", "u"}
    Cites <- MCCites
    NoCites = "nothing"
    IndexDocs = {"a"}
    UnstableDocs = {"u"}
    BiberDocs = {"b"}
    OnePageDocs = {}
    EmptyDocs = {}
    PartialDocs = {"p"}
    Bibs = {"v1", "v2"}
    NoBibs = {}
    ProjectBbl = TRUE
    ForceMode = FALSE
    Faults = {}
    MidBuild = {}
    MaxPasses = 5
    MaxEvents = 5
INVARIANTS ConvergedIsStable OkIsCurrent OkCites OkIndexes
PROPERTIES SynctexFirst BuildsEnd ImplementsJobBuild
