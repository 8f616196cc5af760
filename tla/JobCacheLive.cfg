SPECIFICATION FairSpec
CONSTANTS
    Procs = {p1, p2}
    Jobs = {j1, j2}
    NoProc = NoProc
    NoJob = NoJob
    Kinds = {"build", "clean"}
    Sizes = {0, 1}
    Leftovers <- MCLeftovers
    MaxBytes = 1
    MaxAge = 1
    GcInterval = 1
    MaxTime = 2
PROPERTIES
    EveryoneFinishes
