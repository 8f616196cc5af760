SPECIFICATION FairSpec
CONSTANTS
    Procs = {p1, p2, p3}
    Inodes = {i1, i2, i3}
    NoProc = NoProc
    NoInode = NoInode
INVARIANTS
    MutualExclusion
    OwnerHoldsCurrentFile
PROPERTIES
    WaitersServed
    ImplementsMutex
