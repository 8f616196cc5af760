SPECIFICATION JointSpec
CONSTANTS
    Documents <- MCDocuments
    Values = {0, 1, 2}
    Tables = {0, 1}
    Large = {2}
    InitexCat = 1
    Tokens = {"s", "t"}
    Absent = Absent
    Unbound = Unbound
    MaxGroupLevel = 3
    MaxSaveStack = 5
INVARIANTS TypeOK AttributesCurrent BottomIsGlobal GroupsKept
CHECK_DEADLOCK FALSE
