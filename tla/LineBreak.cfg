SPECIFICATION Spec
CONSTANTS
    Lists <- MCLists
    Settings <- MCSettings
INVARIANTS LeastDemerits LoosenessKept ParagraphSet
CHECK_DEADLOCK FALSE
