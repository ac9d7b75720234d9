SPECIFICATION Spec
CONSTANTS
    MaxInt = 7
    DefaultPageSize = 2
    MaxPageSize = 3
    MaxRows = 4
    Cell <- MCCell
    SortKey = {"rank", "kind"}
    Pages <- MCPages
    Sizes <- MCSizes
    Sorts <- MCSorts
INVARIANT WalkSeesEveryRowOnce
PROPERTY PageIsItsNumber
PROPERTY WalkEnds
CHECK_DEADLOCK FALSE
