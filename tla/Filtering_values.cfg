SPECIFICATION Spec
CONSTANTS
    Null = Null
    Kind <- MCKind
    Shapes <- MCShapes
    EntOps <- MCEntOps
    Converts <- MCConverts
    Rank <- MCRank
    Rows <- MCRows
    Values <- MCValues
    Terms <- MCTerms
    MaxValues = 2
PROPERTY EachValueIsHonoured
PROPERTY RefusedByTheRules
CHECK_DEADLOCK FALSE
