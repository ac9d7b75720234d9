SPECIFICATION Spec
CONSTANTS
    Seeds <- MCSeeds
    Pool <- MCPool
    Blank <- MCBlank
    MaxEdits = 3
INVARIANTS EachScopeDeclaresOnce
CHECK_DEADLOCK FALSE
