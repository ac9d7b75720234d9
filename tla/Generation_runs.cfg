SPECIFICATION Spec
CONSTANTS
    Entity = {1, 2}
    Schemas <- MCSchemasTwo
    ScanRank <- MCScanRank
    MaxRuns = 2
    MaxKills = 1
    MaxEdits = 1
INVARIANTS
    TypeOK
    DeletesOnlyAfterAllWritten
    SuccessConverges
    EmbedHasDocument
PROPERTIES
    UnmarkedLeftAlone
    RunEnds
    KeepsContract
CHECK_DEADLOCK FALSE
