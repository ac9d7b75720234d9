SPECIFICATION Spec
CONSTANTS
    Entity = {1}
    Schemas <- MCSchemasOne
    ScanRank <- MCScanRank
    MaxRuns = 2
    MaxKills = 0
    MaxEdits = 1
PROPERTY StrippedFileIsYours
CHECK_DEADLOCK FALSE
