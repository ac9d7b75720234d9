SPECIFICATION Spec
CONSTANTS
    Entity = {1}
    Schemas <- MCSchemasOne
    ScanRank <- MCScanRank
    MaxRuns = 2
    MaxKills = 0
    MaxEdits = 0
INVARIANT FailedRunTouchesNothing
CHECK_DEADLOCK FALSE
