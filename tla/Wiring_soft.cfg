SPECIFICATION Spec
CONSTANTS
    c1 = c1 c2 = c2 d1 = d1 d2 = d2 t1 = t1 k1 = k1 k2 = k2
    Client = {c1, c2}
    Doc = {d1, d2}
    Draft = {t1}
    Key = {k1, k2}
    Soft = {"doc"}
    Contexts <- MCSwitches
    Seed <- MCSeedPair
    MaxRequests = 3
INVARIANTS
    TypeOK
    ReadsHideDeleted
    TotalDriftsOnlyByWrites
    NullEdgeMeansDeleted
    OneDeleteWins
    AckedDeletesAreFinal
    LostCreateWasDeleted
PROPERTIES
    KeepsLifecycle
    TombstonesAreHistory
    ExistsMeansDuplicate
SYMMETRY MCSymmetry
CHECK_DEADLOCK FALSE
