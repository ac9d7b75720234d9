SPECIFICATION Spec
CONSTANTS
    Null = Null
    Junk = Junk
    Client = {c1, c2}
    Requests <- MCRequests
    SeedRows <- MCSeedRows
    SeedLinks <- MCSeedLinks
    MaxRequests = 3
    MaxFailures = 1
INVARIANTS NoOrphans AnswersAreTrue EchoesItsWrite RefusedMeansUnwritten
PROPERTY RequestsAnswered
CHECK_DEADLOCK FALSE
