SPECIFICATION Spec
CONSTANTS
    Seeds <- MCSeeds
    Pool <- MCPool
    Blank <- MCBlank
    MaxEdits = 3
INVARIANTS CollisionsAreRefused RoutesCanSucceed SecretsStayIn ReferencesResolve
PROPERTIES NameRefusalsStable ExceptIsARepair
CHECK_DEADLOCK FALSE
