SPECIFICATION Spec
CONSTANTS
    None = None
    Profiles <- MCProfiles
    Facts <- MCFacts
    FaultSets <- MCFaultSets
    MaxEdits = 1
INVARIANTS
    TypeOK
    ActionableIsListed
    LowScoreIsActionable
    MeansStayInside
    SecretsReachPageOne
    RedPartsHaveWork
PROPERTIES
    FailuresAreContained
CHECK_DEADLOCK FALSE
