SPECIFICATION TokenSpec
CONSTANTS
    p1 = p1
    p2 = p2
    Run <- TwoRuns
    MaxGrant = 3
    MaxCode = 2
    FaultKinds <- AllFaults
    AnswerFields <- AnyAnswer
SYMMETRY Runs
INVARIANTS
    TokenTypeOK
    StoredPairIsLatest
    RefreshNotAhead
PROPERTIES
    WritesTheNewest
