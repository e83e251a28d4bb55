SPECIFICATION TokenSpec
CONSTANTS
    p1 = p1
    p2 = p2
    Run <- OneRun
    MaxGrant = 2
    MaxCode = 2
    FaultKinds <- DbOnly
    AnswerFields <- WholeAnswer
INVARIANTS
    DeletedBeforeInsert
