SPECIFICATION ReadSpec
CONSTANTS
    DocID <- MCDocs
    Content <- MCContent
    EmptyDoc = "empty"
    Absent = "absent"
    Leaves <- MCLeaves
    NotATime = NotATime
    IdSpace = 4
    closureMaxDepth = 2
    MaxKeySize = 8
    Lower <- MCLower
    IdNumber <- MCIdNumber
    DocOrder <- MCDocOrder
    Request <- MCRequest
    Calls <- MCCalls
    MaxWrites = 3
INVARIANTS
    NoOrphan
    AnswerExact
    QueryAnswers
    AggregatesExact
    SequencesFound
    ClustersFound
    RecordsListed
CHECK_DEADLOCK FALSE
