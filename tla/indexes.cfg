SPECIFICATION Spec
SYMMETRY DocSymmetry
CONSTANTS
    DocID = {d1, d2}
    Content <- IndexContent
    EmptyDoc = "empty"
    Absent = "absent"
    Leaves <- IndexLeaves
    NotATime = NotATime
    IdSpace = 3
    closureMaxDepth = 2
    MaxKeySize = 8
    Client = {p}
    NoClient = none
    Keep = "keep"
    MaxVersion = 2
    MaxBatch = 1
INVARIANTS
    InvertedConsistent
    NumericConsistent
    TemporalConsistent
    
    GroupsConsistent
    GroupLastSeen
PROPERTIES
    LastSeenFollows
