SPECIFICATION Spec
SYMMETRY Symmetry
CONSTANTS
    DocID = {d1, d2, d3}
    Content <- PlainContent
    EmptyDoc = "empty"
    Absent = "absent"
    Leaves <- PlainLeaves
    NotATime = NotATime
    IdSpace = 3
    closureMaxDepth = 2
    MaxKeySize = 3
    Client = {p, q}
    NoClient = none
    Keep = "keep"
    MaxVersion = 2
    MaxBatch = 2
INVARIANTS
    TypeOK
    IdMapConsistent
    DocsHaveMeta
PROPERTIES
    IdsNeverReassigned
    
