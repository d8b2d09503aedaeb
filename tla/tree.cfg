SPECIFICATION Spec
CONSTANTS
    DocID <- ThreeDocs
    Content <- TreeContent
    EmptyDoc = "empty"
    Absent = "absent"
    Leaves <- TreeLeaves
    NotATime = NotATime
    IdSpace = 4
    closureMaxDepth = 2
    MaxKeySize = 8
    Client = {p}
    NoClient = none
    Keep = "keep"
    MaxVersion = 2
    MaxBatch = 2
INVARIANTS
    ClosureConsistent
