SPECIFICATION Spec
CONSTANTS
    DocID = {d1, d2}
    Content <- IndexContent
    EmptyDoc = "empty"
    Absent = "absent"
    Leaves <- IndexLeaves
    NotATime = NotATime
    IdSpace = 4
    closureMaxDepth = 2
    MaxKeySize = 8
    Client = {p, q}
    NoClient = none
    Keep = "keep"
    MaxVersion = 2
    MaxBatch = 1
INVARIANTS
    StatsAlwaysExact
