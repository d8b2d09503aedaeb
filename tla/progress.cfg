SPECIFICATION FairSpec
CONSTANTS
    DocID = {d1, d2}
    Content <- CountContent
    EmptyDoc = "empty"
    Absent = "absent"
    Leaves <- CountLeaves
    NotATime = NotATime
    IdSpace = 2
    closureMaxDepth = 2
    MaxKeySize = 3
    Client = {p, q}
    NoClient = none
    Keep = "keep"
    MaxVersion = 2
    MaxBatch = 2
INVARIANTS
    StatsConsistent
PROPERTIES
    LockReleased
    EventsEmitted
