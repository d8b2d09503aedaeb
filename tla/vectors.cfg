SPECIFICATION Spec
SYMMETRY VectorSymmetry
CONSTANTS
    VecID = {v1, v2}
    Vector <- OnePerDim
    NoVec = NoVec
    NoScope = NoScope
    Scope = {s1, s2}
    Bucket = {s1, s2}
    BucketOf <- OwnBucket
    NoMeta = NoMeta
    Client = {p, q}
INVARIANTS
    VectorTypeOK
    OneDimensionPerGraph
    CountsAreLive
    SearchFindsNearest
    RebuildSucceeds
PROPERTY
    IndexFollows
