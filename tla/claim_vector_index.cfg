SPECIFICATION Spec
SYMMETRY VectorSymmetry
CONSTANTS
    VecID = {v1, v2}
    Vector <- Vectors
    NoVec = NoVec
    NoScope = NoScope
    Scope = {s1}
    Bucket = {s1}
    BucketOf <- OwnBucket
    NoMeta = NoMeta
    Client = {p, q}
INVARIANT
    IndexReflectsBuckets
