--------------------------- MODULE MCVectorStore ---------------------------
(***************************************************************************)
(* Instances of VectorStore: two scopes with buckets of their own, or the  *)
(* scopes ("a", "b:c") and ("a:b", "c"), which share vec_data:a:b:c.       *)
(***************************************************************************)
EXTENDS VectorClaims, TLC

OwnBucket(s) == s
SharedBucket(s) == "a:b:c"
SharedBuckets == {"a:b:c"}

\* Two vectors of one dimension and one of another; or one of each.
Vectors == {<<0>>, <<1>>, <<0, 1>>}
OnePerDim == {<<0>>, <<0, 1>>}

VectorSymmetry == Permutations(Client) \cup Permutations(VecID) \cup Permutations(Scope)
============================================================================
