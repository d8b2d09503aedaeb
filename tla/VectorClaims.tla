--------------------------- MODULE VectorClaims ---------------------------
(***************************************************************************)
(* What a comment of the repository says about the vector layer and the    *)
(* code does not keep.  A store is settled when no call is under way.      *)
(***************************************************************************)
EXTENDS VectorStore

Settled == load = "ok" /\ \A c \in Client : pending[c] = {}

\* vector.go, VectorSearch: the index reflects every committed Insert and
\* Delete.
IndexReflectsBuckets ==
    Settled => \A s \in Scope : Live(mem[s]) = data[BucketOf(s)]
============================================================================
