---------------------------- MODULE VectorStore ----------------------------
(***************************************************************************)
(* bboltstore/vector.go: vectors are committed to bbolt and then mirrored  *)
(* in the in-memory index.  The mutex of the index and the write lock of   *)
(* bbolt are taken one after the other, so between a call's commit and its *)
(* update of the index the calls of other goroutines take their steps.     *)
(* The index is built from the buckets on the first vector call after      *)
(* Open; a crash loses it and the pending updates.  A call that returns an *)
(* error before its commit changes nothing and is not a step.              *)
(***************************************************************************)
EXTENDS VectorIndex

CONSTANTS
    Scope,          \* (entity, scope) pairs in use
    Bucket,         \* names of vec_data buckets
    BucketOf(_),    \* "vec_data:" + entity + ":" + scope
    NoMeta,         \* no vec_registry entry
    Client          \* goroutines

\* A blob of any length decodes against dimension 0, so it must not occur.
Meta == [dim : Nat \ {0}, metric : Metric]

ASSUME ScopeAssumption ==
    /\ \A s \in Scope : BucketOf(s) \in Bucket
    /\ NoMeta \notin Meta

VARIABLES
    reg,        \* vec_registry: the locked dimension and metric of a scope
    data,       \* vec_data buckets
    mem,        \* the in-memory index
    load,       \* vecOnce: "no" before it ran, then "ok", or "failed" for good
    pending     \* per client, the committed call it has yet to mirror

vars == <<reg, data, mem, load, pending>>

Op == [op : {"insert"}, scope : Scope, id : VecID, vec : Vector, metric : Metric]
      \cup [op : {"delete"}, scope : Scope, id : VecID]
      \cup [op : {"drop"}, scope : Scope]

NoIndex == [s \in Scope |-> NoScope]

Init ==
    /\ reg = [s \in Scope |-> NoMeta]
    /\ data = [b \in Bucket |-> EmptyGraph]
    /\ mem = NoIndex
    /\ load = "no"
    /\ pending = [c \in Client |-> {}]

\* decodeFloat32Slice accepts a blob of the registered dimension only.
Decodes(s) == \A i \in InGraph(data[BucketOf(s)]) : Len(data[BucketOf(s)][i]) = reg[s].dim

\* Wrong variant: the rebuild gives every scope the default metric.
RebuiltDefaultMetric(s) ==
    IF reg[s] = NoMeta \/ data[BucketOf(s)] = EmptyGraph THEN NoScope
    ELSE [dim |-> reg[s].dim, metric |-> "Cosine",
          graph |-> data[BucketOf(s)], tombstones |-> {}]

\* A scope after its vectors went through Insert again; a registered scope
\* without vectors gets no entry.
Rebuilt(s) ==
    IF reg[s] = NoMeta \/ data[BucketOf(s)] = EmptyGraph THEN NoScope
    ELSE [dim |-> reg[s].dim, metric |-> reg[s].metric,
          graph |-> data[BucketOf(s)], tombstones |-> {}]

\* vectorIndex: the first call runs the rebuild, the others wait for it.
rebuildVectorIndex ==
    /\ load = "no"
    /\ IF \A s \in Scope : reg[s] # NoMeta => Decodes(s)
       THEN load' = "ok" /\ mem' = [s \in Scope |-> Rebuilt(s)]
       ELSE load' = "failed" /\ mem' = mem
    /\ UNCHANGED <<reg, data, pending>>

\* VectorInsert up to its commit: the dimension is checked or locked, and an
\* existing scope keeps its metric.
VectorInsert(c, s, id, vec, metric) ==
    /\ load = "ok" /\ pending[c] = {}
    /\ reg[s] # NoMeta => reg[s].dim = Len(vec)
    /\ LET m == IF reg[s] # NoMeta THEN reg[s] ELSE [dim |-> Len(vec), metric |-> metric]
       IN  /\ reg' = [reg EXCEPT ![s] = m]
           /\ pending' = [pending EXCEPT ![c] =
                 {[op |-> "insert", scope |-> s, id |-> id, vec |-> vec, metric |-> m.metric]}]
    /\ data' = [data EXCEPT ![BucketOf(s)] = [@ EXCEPT ![id] = vec]]
    /\ UNCHANGED <<mem, load>>

\* VectorDelete up to its commit; the registry entry stays.
VectorDelete(c, s, id) ==
    /\ load = "ok" /\ pending[c] = {}
    /\ data[BucketOf(s)][id] # NoVec
    /\ data' = [data EXCEPT ![BucketOf(s)] = [@ EXCEPT ![id] = NoVec]]
    /\ pending' = [pending EXCEPT ![c] = {[op |-> "delete", scope |-> s, id |-> id]}]
    /\ UNCHANGED <<reg, mem, load>>

\* Wrong variants: the registry entry is zeroed; only the registry entry is
\* removed.
VectorDropScopeZeroesMeta(c, s) ==
    /\ load = "ok" /\ pending[c] = {}
    /\ reg[s] # NoMeta
    /\ reg' = [reg EXCEPT ![s] = [dim |-> 0, metric |-> "Cosine"]]
    /\ data' = [data EXCEPT ![BucketOf(s)] = EmptyGraph]
    /\ pending' = [pending EXCEPT ![c] = {[op |-> "drop", scope |-> s]}]
    /\ UNCHANGED <<mem, load>>

VectorDropScopeKeepsData(c, s) ==
    /\ load = "ok" /\ pending[c] = {}
    /\ reg[s] # NoMeta
    /\ reg' = [reg EXCEPT ![s] = NoMeta]
    /\ pending' = [pending EXCEPT ![c] = {[op |-> "drop", scope |-> s]}]
    /\ UNCHANGED <<data, mem, load>>

\* VectorDropScope up to its commit.  The data bucket goes even when the
\* scope is not registered; the call then returns ErrNotFound.
VectorDropScope(c, s) ==
    /\ load = "ok" /\ pending[c] = {}
    /\ reg' = [reg EXCEPT ![s] = NoMeta]
    /\ data' = [data EXCEPT ![BucketOf(s)] = EmptyGraph]
    /\ pending' = [pending EXCEPT ![c] =
          IF reg[s] # NoMeta THEN {[op |-> "drop", scope |-> s]} ELSE {}]
    /\ UNCHANGED <<mem, load>>

\* What a pending call does to the index entry of its scope.
Applied(o, st) ==
    CASE o.op = "insert" -> Insert(st, o.id, o.vec, o.metric)
      [] o.op = "delete" -> Delete(st, o.id)
      [] o.op = "drop"   -> NoScope

\* The in-memory half of a call.
Mirror(c) ==
    /\ \E o \in pending[c] : mem' = [mem EXCEPT ![o.scope] = Applied(o, @)]
    /\ pending' = [pending EXCEPT ![c] = {}]
    /\ UNCHANGED <<reg, data, load>>

Crash ==
    /\ load' = "no"
    /\ mem' = NoIndex
    /\ pending' = [c \in Client |-> {}]
    /\ UNCHANGED <<reg, data>>

\* What a request says and what the handler of VectorInsert makes of it.
VectorMetric == {"UNSPECIFIED", "COSINE", "EUCLIDEAN"}
metricFromProto(m) == IF m = "EUCLIDEAN" THEN "Euclidean" ELSE "Cosine"

Next ==
    \/ rebuildVectorIndex
    \/ \E c \in Client, s \in Scope :
          \/ \E id \in VecID, vec \in Vector, m \in VectorMetric :
                VectorInsert(c, s, id, vec, metricFromProto(m))
          \/ \E id \in VecID : VectorDelete(c, s, id)
          \/ VectorDropScope(c, s)
    \/ \E c \in Client : Mirror(c)
    \/ Crash

Spec == Init /\ [][Next]_vars

----------------------------------------------------------------------------
\* Every variable holds a value of its type.
VectorTypeOK ==
    /\ reg \in [Scope -> Meta \cup {NoMeta}]
    /\ data \in [Bucket -> Graph]
    /\ mem \in [Scope -> ScopeState \cup {NoScope}]
    /\ load \in {"no", "ok", "failed"}
    /\ pending \in [Client -> SUBSET Op]
    /\ \A c \in Client : \A o, p \in pending[c] : o = p

\* No two scopes write to the same vec_data bucket.
Separate == \A s, t \in Scope : BucketOf(s) = BucketOf(t) => s = t

\* rebuildVectorIndex: as long as bucket names are separate, whatever was
\* inserted, deleted, dropped and re-created with another dimension, every
\* stored vector decodes with the registered dimension, so that no restart
\* leaves the vector calls failing.
RebuildSucceeds == Separate => load # "failed"

\* Index.Insert: one scope's graph never mixes dimensions (the distance
\* functions would read past a vector), also when an insert checked against
\* the registry reaches an index entry of another dimension.
OneDimensionPerGraph ==
    \A s \in Scope : mem[s] # NoScope =>
        \A i \in InGraph(mem[s].graph) : Len(mem[s].graph[i]) = mem[s].dim

\* Index.Delete and Insert: tombstones are set only for ids the graph holds
\* and the graph never drops an id behind a tombstone, so ListScopes' count
\* is the number of vectors Search can find.
CountsAreLive ==
    \A s \in Scope : mem[s] # NoScope =>
        Count(mem[s]) = Cardinality(InGraph(Live(mem[s])))

\* Search: the tombstones that Delete left behind, whatever was inserted over
\* them since, cost no answer: the k live vectors nearest to the query are
\* returned, all of them when there are fewer.
SearchFindsNearest ==
    \A s \in Scope : mem[s] # NoScope =>
        \A rank \in Ranks(mem[s].graph), k \in 1 .. Cardinality(VecID) :
            Search(mem[s], rank, k) = Nearest(InGraph(Live(mem[s])), rank, k)

\* The index entry of a scope is what the buckets say once the one call that
\* is still to be mirrored has been.
PendingOn(s) == {c \in Client : \E o \in pending[c] : o.scope = s}

Overlap(s) == \E c, d \in PendingOn(s) : c # d

InStep(s, st) ==
    /\ Live(st) = data[BucketOf(s)]
    /\ st # NoScope => reg[s] = [dim |-> st.dim, metric |-> st.metric]

Follows(s) ==
    load = "ok" =>
        \/ PendingOn(s) = {} /\ InStep(s, mem[s])
        \/ \E c \in Client : /\ PendingOn(s) = {c}
                             /\ \A o \in pending[c] : InStep(s, Applied(o, mem[s]))

\* VectorInsert, VectorDelete, VectorDropScope and the rebuild: as long as
\* the calls on a scope do not overlap, its index entry follows the buckets,
\* across restarts and whatever happens to other scopes meanwhile.
IndexFollows ==
    [][Separate => \A s \in Scope :
          Follows(s) /\ ~Overlap(s)' => Follows(s)']_vars
============================================================================
