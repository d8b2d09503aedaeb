---------------------------- MODULE VectorIndex ----------------------------
(***************************************************************************)
(* vectorindex/index.go: the in-memory index of one (entity, scope).  The  *)
(* hnsw graph (a library) is kept as the vectors it holds by id; a deleted *)
(* id stays in the graph behind a tombstone.  Every method holds the       *)
(* index's mutex for its whole body, so each is one operator here.         *)
(***************************************************************************)
EXTENDS Integers, Sequences, FiniteSets

CONSTANTS
    VecID,      \* vector ids
    Vector,     \* vectors callers may pass; the dimension is the length
    NoVec,      \* no vector under an id
    NoScope     \* no entry for the scope

ASSUME VectorAssumption ==
    /\ IsFiniteSet(VecID)
    /\ Vector \subseteq Seq(Int) \ {<<>>}
    /\ NoVec \notin Vector

Metric == {"Cosine", "Euclidean"}

Graph == [VecID -> Vector \cup {NoVec}]

EmptyGraph == [i \in VecID |-> NoVec]

ScopeState == [dim : Nat \ {0}, metric : Metric, graph : Graph, tombstones : SUBSET VecID]

ASSUME NoScopeAssumption == NoScope \notin ScopeState

\* Graph.Lookup and Graph.Len.
InGraph(g) == {i \in VecID : g[i] # NoVec}

\* What Search can return: ids in the graph and not behind a tombstone.
Live(st) ==
    IF st = NoScope THEN EmptyGraph
    ELSE [i \in VecID |-> IF i \in st.tombstones THEN NoVec ELSE st.graph[i]]

\* Len and ListScopes: the number of live vectors, by subtraction.
Count(st) == Cardinality(InGraph(st.graph)) - Cardinality(st.tombstones)

\* The order in which Graph.Search lists the graph's ids for some query: their
\* ranks by distance (the library's search is taken to be exact).
Ranks(g) ==
    {r \in [InGraph(g) -> 1 .. Cardinality(InGraph(g))] :
        \A i, j \in InGraph(g) : r[i] = r[j] => i = j}

\* The k first of a set in the order of the ranks.
Nearest(S, rank, k) == {i \in S : Cardinality({j \in S : rank[j] <= rank[i]}) <= k}

\* Wrong variant: k hits are fetched and the tombstones removed from them.
SearchFetchesK(st, rank, k) ==
    Nearest({i \in InGraph(st.graph) : rank[i] <= k} \ st.tombstones, rank, k)

\* Search fetches as many more hits as there are tombstones, drops the ids
\* behind tombstones and stops at k.
Search(st, rank, k) ==
    LET hits == {i \in InGraph(st.graph) : rank[i] <= k + Cardinality(st.tombstones)}
    IN  Nearest(hits \ st.tombstones, rank, k)

\* The first Insert into a scope locks its dimension and metric.
Opened(st, vec, metric) ==
    IF st # NoScope THEN st
    ELSE [dim |-> Len(vec), metric |-> metric, graph |-> EmptyGraph, tombstones |-> {}]

\* Wrong variants: the sole node is looked for among the live ones; the
\* dimension is not compared.
InsertRebuildsSoleLive(st, id, vec, metric) ==
    LET s == Opened(st, vec, metric)
        tombs == s.tombstones \ {id}
        g == IF InGraph(s.graph) \ tombs = {id} THEN EmptyGraph ELSE s.graph
    IN  [s EXCEPT !.tombstones = tombs,
                  !.graph = IF Len(vec) = s.dim THEN [g EXCEPT ![id] = vec] ELSE s.graph]

InsertAnyDim(st, id, vec, metric) ==
    LET s == Opened(st, vec, metric)
    IN  [s EXCEPT !.tombstones = @ \ {id}, !.graph = [@ EXCEPT ![id] = vec]]

\* Insert clears the tombstone of id before it compares dimensions; on a
\* mismatch it then returns an error and leaves the graph alone.  An id that
\* is in the graph already is replaced: the sole node by starting a new
\* graph, any other by deleting it first.
Insert(st, id, vec, metric) ==
    LET s == Opened(st, vec, metric)
        g == IF InGraph(s.graph) = {id} THEN EmptyGraph ELSE s.graph
    IN  [dim |-> s.dim, metric |-> s.metric,
         graph |-> IF Len(vec) = s.dim THEN [g EXCEPT ![id] = vec] ELSE s.graph,
         tombstones |-> s.tombstones \ {id}]

\* Delete only sets a tombstone, for an id the graph holds.
Delete(st, id) ==
    IF st = NoScope \/ st.graph[id] = NoVec THEN st
    ELSE [st EXCEPT !.tombstones = @ \cup {id}]
============================================================================
