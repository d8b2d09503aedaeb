---------------------------- MODULE VectorProofs ----------------------------
(***************************************************************************)
(* What holds of the vector layer for every set of scopes, ids, vectors    *)
(* and goroutines.                                                         *)
(***************************************************************************)
EXTENDS VectorStore, FiniteSetTheorems, TLAPS

\* A tombstone hides an id that the graph holds.
TombstonesInGraph ==
    \A s \in Scope : mem[s] # NoScope => mem[s].tombstones \subseteq InGraph(mem[s].graph)

\* The registry locks the dimension of everything in the scope's bucket, and
\* a scope that is not registered has an empty bucket.
BucketsMatchRegistry ==
    \A s \in Scope : /\ reg[s] = NoMeta => data[BucketOf(s)] = EmptyGraph
                     /\ reg[s] # NoMeta => Decodes(s)

\* A call gets past vectorIndex only after the rebuild.
LoadedFirst == load # "ok" => \A c \in Client : pending[c] = {}

VInv ==
    /\ VectorTypeOK
    /\ OneDimensionPerGraph
    /\ TombstonesInGraph
    /\ LoadedFirst
    /\ Separate => BucketsMatchRegistry
    /\ RebuildSucceeds

----------------------------------------------------------------------------
\* A vector has a positive dimension.
LEMMA Dimensions ==
    ASSUME NEW vec \in Vector
    PROVE  Len(vec) \in Nat \ {0}
  <1>1. vec \in Seq(Int) /\ vec # <<>>
    BY VectorAssumption
  <1> QED
    BY <1>1

\* EmptyGraph is a graph without ids.
LEMMA EmptyGraphType == EmptyGraph \in Graph /\ InGraph(EmptyGraph) = {}
  BY DEF EmptyGraph, Graph, InGraph

\* Opened yields an entry of the scope, of the dimension given or locked.
LEMMA OpenedType ==
    ASSUME NEW st \in ScopeState \cup {NoScope}, NEW vec \in Vector, NEW m \in Metric
    PROVE  /\ Opened(st, vec, m) \in ScopeState
           /\ st # NoScope => Opened(st, vec, m) = st
           /\ st = NoScope => Opened(st, vec, m) =
                 [dim |-> Len(vec), metric |-> m, graph |-> EmptyGraph, tombstones |-> {}]
  BY Dimensions, EmptyGraphType DEF Opened, ScopeState

\* Index.Insert keeps an entry well-formed: one dimension, tombstones on ids
\* of the graph.
LEMMA InsertWellFormed ==
    ASSUME NEW st \in ScopeState \cup {NoScope}, NEW id \in VecID, NEW vec \in Vector,
           NEW m \in Metric,
           st # NoScope =>
              /\ \A i \in InGraph(st.graph) : Len(st.graph[i]) = st.dim
              /\ st.tombstones \subseteq InGraph(st.graph)
    PROVE  LET r == Insert(st, id, vec, m)
           IN  /\ r \in ScopeState /\ r # NoScope
               /\ \A i \in InGraph(r.graph) : Len(r.graph[i]) = r.dim
               /\ r.tombstones \subseteq InGraph(r.graph)
  <1> DEFINE s == Opened(st, vec, m)
             g == IF InGraph(s.graph) = {id} THEN EmptyGraph ELSE s.graph
             r == Insert(st, id, vec, m)
  <1>1. s \in ScopeState
    BY OpenedType
  <1>2. /\ \A i \in InGraph(s.graph) : Len(s.graph[i]) = s.dim
        /\ s.tombstones \subseteq InGraph(s.graph)
    <2>1. CASE st # NoScope
      BY <2>1, OpenedType
    <2>2. CASE st = NoScope
      <3>1. s.graph = EmptyGraph /\ s.tombstones = {}
        BY <2>2, OpenedType
      <3> QED
        BY <3>1, EmptyGraphType
    <2> QED
      BY <2>1, <2>2
  <1> HIDE DEF s
  <1>3. r = [dim |-> s.dim, metric |-> s.metric,
             graph |-> IF Len(vec) = s.dim THEN [g EXCEPT ![id] = vec] ELSE s.graph,
             tombstones |-> s.tombstones \ {id}]
    BY DEF Insert, s
  <1>4. g \in Graph
    BY <1>1, EmptyGraphType DEF ScopeState
  <1>5. r \in ScopeState
    BY <1>1, <1>3, <1>4 DEF ScopeState, Graph
  <1>6. r # NoScope
    BY <1>5, NoScopeAssumption
  <1>7. vec # NoVec
    BY VectorAssumption
  <1>8. CASE Len(vec) # s.dim
    <2>1. r.graph = s.graph /\ r.dim = s.dim /\ r.tombstones = s.tombstones \ {id}
      BY <1>3, <1>8
    <2> QED
      BY <2>1, <1>2, <1>5, <1>6
  <1>9. CASE Len(vec) = s.dim
    <2>1. r.graph = [g EXCEPT ![id] = vec] /\ r.dim = s.dim
          /\ r.tombstones = s.tombstones \ {id}
      BY <1>3, <1>9
    <2>2. InGraph(r.graph) = InGraph(g) \cup {id}
      BY <2>1, <1>4, <1>7 DEF InGraph, Graph
    <2>3. \A i \in InGraph(g) : Len(g[i]) = s.dim
      BY <1>2, EmptyGraphType
    <2>4. \A i \in InGraph(r.graph) : Len(r.graph[i]) = r.dim
      <3>1. SUFFICES ASSUME NEW i \in InGraph(r.graph) PROVE Len(r.graph[i]) = s.dim
        BY <2>1
      <3>2. i \in VecID
        BY DEF InGraph
      <3>3. CASE i = id
        BY <3>2, <3>3, <2>1, <1>4, <1>9 DEF Graph
      <3>4. CASE i # id
        BY <3>2, <3>4, <2>1, <2>2, <2>3, <1>4 DEF Graph
      <3> QED
        BY <3>3, <3>4
    <2>5. r.tombstones \subseteq InGraph(g)
      BY <2>1, <1>2, EmptyGraphType
    <2> QED
      BY <2>2, <2>4, <2>5, <1>5, <1>6
  <1> QED
    BY <1>8, <1>9

\* Index.Delete does too.
LEMMA DeleteWellFormed ==
    ASSUME NEW st \in ScopeState \cup {NoScope}, NEW id \in VecID,
           st # NoScope =>
              /\ \A i \in InGraph(st.graph) : Len(st.graph[i]) = st.dim
              /\ st.tombstones \subseteq InGraph(st.graph)
    PROVE  LET r == Delete(st, id)
           IN  /\ r \in ScopeState \cup {NoScope}
               /\ r # NoScope =>
                    /\ \A i \in InGraph(r.graph) : Len(r.graph[i]) = r.dim
                    /\ r.tombstones \subseteq InGraph(r.graph)
  <1>1. CASE st = NoScope \/ st.graph[id] = NoVec
    BY <1>1 DEF Delete
  <1>2. CASE ~(st = NoScope \/ st.graph[id] = NoVec)
    <2>1. Delete(st, id) = [dim |-> st.dim, metric |-> st.metric, graph |-> st.graph,
                            tombstones |-> st.tombstones \cup {id}]
      BY <1>2 DEF Delete, ScopeState
    <2>2. Delete(st, id) \in ScopeState
      BY <2>1, <1>2 DEF ScopeState
    <2>3. id \in InGraph(st.graph)
      BY <1>2 DEF InGraph
    <2> QED
      BY <2>1, <2>2, <2>3, <1>2
  <1> QED
    BY <1>1, <1>2

----------------------------------------------------------------------------
\* A pending call leaves the entry it is applied to well-formed.
LEMMA AppliedWellFormed ==
    ASSUME NEW o \in Op, NEW st \in ScopeState \cup {NoScope},
           st # NoScope =>
              /\ \A i \in InGraph(st.graph) : Len(st.graph[i]) = st.dim
              /\ st.tombstones \subseteq InGraph(st.graph)
    PROVE  LET r == Applied(o, st)
           IN  /\ r \in ScopeState \cup {NoScope}
               /\ r # NoScope =>
                    /\ \A i \in InGraph(r.graph) : Len(r.graph[i]) = r.dim
                    /\ r.tombstones \subseteq InGraph(r.graph)
  <1>1. CASE o \in [op : {"insert"}, scope : Scope, id : VecID, vec : Vector, metric : Metric]
    <2>1. /\ Applied(o, st) = Insert(st, o.id, o.vec, o.metric)
          /\ o.id \in VecID /\ o.vec \in Vector /\ o.metric \in Metric
      BY <1>1 DEF Applied
    <2> QED
      BY <2>1, InsertWellFormed
  <1>2. CASE o \in [op : {"delete"}, scope : Scope, id : VecID]
    <2>1. Applied(o, st) = Delete(st, o.id) /\ o.id \in VecID
      BY <1>2 DEF Applied
    <2> QED
      BY <2>1, DeleteWellFormed
  <1>3. CASE o \in [op : {"drop"}, scope : Scope]
    <2>1. Applied(o, st) = NoScope
      BY <1>3 DEF Applied
    <2> QED
      BY <2>1
  <1> QED
    BY <1>1, <1>2, <1>3 DEF Op

\* A store just opened satisfies the invariant.
LEMMA InitVInv == Init => VInv
  BY EmptyGraphType, ScopeAssumption
  DEF Init, VInv, VectorTypeOK, OneDimensionPerGraph, TombstonesInGraph, LoadedFirst,
      BucketsMatchRegistry, RebuildSucceeds, NoIndex

\* The rebuild, given decodable buckets, yields well-formed entries.
LEMMA RebuildVInv == VInv /\ rebuildVectorIndex => VInv'
  <1> SUFFICES ASSUME VInv, rebuildVectorIndex PROVE VInv'
    OBVIOUS
  <1> USE DEF VInv, rebuildVectorIndex
  <1>1. CASE \A s \in Scope : reg[s] # NoMeta => Decodes(s)
    <2>1. /\ load' = "ok" /\ mem' = [s \in Scope |-> Rebuilt(s)]
          /\ UNCHANGED <<reg, data, pending>>
      BY <1>1
    <2>2. ASSUME NEW s \in Scope
          PROVE  /\ Rebuilt(s) \in ScopeState \cup {NoScope}
                 /\ Rebuilt(s) # NoScope =>
                      /\ \A i \in InGraph(Rebuilt(s).graph) :
                            Len(Rebuilt(s).graph[i]) = Rebuilt(s).dim
                      /\ Rebuilt(s).tombstones \subseteq InGraph(Rebuilt(s).graph)
      <3>1. CASE reg[s] = NoMeta \/ data[BucketOf(s)] = EmptyGraph
        BY <3>1 DEF Rebuilt
      <3>2. CASE reg[s] # NoMeta /\ data[BucketOf(s)] # EmptyGraph
        <4>1. /\ Rebuilt(s) = [dim |-> reg[s].dim, metric |-> reg[s].metric,
                               graph |-> data[BucketOf(s)], tombstones |-> {}]
              /\ Decodes(s)
          BY <3>2, <1>1 DEF Rebuilt
        <4>2. reg[s] \in Meta /\ data[BucketOf(s)] \in Graph
          BY <3>2, ScopeAssumption DEF VectorTypeOK
        <4>3. Rebuilt(s) \in ScopeState
          BY <4>1, <4>2 DEF ScopeState, Meta
        <4> QED
          BY <4>1, <4>3 DEF Decodes
      <3> QED
        BY <3>1, <3>2
    <2>3. VectorTypeOK'
      BY <2>1, <2>2 DEF VectorTypeOK
    <2>4. OneDimensionPerGraph' /\ TombstonesInGraph'
      BY <2>1, <2>2 DEF OneDimensionPerGraph, TombstonesInGraph
    <2>5. (Separate => BucketsMatchRegistry)'
      BY <2>1 DEF BucketsMatchRegistry, Decodes, Separate
    <2> QED
      BY <2>1, <2>3, <2>4, <2>5 DEF LoadedFirst, RebuildSucceeds
  <1>2. CASE ~ \A s \in Scope : reg[s] # NoMeta => Decodes(s)
    <2>1. /\ load' = "failed" /\ mem' = mem
          /\ UNCHANGED <<reg, data, pending>>
      BY <1>2
    <2>2. ~ Separate
      BY <1>2 DEF BucketsMatchRegistry
    <2>3. ~ Separate'
      BY <2>2 DEF Separate
    <2>4. VectorTypeOK' /\ OneDimensionPerGraph' /\ TombstonesInGraph'
      BY <2>1 DEF VectorTypeOK, OneDimensionPerGraph, TombstonesInGraph
    <2> QED
      BY <2>1, <2>3, <2>4 DEF LoadedFirst, RebuildSucceeds
  <1> QED
    BY <1>1, <1>2

\* A committed insert has the registered dimension.
LEMMA InsertVInv ==
    ASSUME VInv, NEW c \in Client, NEW s \in Scope, NEW id \in VecID, NEW vec \in Vector,
           NEW metric \in Metric, VectorInsert(c, s, id, vec, metric)
    PROVE  VInv'
  <1> DEFINE m == IF reg[s] # NoMeta THEN reg[s] ELSE [dim |-> Len(vec), metric |-> metric]
             o == [op |-> "insert", scope |-> s, id |-> id, vec |-> vec, metric |-> m.metric]
  <1>1. /\ load = "ok" /\ reg' = [reg EXCEPT ![s] = m]
        /\ pending' = [pending EXCEPT ![c] = {o}]
        /\ data' = [data EXCEPT ![BucketOf(s)] = [data[BucketOf(s)] EXCEPT ![id] = vec]]
        /\ mem' = mem /\ load' = load
        /\ reg[s] # NoMeta => reg[s].dim = Len(vec)
    BY DEF VectorInsert
  <1>2. VectorTypeOK
    BY DEF VInv
  <1>3. m \in Meta /\ m.dim = Len(vec)
    BY <1>1, <1>2, Dimensions DEF VectorTypeOK, Meta
  <1> HIDE DEF m
  <1>4. o \in Op
    BY <1>3 DEF Op, Meta
  <1>5. BucketOf(s) \in Bucket /\ data[BucketOf(s)] \in Graph
    BY <1>2, ScopeAssumption DEF VectorTypeOK
  <1>6. [data[BucketOf(s)] EXCEPT ![id] = vec] \in Graph
    BY <1>5 DEF Graph
  <1>7. VectorTypeOK'
    BY <1>1, <1>2, <1>3, <1>4, <1>5, <1>6 DEF VectorTypeOK
  <1>8. OneDimensionPerGraph' /\ TombstonesInGraph' /\ LoadedFirst'
    BY <1>1 DEF VInv, OneDimensionPerGraph, TombstonesInGraph, LoadedFirst
  <1>9. ASSUME Separate PROVE BucketsMatchRegistry'
    <2>1. SUFFICES ASSUME NEW t \in Scope
                   PROVE  /\ reg'[t] = NoMeta => data'[BucketOf(t)] = EmptyGraph
                          /\ reg'[t] # NoMeta => Decodes(t)'
      BY DEF BucketsMatchRegistry
    <2>2. BucketsMatchRegistry
      BY <1>9 DEF VInv
    <2>3. CASE t = s
      <3>1. /\ reg'[t] = m /\ m # NoMeta
            /\ data'[BucketOf(t)] = [data[BucketOf(s)] EXCEPT ![id] = vec]
        BY <2>3, <1>1, <1>2, <1>3, <1>5, ScopeAssumption DEF VectorTypeOK
      <3>2. \A i \in InGraph(data[BucketOf(s)]) : Len(data[BucketOf(s)][i]) = m.dim
        <4>1. CASE reg[s] = NoMeta
          BY <4>1, <2>2, EmptyGraphType DEF BucketsMatchRegistry
        <4>2. CASE reg[s] # NoMeta
          BY <4>2, <2>2, <1>1, <1>3 DEF BucketsMatchRegistry, Decodes
        <4> QED
          BY <4>1, <4>2
      <3>3. \A i \in InGraph(data'[BucketOf(t)]) : Len(data'[BucketOf(t)][i]) = reg'[t].dim
        BY <3>1, <3>2, <1>3, <1>5 DEF InGraph, Graph
      <3> QED
        BY <3>1, <3>3 DEF Decodes
    <2>4. CASE t # s
      <3>1. BucketOf(t) # BucketOf(s)
        BY <2>4, <1>9 DEF Separate
      <3>2. reg'[t] = reg[t] /\ data'[BucketOf(t)] = data[BucketOf(t)]
        BY <3>1, <2>4, <1>1, <1>2, <1>5, ScopeAssumption DEF VectorTypeOK
      <3> QED
        BY <3>2, <2>2 DEF BucketsMatchRegistry, Decodes
    <2> QED
      BY <2>3, <2>4
  <1>10. RebuildSucceeds'
    BY <1>1 DEF VInv, RebuildSucceeds
  <1> QED
    BY <1>7, <1>8, <1>9, <1>10 DEF VInv, Separate

\* A committed delete takes one vector out of its bucket.
LEMMA DeleteVInv ==
    ASSUME VInv, NEW c \in Client, NEW s \in Scope, NEW id \in VecID, VectorDelete(c, s, id)
    PROVE  VInv'
  <1> DEFINE o == [op |-> "delete", scope |-> s, id |-> id]
             g == [data[BucketOf(s)] EXCEPT ![id] = NoVec]
  <1>1. /\ load = "ok" /\ reg' = reg /\ pending' = [pending EXCEPT ![c] = {o}]
        /\ data' = [data EXCEPT ![BucketOf(s)] = g]
        /\ mem' = mem /\ load' = load
        /\ data[BucketOf(s)][id] # NoVec
    BY DEF VectorDelete
  <1>2. VectorTypeOK /\ o \in Op
    BY DEF VInv, Op
  <1>3. BucketOf(s) \in Bucket /\ data[BucketOf(s)] \in Graph
    BY <1>2, ScopeAssumption DEF VectorTypeOK
  <1>4. g \in Graph /\ InGraph(g) \subseteq InGraph(data[BucketOf(s)])
        /\ \A i \in InGraph(g) : g[i] = data[BucketOf(s)][i]
    BY <1>3 DEF Graph, InGraph
  <1> HIDE DEF g, o
  <1>5. VectorTypeOK'
    BY <1>1, <1>2, <1>3, <1>4 DEF VectorTypeOK
  <1>6. OneDimensionPerGraph' /\ TombstonesInGraph' /\ LoadedFirst' /\ RebuildSucceeds'
    BY <1>1 DEF VInv, OneDimensionPerGraph, TombstonesInGraph, LoadedFirst, RebuildSucceeds
  <1>7. ASSUME Separate PROVE BucketsMatchRegistry'
    <2>1. SUFFICES ASSUME NEW t \in Scope
                   PROVE  /\ reg'[t] = NoMeta => data'[BucketOf(t)] = EmptyGraph
                          /\ reg'[t] # NoMeta => Decodes(t)'
      BY DEF BucketsMatchRegistry
    <2>2. BucketsMatchRegistry
      BY <1>7 DEF VInv
    <2>3. CASE t = s
      <3>1. reg'[t] = reg[s] /\ data'[BucketOf(t)] = g
        BY <2>3, <1>1, <1>2, <1>3 DEF VectorTypeOK
      <3>2. reg[s] # NoMeta
        BY <2>2, <1>1 DEF BucketsMatchRegistry, EmptyGraph
      <3> QED
        BY <3>1, <3>2, <2>2, <1>4 DEF BucketsMatchRegistry, Decodes
    <2>4. CASE t # s
      <3>1. BucketOf(t) # BucketOf(s)
        BY <2>4, <1>7 DEF Separate
      <3>2. reg'[t] = reg[t] /\ data'[BucketOf(t)] = data[BucketOf(t)]
        BY <3>1, <1>1, <1>2, <1>3, ScopeAssumption DEF VectorTypeOK
      <3> QED
        BY <3>2, <2>2 DEF BucketsMatchRegistry, Decodes
    <2> QED
      BY <2>3, <2>4
  <1> QED
    BY <1>5, <1>6, <1>7 DEF VInv, Separate

\* A committed drop leaves neither a registry entry nor vectors.
LEMMA DropVInv ==
    ASSUME VInv, NEW c \in Client, NEW s \in Scope, VectorDropScope(c, s)
    PROVE  VInv'
  <1> DEFINE os == IF reg[s] # NoMeta THEN {[op |-> "drop", scope |-> s]} ELSE {}
  <1>1. /\ load = "ok" /\ reg' = [reg EXCEPT ![s] = NoMeta]
        /\ pending' = [pending EXCEPT ![c] = os]
        /\ data' = [data EXCEPT ![BucketOf(s)] = EmptyGraph]
        /\ mem' = mem /\ load' = load
    BY DEF VectorDropScope
  <1>2. VectorTypeOK /\ os \subseteq Op /\ \A o, p \in os : o = p
    BY DEF VInv, Op
  <1> HIDE DEF os
  <1>3. VectorTypeOK'
    BY <1>1, <1>2, EmptyGraphType, ScopeAssumption DEF VectorTypeOK
  <1>4. OneDimensionPerGraph' /\ TombstonesInGraph' /\ LoadedFirst' /\ RebuildSucceeds'
    BY <1>1 DEF VInv, OneDimensionPerGraph, TombstonesInGraph, LoadedFirst, RebuildSucceeds
  <1>5. ASSUME Separate PROVE BucketsMatchRegistry'
    <2>1. SUFFICES ASSUME NEW t \in Scope
                   PROVE  /\ reg'[t] = NoMeta => data'[BucketOf(t)] = EmptyGraph
                          /\ reg'[t] # NoMeta => Decodes(t)'
      BY DEF BucketsMatchRegistry
    <2>2. BucketsMatchRegistry
      BY <1>5 DEF VInv
    <2>3. CASE t = s
      BY <2>3, <1>1, <1>2, ScopeAssumption DEF VectorTypeOK
    <2>4. CASE t # s
      <3>1. BucketOf(t) # BucketOf(s)
        BY <2>4, <1>5 DEF Separate
      <3>2. reg'[t] = reg[t] /\ data'[BucketOf(t)] = data[BucketOf(t)]
        BY <3>1, <2>4, <1>1, <1>2, ScopeAssumption DEF VectorTypeOK
      <3> QED
        BY <3>2, <2>2 DEF BucketsMatchRegistry, Decodes
    <2> QED
      BY <2>3, <2>4
  <1> QED
    BY <1>3, <1>4, <1>5 DEF VInv, Separate

\* The in-memory half of a call touches one index entry.
LEMMA MirrorVInv ==
    ASSUME VInv, NEW c \in Client, Mirror(c)
    PROVE  VInv'
  <1>1. PICK o \in pending[c] : mem' = [mem EXCEPT ![o.scope] = Applied(o, mem[o.scope])]
    BY DEF Mirror
  <1>2. /\ pending' = [pending EXCEPT ![c] = {}]
        /\ UNCHANGED <<reg, data, load>>
    BY DEF Mirror
  <1>3. VectorTypeOK
    BY DEF VInv
  <1>4. o \in Op /\ o.scope \in Scope
    BY <1>3 DEF VectorTypeOK, Op
  <1> DEFINE r == Applied(o, mem[o.scope])
  <1>5. /\ r \in ScopeState \cup {NoScope}
        /\ r # NoScope =>
             /\ \A i \in InGraph(r.graph) : Len(r.graph[i]) = r.dim
             /\ r.tombstones \subseteq InGraph(r.graph)
    <2>1. mem[o.scope] \in ScopeState \cup {NoScope}
      BY <1>3, <1>4 DEF VectorTypeOK
    <2>2. mem[o.scope] # NoScope =>
            /\ \A i \in InGraph(mem[o.scope].graph) : Len(mem[o.scope].graph[i]) = mem[o.scope].dim
            /\ mem[o.scope].tombstones \subseteq InGraph(mem[o.scope].graph)
      BY <1>4 DEF VInv, OneDimensionPerGraph, TombstonesInGraph
    <2> QED
      BY <2>1, <2>2, <1>4, AppliedWellFormed
  <1> HIDE DEF r
  <1>6. mem' = [mem EXCEPT ![o.scope] = r]
    BY <1>1 DEF r
  <1>7. VectorTypeOK'
    BY <1>2, <1>3, <1>4, <1>5, <1>6 DEF VectorTypeOK
  <1>8. \A t \in Scope : mem'[t] = mem[t] \/ mem'[t] = r
    BY <1>3, <1>4, <1>6 DEF VectorTypeOK
  <1>9. OneDimensionPerGraph' /\ TombstonesInGraph'
    BY <1>5, <1>8 DEF VInv, OneDimensionPerGraph, TombstonesInGraph
  <1>10. LoadedFirst'
    BY <1>2, <1>3 DEF VInv, LoadedFirst, VectorTypeOK
  <1>11. (Separate => BucketsMatchRegistry)' /\ RebuildSucceeds'
    BY <1>2 DEF VInv, BucketsMatchRegistry, Decodes, RebuildSucceeds, Separate
  <1> QED
    BY <1>7, <1>9, <1>10, <1>11 DEF VInv

\* A crash leaves the buckets and no index.
LEMMA CrashVInv == VInv /\ Crash => VInv'
  BY DEF VInv, Crash, VectorTypeOK, OneDimensionPerGraph, TombstonesInGraph, LoadedFirst,
         BucketsMatchRegistry, Decodes, RebuildSucceeds, Separate, NoIndex

\* The handler passes a metric of the index.
LEMMA WireMetrics == \A m : metricFromProto(m) \in Metric
  BY DEF metricFromProto, Metric

\* The invariant is inductive.
LEMMA NextVInv == VInv /\ [Next]_vars => VInv'
  <1> SUFFICES ASSUME VInv, [Next]_vars PROVE VInv'
    OBVIOUS
  <1>1. CASE rebuildVectorIndex
    BY <1>1, RebuildVInv
  <1>2. CASE \E c \in Client, s \in Scope, id \in VecID, vec \in Vector, metric \in Metric :
                VectorInsert(c, s, id, vec, metric)
    BY <1>2, InsertVInv
  <1>3. CASE \E c \in Client, s \in Scope, id \in VecID : VectorDelete(c, s, id)
    BY <1>3, DeleteVInv
  <1>4. CASE \E c \in Client, s \in Scope : VectorDropScope(c, s)
    BY <1>4, DropVInv
  <1>5. CASE \E c \in Client : Mirror(c)
    BY <1>5, MirrorVInv
  <1>6. CASE Crash
    BY <1>6, CrashVInv
  <1>7. CASE UNCHANGED vars
    BY <1>7 DEF vars, VInv, VectorTypeOK, OneDimensionPerGraph, TombstonesInGraph,
                LoadedFirst, BucketsMatchRegistry, Decodes, RebuildSucceeds, Separate
  <1> QED
    BY <1>1, <1>2, <1>3, <1>4, <1>5, <1>6, <1>7, WireMetrics DEF Next

\* The inductive invariant holds of the vector layer.
THEOREM VectorInvariance == Spec => []VInv
  BY InitVInv, NextVInv, PTL DEF Spec

\* Type correctness of the vector layer.
THEOREM VectorTyping == Spec => []VectorTypeOK
  <1>1. VInv => VectorTypeOK
    BY DEF VInv
  <1> QED
    BY <1>1, VectorInvariance, PTL

\* rebuildVectorIndex never fails on what VectorInsert, VectorDelete and
\* VectorDropScope left in buckets of their own.
THEOREM RebuildAlwaysSucceeds == Spec => []RebuildSucceeds
  <1>1. VInv => RebuildSucceeds
    BY DEF VInv
  <1> QED
    BY <1>1, VectorInvariance, PTL

\* Index.Insert never puts vectors of two dimensions in one graph.
THEOREM GraphsKeepOneDimension == Spec => []OneDimensionPerGraph
  <1>1. VInv => OneDimensionPerGraph
    BY DEF VInv
  <1> QED
    BY <1>1, VectorInvariance, PTL

\* Len and ListScopes count the live vectors.
THEOREM CountsStayLive == Spec => []CountsAreLive
  <1>1. VInv => CountsAreLive
    <2> SUFFICES ASSUME VInv, NEW s \in Scope, mem[s] # NoScope
                 PROVE  Count(mem[s]) = Cardinality(InGraph(Live(mem[s])))
      BY DEF CountsAreLive
    <2> DEFINE st == mem[s]
               G == InGraph(st.graph)
    <2>1. st \in ScopeState /\ st.tombstones \subseteq G
      BY DEF VInv, VectorTypeOK, TombstonesInGraph
    <2>2. InGraph(Live(st)) = G \ st.tombstones
      BY DEF Live, InGraph
    <2>3. IsFiniteSet(G)
      BY VectorAssumption, FS_Subset DEF InGraph
    <2>4. Cardinality(G \ st.tombstones) = Cardinality(G) - Cardinality(G \cap st.tombstones)
      BY <2>3, FS_Difference
    <2>5. G \cap st.tombstones = st.tombstones
      BY <2>1
    <2> QED
      BY <2>2, <2>4, <2>5 DEF Count
  <1> QED
    BY <1>1, VectorInvariance, PTL

\* The ids of rank at most m are m in number.
LEMMA RankCount ==
    ASSUME NEW g \in Graph, NEW rank \in Ranks(g), NEW m \in 0 .. Cardinality(InGraph(g))
    PROVE  Cardinality({j \in InGraph(g) : rank[j] <= m}) = m
  <1> DEFINE G == InGraph(g)
             n == Cardinality(G)
             Low == {j \in G : rank[j] <= m}
             High == {j \in G : rank[j] > m}
  <1>1. IsFiniteSet(G) /\ n \in Nat
    BY VectorAssumption, FS_Subset, FS_CardinalityType DEF InGraph
  <1>2. rank \in [G -> 1 .. n] /\ \A i, j \in G : rank[i] = rank[j] => i = j
    BY DEF Ranks
  <1>3. IsFiniteSet(Low) /\ IsFiniteSet(High)
    BY <1>1, FS_Subset
  <1>4. Cardinality(Low) <= m
    <2>1. [j \in Low |-> rank[j]] \in Injection(Low, 1 .. m)
      BY <1>1, <1>2 DEF Injection, IsInjective
    <2>2. IsFiniteSet(1 .. m) /\ Cardinality(1 .. m) = m
      BY <1>1, FS_Interval
    <2> QED
      BY <2>1, <2>2, FS_Injection
  <1>5. Cardinality(High) <= n - m
    <2>1. [j \in High |-> rank[j]] \in Injection(High, m + 1 .. n)
      BY <1>1, <1>2 DEF Injection, IsInjective
    <2>2. IsFiniteSet(m + 1 .. n) /\ Cardinality(m + 1 .. n) = n - m
      BY <1>1, FS_Interval
    <2> QED
      BY <2>1, <2>2, FS_Injection
  <1>6. G = Low \cup High /\ Low \cap High = {}
    BY <1>1, <1>2
  <1>7. n = Cardinality(Low) + Cardinality(High)
    <2>1. n = Cardinality(Low) + Cardinality(High) - Cardinality(Low \cap High)
      BY <1>3, <1>6, FS_Union
    <2>2. Cardinality(Low \cap High) = 0
      BY <1>6, FS_EmptySet
    <2>3. Cardinality(Low) \in Nat /\ Cardinality(High) \in Nat
      BY <1>3, FS_CardinalityType
    <2> HIDE DEF n, Low, High
    <2> QED
      BY <2>1, <2>2, <2>3
  <1> QED
    BY <1>1, <1>3, <1>4, <1>5, <1>7, FS_CardinalityType

\* Search fetches enough hits to find the nearest live vectors.
THEOREM SearchStaysFull == Spec => []SearchFindsNearest
  <1>1. VInv => SearchFindsNearest
    <2> SUFFICES ASSUME VInv, NEW s \in Scope, mem[s] # NoScope,
                        NEW rank \in Ranks(mem[s].graph), NEW k \in 1 .. Cardinality(VecID)
                 PROVE  Search(mem[s], rank, k) = Nearest(InGraph(Live(mem[s])), rank, k)
      BY DEF SearchFindsNearest
    <2> DEFINE st == mem[s]
               G == InGraph(st.graph)
               T == st.tombstones
               L == G \ T
               fetched == k + Cardinality(T)
               H == {i \in G : rank[i] <= fetched}
    <2>1. st \in ScopeState /\ st.graph \in Graph /\ T \subseteq G
      BY DEF VInv, VectorTypeOK, TombstonesInGraph, ScopeState
    <2>2. InGraph(Live(st)) = L
      BY DEF Live, InGraph
    <2>3. IsFiniteSet(G) /\ IsFiniteSet(T) /\ Cardinality(G) \in Nat /\ Cardinality(T) \in Nat
      BY <2>1, VectorAssumption, FS_Subset, FS_CardinalityType DEF InGraph
    <2>4. rank \in [G -> 1 .. Cardinality(G)]
      BY DEF Ranks
    <2>5. ASSUME NEW i \in L, Cardinality({j \in L : rank[j] <= rank[i]}) <= k
          PROVE  rank[i] <= fetched
      <3> DEFINE Near == {j \in G : rank[j] <= rank[i]}
                 Alive == {j \in L : rank[j] <= rank[i]}
      <3>1. Cardinality(Near) = rank[i]
        BY <2>1, <2>3, <2>4, RankCount
      <3>2. IsFiniteSet(Near) /\ IsFiniteSet(Alive) /\ IsFiniteSet(Near \ Alive)
        BY <2>3, FS_Subset
      <3>3. Near \ Alive \subseteq T
        OBVIOUS
      <3>4. Cardinality(Near \ Alive) <= Cardinality(T)
        BY <2>3, <3>3, FS_Subset
      <3>5. Cardinality(Near \ Alive) = Cardinality(Near) - Cardinality(Near \cap Alive)
        BY <3>2, FS_Difference
      <3>6. Near \cap Alive = Alive
        OBVIOUS
      <3>7. Cardinality(Alive) \in Nat /\ rank[i] \in Int /\ Cardinality(Alive) <= k
        BY <2>3, <2>4, <2>5, <3>2, FS_CardinalityType
      <3>8. rank[i] = Cardinality(Near \ Alive) + Cardinality(Alive)
        <4>1. Cardinality(Near \ Alive) = rank[i] - Cardinality(Alive)
          BY <3>1, <3>5, <3>6
        <4> HIDE DEF Near, Alive
        <4> QED
          BY <3>7, <4>1
      <3>9. Cardinality(Near \ Alive) \in Nat
        BY <3>2, FS_CardinalityType
      <3> HIDE DEF Near, Alive, T
      <3> QED
        BY <2>3, <3>4, <3>7, <3>8, <3>9
    <2>6. ASSUME NEW i \in H \ T
          PROVE  {j \in H \ T : rank[j] <= rank[i]} = {j \in L : rank[j] <= rank[i]}
      BY <2>3, <2>4
    <2>7. Nearest(H \ T, rank, k) = Nearest(L, rank, k)
      BY <2>5, <2>6 DEF Nearest
    <2> QED
      BY <2>2, <2>7 DEF Search
  <1> QED
    BY <1>1, VectorInvariance, PTL

----------------------------------------------------------------------------
(* The index entry follows the buckets of a scope without overlapping      *)
(* calls.                                                                  *)

\* Index.Insert into an entry of the vector's dimension adds that vector.
LEMMA LiveInsert ==
    ASSUME NEW st \in ScopeState \cup {NoScope}, NEW id \in VecID, NEW vec \in Vector,
           NEW m \in Metric, st # NoScope => st.dim = Len(vec)
    PROVE  LET r == Insert(st, id, vec, m)
           IN  /\ Live(r) = [Live(st) EXCEPT ![id] = vec]
               /\ r.dim = Len(vec)
               /\ r.metric = IF st = NoScope THEN m ELSE st.metric
  <1> DEFINE s == Opened(st, vec, m)
             g == IF InGraph(s.graph) = {id} THEN EmptyGraph ELSE s.graph
             r == Insert(st, id, vec, m)
  <1>1. /\ s \in ScopeState /\ s.dim = Len(vec)
        /\ s.metric = IF st = NoScope THEN m ELSE st.metric
    BY OpenedType
  <1>2. Live(st) = [i \in VecID |-> IF i \in s.tombstones THEN NoVec ELSE s.graph[i]]
    <2>1. CASE st = NoScope
      <3>1. s.graph = EmptyGraph /\ s.tombstones = {}
        BY <2>1, OpenedType
      <3> QED
        BY <3>1, <2>1 DEF Live, EmptyGraph
    <2>2. CASE st # NoScope
      BY <2>2, OpenedType DEF Live
    <2> QED
      BY <2>1, <2>2
  <1> HIDE DEF s
  <1>3. r = [dim |-> s.dim, metric |-> s.metric, graph |-> [g EXCEPT ![id] = vec],
             tombstones |-> s.tombstones \ {id}]
    BY <1>1 DEF Insert, s
  <1>4. g \in Graph /\ \A i \in VecID : i # id => g[i] = s.graph[i]
    BY <1>1, EmptyGraphType DEF ScopeState, Graph, InGraph, EmptyGraph
  <1> HIDE DEF g
  <1>5. r \in ScopeState
    BY <1>1, <1>3, <1>4 DEF ScopeState, Graph
  <1>6. Live(r) = [i \in VecID |-> IF i \in r.tombstones THEN NoVec ELSE r.graph[i]]
    BY <1>5, NoScopeAssumption DEF Live
  <1>7. \A i \in VecID : (IF i \in r.tombstones THEN NoVec ELSE r.graph[i])
                         = IF i = id THEN vec
                           ELSE IF i \in s.tombstones THEN NoVec ELSE s.graph[i]
    BY <1>3, <1>4 DEF Graph
  <1>8. Live(r) = [Live(st) EXCEPT ![id] = vec]
    BY <1>2, <1>6, <1>7
  <1> QED
    BY <1>1, <1>3, <1>8

\* Index.Delete of a live id removes that vector.
LEMMA LiveDelete ==
    ASSUME NEW st \in ScopeState \cup {NoScope}, NEW id \in VecID, Live(st)[id] # NoVec
    PROVE  LET r == Delete(st, id)
           IN  /\ st # NoScope /\ Live(r) = [Live(st) EXCEPT ![id] = NoVec]
               /\ r.dim = st.dim /\ r.metric = st.metric
  <1> DEFINE r == Delete(st, id)
  <1>1. st # NoScope
    BY DEF Live, EmptyGraph
  <1>2. st.graph[id] # NoVec
    BY <1>1 DEF Live
  <1>3. r = [dim |-> st.dim, metric |-> st.metric, graph |-> st.graph,
             tombstones |-> st.tombstones \cup {id}]
    BY <1>1, <1>2 DEF Delete, ScopeState
  <1>4. r \in ScopeState
    BY <1>1, <1>3 DEF ScopeState
  <1>5. Live(r) = [i \in VecID |-> IF i \in r.tombstones THEN NoVec ELSE r.graph[i]]
    BY <1>4, NoScopeAssumption DEF Live
  <1>6. Live(r) = [Live(st) EXCEPT ![id] = NoVec]
    <2>1. Live(st) = [i \in VecID |-> IF i \in st.tombstones THEN NoVec ELSE st.graph[i]]
      BY <1>1 DEF Live
    <2>2. \A i \in VecID : (IF i \in r.tombstones THEN NoVec ELSE r.graph[i])
                           = IF i = id THEN NoVec
                             ELSE IF i \in st.tombstones THEN NoVec ELSE st.graph[i]
      BY <1>3
    <2> QED
      BY <2>1, <2>2, <1>5
  <1> QED
    BY <1>1, <1>3, <1>6

\* The committed half of a call on s leaves what another scope depends on.
LEMMA OtherScope ==
    ASSUME VInv, Separate, NEW c \in Client, NEW t \in Scope, NEW s \in Scope, s # t,
           NEW g, NEW e, NEW os,
           pending[c] = {}, \A o \in os : o.scope = t,
           reg' = [reg EXCEPT ![t] = e],
           data' = [data EXCEPT ![BucketOf(t)] = g],
           pending' = [pending EXCEPT ![c] = os],
           UNCHANGED <<mem, load>>,
           Follows(s)
    PROVE  Follows(s)'
  <1>1. VectorTypeOK /\ BucketOf(s) \in Bucket /\ BucketOf(s) # BucketOf(t)
    BY ScopeAssumption DEF VInv, Separate
  <1>2. reg'[s] = reg[s] /\ data'[BucketOf(s)] = data[BucketOf(s)] /\ mem'[s] = mem[s]
    BY <1>1 DEF VectorTypeOK
  <1>3. \A d \in Client : d \in PendingOn(s)' <=> d \in PendingOn(s)
    <2> SUFFICES ASSUME NEW d \in Client
                 PROVE (\E o \in pending'[d] : o.scope = s) <=> \E o \in pending[d] : o.scope = s
      BY DEF PendingOn
    <2>1. CASE d = c
      BY <2>1, <1>1 DEF VectorTypeOK
    <2>2. CASE d # c
      BY <2>2, <1>1 DEF VectorTypeOK
    <2> QED
      BY <2>1, <2>2
  <1>4. PendingOn(s)' = PendingOn(s)
    BY <1>3 DEF PendingOn
  <1>5. \A d \in PendingOn(s) : d # c /\ pending'[d] = pending[d]
    BY <1>1 DEF PendingOn, VectorTypeOK
  <1>6. ASSUME NEW st PROVE InStep(s, st)' <=> InStep(s, st)
    BY <1>2 DEF InStep
  <1> QED
    BY <1>2, <1>4, <1>5, <1>6 DEF Follows, InStep

\* A call commits on a scope that has no other call to mirror: the index
\* entry is in step before, and the entry with the call applied is after.
LEMMA AloneOnScope ==
    ASSUME VInv, NEW c \in Client, NEW s \in Scope, NEW o, o.scope = s,
           load = "ok", pending[c] = {}, pending' = [pending EXCEPT ![c] = {o}],
           Follows(s), ~Overlap(s)'
    PROVE  /\ PendingOn(s) = {} /\ InStep(s, mem[s])
           /\ PendingOn(s)' = {c} /\ pending'[c] = {o}
  <1>1. VectorTypeOK
    BY DEF VInv
  <1>2. pending'[c] = {o} /\ \A d \in Client : d # c => pending'[d] = pending[d]
    BY <1>1 DEF VectorTypeOK
  <1>3. c \in PendingOn(s)'
    BY <1>2 DEF PendingOn
  <1>4. PendingOn(s)' = {c}
    BY <1>3 DEF Overlap, PendingOn
  <1>5. PendingOn(s) = {}
    BY <1>2, <1>4 DEF PendingOn
  <1> QED
    BY <1>2, <1>4, <1>5 DEF Follows

\* A step made by VectorInsert.
LEMMA InsertFollows ==
    ASSUME VInv, Separate, NEW c \in Client, NEW t \in Scope, NEW id \in VecID,
           NEW vec \in Vector, NEW metric \in Metric, VectorInsert(c, t, id, vec, metric),
           NEW s \in Scope, Follows(s), ~Overlap(s)'
    PROVE  Follows(s)'
  <1> DEFINE m == IF reg[t] # NoMeta THEN reg[t] ELSE [dim |-> Len(vec), metric |-> metric]
             o == [op |-> "insert", scope |-> t, id |-> id, vec |-> vec, metric |-> m.metric]
             g == [data[BucketOf(t)] EXCEPT ![id] = vec]
  <1>1. /\ load = "ok" /\ pending[c] = {} /\ reg' = [reg EXCEPT ![t] = m]
        /\ pending' = [pending EXCEPT ![c] = {o}]
        /\ data' = [data EXCEPT ![BucketOf(t)] = g]
        /\ UNCHANGED <<mem, load>>
        /\ reg[t] # NoMeta => reg[t].dim = Len(vec)
    BY DEF VectorInsert
  <1>2. CASE s # t
    <2> DEFINE os == {o}
    <2>1. (\A x \in os : x.scope = t) /\ pending' = [pending EXCEPT ![c] = os]
      BY <1>1
    <2> HIDE DEF o, os, m, g
    <2> QED
      BY <1>1, <1>2, <2>1, OtherScope
  <1>3. CASE s = t
    <2>1. VectorTypeOK
      BY DEF VInv
    <2>2. m \in Meta /\ m = [dim |-> Len(vec), metric |-> m.metric]
      BY <1>1, <2>1, Dimensions DEF VectorTypeOK, Meta
    <2>3. reg[t] # NoMeta => m = reg[t]
      OBVIOUS
    <2> HIDE DEF m
    <2>4. o.scope = t /\ Applied(o, mem[t]) = Insert(mem[t], id, vec, m.metric)
      BY DEF Applied
    <2> HIDE DEF o, g
    <2>5. /\ PendingOn(s) = {} /\ InStep(s, mem[s])
          /\ PendingOn(s)' = {c} /\ pending'[c] = {o}
      BY <1>1, <1>3, <2>4, AloneOnScope
    <2>6. /\ Live(mem[t]) = data[BucketOf(t)]
          /\ mem[t] # NoScope => reg[t] = [dim |-> mem[t].dim, metric |-> mem[t].metric]
      BY <2>5, <1>3 DEF InStep
    <2>7. mem[t] \in ScopeState \cup {NoScope} /\ m.metric \in Metric
      BY <2>1, <2>2 DEF VectorTypeOK, Meta
    <2>8. mem[t] # NoScope => /\ reg[t] # NoMeta /\ m = reg[t]
                              /\ mem[t].dim = Len(vec) /\ mem[t].metric = m.metric
      <3> SUFFICES ASSUME mem[t] # NoScope
                   PROVE  /\ reg[t] # NoMeta /\ m = reg[t]
                          /\ mem[t].dim = Len(vec) /\ mem[t].metric = m.metric
        OBVIOUS
      <3>1. reg[t] = [dim |-> mem[t].dim, metric |-> mem[t].metric]
        BY <2>6
      <3>2. reg[t] \in Meta
        BY <3>1, <2>7 DEF ScopeState, Meta
      <3>3. reg[t] # NoMeta
        BY <3>2, ScopeAssumption
      <3> QED
        BY <3>1, <3>3, <2>2, <2>3, <1>1
    <2>9. LET r == Applied(o, mem[t])
          IN  /\ Live(r) = [Live(mem[t]) EXCEPT ![id] = vec]
              /\ r.dim = Len(vec) /\ r.metric = m.metric
      BY <2>4, <2>7, <2>8, LiveInsert
    <2>10. data'[BucketOf(t)] = [data[BucketOf(t)] EXCEPT ![id] = vec] /\ reg'[t] = m
      BY <1>1, <2>1, ScopeAssumption DEF VectorTypeOK, g
    <2>11. ASSUME NEW x \in pending'[c] PROVE InStep(t, Applied(x, mem[t]))'
      <3>1. Applied(x, mem'[t]) = Applied(o, mem[t])
        BY <2>5, <1>1
      <3> QED
        BY <3>1, <2>2, <2>6, <2>9, <2>10 DEF InStep
    <2> QED
      BY <2>5, <2>11, <1>1, <1>3 DEF Follows
  <1> QED
    BY <1>2, <1>3

\* A step made by VectorDelete.
LEMMA DeleteFollows ==
    ASSUME VInv, Separate, NEW c \in Client, NEW t \in Scope, NEW id \in VecID,
           VectorDelete(c, t, id), NEW s \in Scope, Follows(s), ~Overlap(s)'
    PROVE  Follows(s)'
  <1> DEFINE o == [op |-> "delete", scope |-> t, id |-> id]
             g == [data[BucketOf(t)] EXCEPT ![id] = NoVec]
  <1>1. /\ load = "ok" /\ pending[c] = {} /\ reg' = reg
        /\ pending' = [pending EXCEPT ![c] = {o}]
        /\ data' = [data EXCEPT ![BucketOf(t)] = g]
        /\ UNCHANGED <<mem, load>>
        /\ data[BucketOf(t)][id] # NoVec
    BY DEF VectorDelete
  <1>2. VectorTypeOK
    BY DEF VInv
  <1>3. CASE s # t
    <2> DEFINE os == {o}
               e == reg[t]
    <2>1. (\A x \in os : x.scope = t) /\ pending' = [pending EXCEPT ![c] = os]
      BY <1>1
    <2>2. reg' = [reg EXCEPT ![t] = e]
      BY <1>1, <1>2 DEF VectorTypeOK
    <2> HIDE DEF o, os, e, g
    <2> QED
      BY <1>1, <1>3, <2>1, <2>2, OtherScope
  <1>4. CASE s = t
    <2>1. o.scope = t /\ Applied(o, mem[t]) = Delete(mem[t], id)
      BY DEF Applied
    <2> HIDE DEF o, g
    <2>2. /\ PendingOn(s) = {} /\ InStep(s, mem[s])
          /\ PendingOn(s)' = {c} /\ pending'[c] = {o}
      BY <1>1, <1>4, <2>1, AloneOnScope
    <2>3. /\ Live(mem[t]) = data[BucketOf(t)]
          /\ mem[t] # NoScope => reg[t] = [dim |-> mem[t].dim, metric |-> mem[t].metric]
      BY <2>2, <1>4 DEF InStep
    <2>4. mem[t] \in ScopeState \cup {NoScope}
      BY <1>2 DEF VectorTypeOK
    <2>5. LET r == Applied(o, mem[t])
          IN  /\ mem[t] # NoScope /\ Live(r) = [Live(mem[t]) EXCEPT ![id] = NoVec]
              /\ r.dim = mem[t].dim /\ r.metric = mem[t].metric
      BY <2>1, <2>3, <2>4, <1>1, LiveDelete
    <2>6. data'[BucketOf(t)] = [data[BucketOf(t)] EXCEPT ![id] = NoVec]
      BY <1>1, <1>2, ScopeAssumption DEF VectorTypeOK, g
    <2>7. ASSUME NEW x \in pending'[c] PROVE InStep(t, Applied(x, mem[t]))'
      <3>1. Applied(x, mem'[t]) = Applied(o, mem[t])
        BY <2>2, <1>1
      <3> QED
        BY <3>1, <2>3, <2>5, <2>6, <1>1 DEF InStep
    <2> QED
      BY <2>2, <2>7, <1>1, <1>4 DEF Follows
  <1> QED
    BY <1>3, <1>4

\* A step made by VectorDropScope.
LEMMA DropFollows ==
    ASSUME VInv, Separate, NEW c \in Client, NEW t \in Scope, VectorDropScope(c, t),
           NEW s \in Scope, Follows(s), ~Overlap(s)'
    PROVE  Follows(s)'
  <1> DEFINE o == [op |-> "drop", scope |-> t]
             os == IF reg[t] # NoMeta THEN {o} ELSE {}
  <1>1. /\ load = "ok" /\ pending[c] = {} /\ reg' = [reg EXCEPT ![t] = NoMeta]
        /\ pending' = [pending EXCEPT ![c] = os]
        /\ data' = [data EXCEPT ![BucketOf(t)] = EmptyGraph]
        /\ UNCHANGED <<mem, load>>
    BY DEF VectorDropScope
  <1>2. VectorTypeOK
    BY DEF VInv
  <1>3. CASE s # t
    <2>1. \A x \in os : x.scope = t
      OBVIOUS
    <2> HIDE DEF os
    <2> QED
      BY <1>1, <1>3, <2>1, OtherScope
  <1>4. data'[BucketOf(t)] = EmptyGraph /\ reg'[t] = NoMeta
    BY <1>1, <1>2, ScopeAssumption DEF VectorTypeOK
  <1>5. CASE s = t /\ reg[t] # NoMeta
    <2>1. o.scope = t /\ Applied(o, mem[t]) = NoScope
      BY DEF Applied
    <2>2. pending' = [pending EXCEPT ![c] = {o}]
      BY <1>1, <1>5
    <2> HIDE DEF o, os
    <2>3. PendingOn(s)' = {c} /\ pending'[c] = {o}
      BY <1>1, <1>5, <2>1, <2>2, AloneOnScope
    <2>4. ASSUME NEW x \in pending'[c] PROVE InStep(t, Applied(x, mem[t]))'
      <3>1. Applied(x, mem'[t]) = NoScope
        BY <2>1, <2>3, <1>1
      <3> QED
        BY <3>1, <1>4 DEF InStep, Live
    <2> QED
      BY <2>3, <2>4, <1>1, <1>5 DEF Follows
  <1>6. CASE s = t /\ reg[t] = NoMeta
    <2>1. data[BucketOf(t)] = EmptyGraph
      BY <1>6 DEF VInv, BucketsMatchRegistry
    <2>2. data' = data /\ reg' = reg /\ pending' = pending
      BY <1>1, <1>2, <1>6, <2>1, ScopeAssumption DEF VectorTypeOK
    <2>3. PendingOn(s)' = PendingOn(s)
      BY <2>2 DEF PendingOn
    <2>4. ASSUME NEW st PROVE InStep(s, st)' <=> InStep(s, st)
      BY <2>2 DEF InStep
    <2>5. mem' = mem /\ load' = load /\ pending' = pending
      BY <1>1, <2>2
    <2> HIDE DEF o, os
    <2> QED
      BY <2>3, <2>4, <2>5 DEF Follows
  <1> QED
    BY <1>3, <1>5, <1>6

\* A step that mirrors a committed call.
LEMMA MirrorFollows ==
    ASSUME VInv, NEW c \in Client, Mirror(c), NEW s \in Scope, Follows(s)
    PROVE  Follows(s)'
  <1>1. PICK o \in pending[c] : mem' = [mem EXCEPT ![o.scope] = Applied(o, mem[o.scope])]
    BY DEF Mirror
  <1>2. pending' = [pending EXCEPT ![c] = {}] /\ UNCHANGED <<reg, data, load>>
    BY DEF Mirror
  <1>3. VectorTypeOK /\ o.scope \in Scope /\ pending[c] = {o}
    BY DEF VInv, VectorTypeOK, Op
  <1>4. pending'[c] = {} /\ \A d \in Client : d # c => pending'[d] = pending[d]
    BY <1>2, <1>3 DEF VectorTypeOK
  <1>5. ASSUME NEW st PROVE InStep(s, st)' <=> InStep(s, st)
    BY <1>2 DEF InStep
  <1>6. CASE o.scope = s
    <2>1. c \in PendingOn(s)
      BY <1>6 DEF PendingOn
    <2>2. load = "ok" => PendingOn(s) = {c} /\ InStep(s, Applied(o, mem[s]))
      BY <2>1 DEF Follows
    <2>3. load = "ok" => PendingOn(s)' = {}
      BY <2>2, <1>4 DEF PendingOn
    <2>4. mem'[s] = Applied(o, mem[s])
      BY <1>1, <1>3, <1>6 DEF VectorTypeOK
    <2> QED
      BY <2>2, <2>3, <2>4, <1>2 DEF Follows, InStep
  <1>7. CASE o.scope # s
    <2>1. c \notin PendingOn(s)
      BY <1>3, <1>7 DEF PendingOn
    <2>2. PendingOn(s)' = PendingOn(s)
      BY <2>1, <1>4 DEF PendingOn
    <2>3. mem'[s] = mem[s]
      BY <1>1, <1>3, <1>7 DEF VectorTypeOK
    <2>4. \A d \in PendingOn(s) : pending'[d] = pending[d]
      BY <2>1, <1>4 DEF PendingOn
    <2> QED
      BY <2>2, <2>3, <2>4, <1>2 DEF Follows, InStep
  <1> QED
    BY <1>6, <1>7

\* The rebuild puts every entry in step.
LEMMA RebuildFollows ==
    ASSUME VInv, Separate, rebuildVectorIndex, NEW s \in Scope
    PROVE  Follows(s)'
  <1>1. BucketsMatchRegistry
    BY DEF VInv
  <1>2. /\ mem' = [t \in Scope |-> Rebuilt(t)] /\ UNCHANGED <<reg, data, pending>>
        /\ load = "no"
    BY <1>1 DEF rebuildVectorIndex, BucketsMatchRegistry
  <1>3. PendingOn(s)' = {}
    BY <1>2 DEF VInv, LoadedFirst, PendingOn
  <1>4. mem'[s] = Rebuilt(s)
    BY <1>2
  <1>5. CASE reg[s] = NoMeta \/ data[BucketOf(s)] = EmptyGraph
    <2>1. Rebuilt(s) = NoScope /\ data[BucketOf(s)] = EmptyGraph
      BY <1>1, <1>5 DEF Rebuilt, BucketsMatchRegistry
    <2> QED
      BY <2>1, <1>2, <1>3, <1>4 DEF Follows, InStep, Live
  <1>6. CASE reg[s] # NoMeta /\ data[BucketOf(s)] # EmptyGraph
    <2>1. Rebuilt(s) = [dim |-> reg[s].dim, metric |-> reg[s].metric,
                        graph |-> data[BucketOf(s)], tombstones |-> {}]
      BY <1>6 DEF Rebuilt
    <2>2. reg[s] \in Meta /\ data[BucketOf(s)] \in Graph
      BY <1>6, ScopeAssumption DEF VInv, VectorTypeOK
    <2>3. Rebuilt(s) \in ScopeState
      BY <2>1, <2>2 DEF ScopeState, Meta
    <2>4. Live(Rebuilt(s)) = [i \in VecID |-> data[BucketOf(s)][i]]
      BY <2>1, <2>3, NoScopeAssumption DEF Live
    <2>5. Live(Rebuilt(s)) = data[BucketOf(s)]
      BY <2>2, <2>4 DEF Graph
    <2>6. reg[s] = [dim |-> Rebuilt(s).dim, metric |-> Rebuilt(s).metric]
      BY <2>1, <2>2 DEF Meta
    <2> QED
      BY <2>5, <2>6, <1>2, <1>3, <1>4 DEF Follows, InStep
  <1> QED
    BY <1>5, <1>6

\* Every step keeps the entry of a scope in step with its bucket, unless it
\* makes two calls on the scope overlap.
THEOREM IndexStaysInStep == Spec => IndexFollows
  <1>1. ASSUME VInv, [Next]_vars, Separate, NEW s \in Scope, Follows(s), ~Overlap(s)'
        PROVE  Follows(s)'
    <2>1. CASE rebuildVectorIndex
      BY <1>1, <2>1, RebuildFollows
    <2>2. CASE \E c \in Client, t \in Scope, id \in VecID, vec \in Vector, metric \in Metric :
                  VectorInsert(c, t, id, vec, metric)
      BY <1>1, <2>2, InsertFollows
    <2>3. CASE \E c \in Client, t \in Scope, id \in VecID : VectorDelete(c, t, id)
      BY <1>1, <2>3, DeleteFollows
    <2>4. CASE \E c \in Client, t \in Scope : VectorDropScope(c, t)
      BY <1>1, <2>4, DropFollows
    <2>5. CASE \E c \in Client : Mirror(c)
      BY <1>1, <2>5, MirrorFollows
    <2>6. CASE Crash
      BY <2>6 DEF Crash, Follows
    <2>7. CASE UNCHANGED vars
      BY <1>1, <2>7 DEF vars, Follows, InStep, PendingOn
    <2> QED
      BY <1>1, <2>1, <2>2, <2>3, <2>4, <2>5, <2>6, <2>7, WireMetrics DEF Next
  <1>2. VInv /\ [Next]_vars =>
          [Separate => \A s \in Scope : Follows(s) /\ ~Overlap(s)' => Follows(s)']_vars
    BY <1>1
  <1> QED
    BY <1>2, VectorInvariance, PTL DEF Spec, IndexFollows
============================================================================
