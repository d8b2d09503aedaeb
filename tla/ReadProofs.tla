----------------------------- MODULE ReadProofs -----------------------------
(***************************************************************************)
(* The reads made of several transactions answer for what was stored while *)
(* they ran, for every corpus, call and number of commits in between.      *)
(***************************************************************************)
EXTENDS Reads, LookupProofs, EvalProofs

----------------------------------------------------------------------------
(* What the log of an item holds.                                          *)

\* DocOrder lists the documents, so they are finitely many.
LEMMA DocsFinite == IsFiniteSet(DocID)
  <1> DEFINE N == Len(DocOrder)
             f == [i \in 1 .. N |-> DocOrder[i]]
  <1>1. N \in Nat /\ {DocOrder[i] : i \in 1 .. N} = DocID
    BY DocOrderAssumption
  <1>2. IsFiniteSet(1 .. N)
    BY <1>1, FS_Interval
  <1>3. f \in [1 .. N -> DocID] /\ \A d \in DocID : \E i \in 1 .. N : f[i] = d
    BY <1>1
  <1> HIDE DEF f
  <1>4. f \in Surjection(1 .. N, DocID)
    BY <1>3, Fun_IsSurj
  <1> QED
    BY <1>2, <1>4, FS_Surjection

\* A record of the log is one of a stored document, and a document has one.
LEMMA RecordsOK ==
    ASSUME NEW b, BucketsOK(b), NEW i, NEW types
    PROVE  /\ IsFiniteSet(Records(b, i, types))
           /\ \A e \in Records(b, i, types) : e.at \in Int /\ e \in TemporalEntry
           /\ \A e, g \in Records(b, i, types) : e.doc = g.doc => e = g
  <1> DEFINE R == Records(b, i, types)
  <1>1. CASE i \notin Item
    BY <1>1, FS_EmptySet DEF Records
  <1>2. CASE i \in Item
    <2>1. R \subseteq b.temp[i] /\ b.temp[i] \subseteq TemporalEntry
      BY <1>2, PartTypes DEF Records, temporalRead, BucketsOK, TemporalType
    <2>2. \A e \in R : e \in TemporalEntry /\ e.doc \in DocID /\ e.at \in Int
      BY <2>1, TimesAreIntegers DEF TemporalEntry
    <2>3. ASSUME NEW e \in R
          PROVE  [item |-> i, type |-> e.type, at |-> e.at] \in temporalFields(b.docs[e.doc])
      BY <1>2, <2>1, <2>2 DEF BucketsOK, TemporalExact
    <2>4. ASSUME NEW e \in R, NEW g \in R, e.doc = g.doc PROVE e = g
      <3>1. b.docs[e.doc] \in Stored
        BY <2>2, PartTypes DEF BucketsOK
      <3>2. [item |-> i, type |-> e.type, at |-> e.at] = [item |-> i, type |-> g.type, at |-> g.at]
        BY <2>3, <2>4, <3>1, FieldsUnique
      <3>3. e.type = g.type /\ e.at = g.at
        BY <3>2
      <3> QED
        BY <2>2, <2>4, <3>3 DEF TemporalEntry
    <2>5. IsFiniteSet(R)
      <3> DEFINE f == [e \in R |-> e.doc]
      <3>1. f \in [R -> DocID] /\ \A e, g \in R : f[e] = f[g] => e = g
        BY <2>2, <2>4
      <3> HIDE DEF f, R
      <3>2. f \in Injection(R, DocID)
        BY <3>1, Fun_IsInj
      <3> QED
        BY <3>2, DocsFinite, FS_Injection
    <2> QED
      BY <2>2, <2>4, <2>5
  <1> QED
    BY <1>1, <1>2

\* The logs a query can load for an item.
LEMMA LogsOK ==
    ASSUME NEW b, BucketsOK(b), NEW i, NEW types
    PROVE  /\ SortedLogs(Records(b, i, types)) # {}
           /\ \A q \in SortedLogs(Records(b, i, types)) :
                 /\ IsLog(q) /\ q \in Seq(Records(b, i, types))
                 /\ {q[k] : k \in 1 .. Len(q)} = Records(b, i, types)
                 /\ \A k, m \in 1 .. Len(q) : k < m => q[k].doc # q[m].doc /\ q[k].at <= q[m].at
  <1> DEFINE R == Records(b, i, types)
  <1>1. IsFiniteSet(R) /\ (\A e \in R : e.at \in Int) /\ \A e, g \in R : e.doc = g.doc => e = g
    BY RecordsOK
  <1> HIDE DEF R
  <1>2. SortedLogs(R) # {}
    BY <1>1, SortedLogsExist
  <1>3. ASSUME NEW q \in SortedLogs(R)
        PROVE  /\ IsLog(q) /\ q \in Seq(R)
               /\ {q[k] : k \in 1 .. Len(q)} = R
               /\ \A k, m \in 1 .. Len(q) : k < m => q[k].doc # q[m].doc /\ q[k].at <= q[m].at
    <2>1. /\ IsLog(q) /\ q \in Seq(R)
          /\ \A k, m \in 1 .. Len(q) : k < m => q[k] # q[m] /\ q[k].at <= q[m].at
          /\ {q[k] : k \in 1 .. Len(q)} = R
      BY <1>1, SortedIsLog
    <2>2. \A k \in 1 .. Len(q) : q[k] \in R
      BY <2>1
    <2> QED
      BY <1>1, <2>1, <2>2
  <1> QED
    BY <1>2, <1>3 DEF R

\* The records of an item are those of the stored documents about it.
LEMMA RecordsAreStored ==
    ASSUME NEW b, BucketsOK(b), NEW i, NEW types
    PROVE  Records(b, i, types) =
              UNION {{[at |-> r.at, type |-> r.type, doc |-> d] :
                        r \in {q \in temporalFields(b.docs[d]) :
                                 q.item = i /\ (types = {} \/ q.type \in types)}} : d \in DocID}
  <1> DEFINE Kept(d) == {q \in temporalFields(b.docs[d]) : q.item = i /\ (types = {} \/ q.type \in types)}
             U == UNION {{[at |-> r.at, type |-> r.type, doc |-> d] : r \in Kept(d)} : d \in DocID}
  <1>1. \A c \in Stored : \A f \in temporalFields(c) :
           /\ f = [item |-> f.item, type |-> f.type, at |-> f.at]
           /\ f.item \in Item /\ f.type \in RecordType /\ f.at \in At
    <2>1. \A c \in Content : \A f \in ParseTemporal[c] : f = [item |-> f.item, type |-> f.type, at |-> f.at]
      BY DEF ParseTemporal
    <2> QED
      BY <2>1 DEF temporalFields, Item, RecordType, At, TemporalFields
  <1>2. b.docs \in [DocID -> Stored]
    BY PartTypes DEF BucketsOK
  <1>3. ASSUME NEW e \in Records(b, i, types) PROVE e \in U
    <2>1. i \in Item /\ e \in b.temp[i] /\ (types = {} \/ e.type \in types)
      BY DEF Records, temporalRead
    <2>2. e \in TemporalEntry
      BY RecordsOK
    <2> DEFINE f == [item |-> i, type |-> e.type, at |-> e.at]
    <2>3. f \in temporalFields(b.docs[e.doc]) /\ e.doc \in DocID
      BY <2>1, <2>2 DEF BucketsOK, TemporalExact, TemporalEntry
    <2>4. f \in Kept(e.doc)
      BY <2>1, <2>3
    <2>5. e = [at |-> f.at, type |-> f.type, doc |-> e.doc]
      BY <2>2 DEF TemporalEntry
    <2> QED
      BY <2>3, <2>4, <2>5
  <1>4. ASSUME NEW e \in U PROVE e \in Records(b, i, types)
    <2>1. PICK d \in DocID : \E r \in Kept(d) : e = [at |-> r.at, type |-> r.type, doc |-> d]
      OBVIOUS
    <2>0. PICK r \in Kept(d) : e = [at |-> r.at, type |-> r.type, doc |-> d]
      BY <2>1
    <2>2. /\ r \in temporalFields(b.docs[d]) /\ r.item = i /\ (types = {} \/ r.type \in types)
          /\ b.docs[d] \in Stored
      BY <1>2
    <2>3. /\ r = [item |-> i, type |-> r.type, at |-> r.at]
          /\ i \in Item /\ r.type \in RecordType /\ r.at \in At
      BY <1>1, <2>2
    <2>4. e \in TemporalEntry /\ e.doc = d /\ e.type = r.type /\ e.at = r.at
      BY <2>0, <2>3 DEF TemporalEntry
    <2>5. e \in b.temp[i]
      BY <2>2, <2>3, <2>4 DEF BucketsOK, TemporalExact
    <2> QED
      BY <2>2, <2>3, <2>4, <2>5 DEF Records, temporalRead
  <1> QED
    BY <1>3, <1>4

----------------------------------------------------------------------------
(* The reader.                                                             *)

\* The parameters of a call that is not a Query.
TimelineTyped(w) ==
    /\ w.call = "SequenceJoin" =>
          w.window \in Int /\ w.steps \in Seq({w.steps[i] : i \in DOMAIN w.steps})
    /\ w.call = "ClusterQuery" => w.window \in Int /\ w.minSize \in Int

\* Where the reader is.
ReadShape ==
    /\ job \in {"idle", "gather", "fetch", "items"}
    /\ status # "" => job = "idle"
    /\ job \in {"gather", "fetch"} => ask.call = "Query"
    /\ job = "items" => ask.call = "SequenceJoin"
    /\ job = "idle" /\ status = "" =>
          rows = <<>> /\ cands = <<>> /\ items = {} /\ found = {} /\ always = {} /\ ever = {}
    /\ TimelineTyped(ask)

\* The history is about the documents as they are.
History ==
    job # "idle" => always \subseteq Surely(db, ask) /\ Possibly(db, ask) \subseteq ever

Reported == {f.item : f \in SequenceMatches}

Walked(f) == Finds(f.log, ask.steps, ask.window, f.match)

\* SequenceJoin, between two items.
JoinInv ==
    ask.call = "SequenceJoin" /\ status \in {"", "OK"} =>
        /\ \A f \in found : Walked(f)
        /\ always \subseteq items \cup Reported
        /\ Reported \subseteq ever
        /\ status = "OK" => items = {}
        /\ items \subseteq IF ask.items # {} THEN ask.items ELSE Item

RInv ==
    /\ LInv /\ ReadShape /\ History
    /\ JoinInv /\ ClustersFound /\ RecordsListed

\* The parameters of the calls are those of their kinds.
LEMMA CallTyped ==
    ASSUME NEW w \in Calls
    PROVE  /\ TimelineTyped(w)
           /\ w.call \in {"Query", "SequenceJoin", "ClusterQuery", "WindowQuery"}
           /\ w.call = "Query" =>
                 DOMAIN w = {"call", "entity", "where", "aggs", "groupBy"} /\ IsQuery(w.where)
  <1>1. CASE w.call = "Query"
    BY <1>1, CallsAssumption DEF TimelineTyped
  <1>2. CASE w.call = "SequenceJoin"
    BY <1>2, CallsAssumption DEF TimelineTyped
  <1>3. CASE w.call = "ClusterQuery"
    BY <1>3, CallsAssumption DEF TimelineTyped
  <1>4. CASE w.call = "WindowQuery"
    BY <1>4, CallsAssumption DEF TimelineTyped
  <1> QED
    BY <1>1, <1>2, <1>3, <1>4, CallsAssumption

\* What StartQuery asks is the call decoded.
LEMMA QueryAsked ==
    ASSUME NEW w \in Calls, StartQuery(w)
    PROVE  ask' = [w EXCEPT !.where = decodeQueryClauses(w.where)] /\ ask'.call = "Query"
  BY CallTyped DEF StartQuery

\* A request that is not refused is well formed.
LEMMA RequestTyped ==
    ASSUME NEW r \in Request, LookupError(r) = ""
    PROVE  WellFormed(r)
  <1>1. ~BadBound(r)
    BY DEF LookupError
  <1> QED
    BY <1>1, ReadsAssumption DEF BadBound, WellFormed

\* So is the lookup of an anchor.
LEMMA AnchorTyped == \A p : WellFormed(AnchorLookup(p))
  BY DEF AnchorLookup, WellFormed

\* An error is not an answer.
LEMMA Errors ==
    /\ mapError("orphan") \notin {"", "OK"}
    /\ mapError("context canceled") \notin {"", "OK"}
  BY DEF mapError

\* The lookups inside a read keep their invariant.
LEMMA ReadLInv ==
    ASSUME LInv, ReadNext
    PROVE  LInv'
  <1>1. CASE WriteBetween
    BY <1>1, WriteLInv DEF WriteBetween
  <1>2. CASE LookupView
    BY <1>2, View1LInv, View2LInv DEF LookupView
  <1>3. CASE Respond
    BY <1>3, SameLInv DEF Respond
  <1>4. ASSUME NEW r \in Request, Lookup(r) PROVE LInv'
    BY <1>4, RequestTyped, AskLInv DEF Lookup
  <1>5. ASSUME NEW code, Fail(code) PROVE LInv'
    BY <1>5, SameLInv DEF Fail
  <1>6. ASSUME NEW w \in Calls, StartQuery(w) PROVE LInv'
    <2>1. PICK p : Ask(AnchorLookup(p))
      BY <1>6 DEF StartQuery
    <2> QED
      BY <2>1, AnchorTyped, AskLInv
  <1>7. ASSUME NEW w \in Calls, StartSequence(w) \/ ClusterQuery(w) \/ WindowQuery(w) PROVE LInv'
    BY <1>7, SameLInv DEF StartSequence, ClusterQuery, WindowQuery
  <1>8. CASE Gather
    <2>1. UNCHANGED lookupVars \/ \E p : Ask(AnchorLookup(p))
      BY <1>8 DEF Gather
    <2> QED
      BY <2>1, AnchorTyped, AskLInv, SameLInv
  <1>9. CASE Fetch
    BY <1>9, SameLInv DEF Fetch
  <1>10. ASSUME NEW i \in items, WalkItem(i) PROVE LInv'
    BY <1>10, SameLInv DEF WalkItem
  <1>11. CASE CancelRead
    BY <1>11, SameLInv DEF CancelRead
  <1> QED
    BY <1>1, <1>2, <1>3, <1>4, <1>5, <1>6, <1>7, <1>8, <1>9, <1>10, <1>11 DEF ReadNext

\* The reader goes from one place to the next.
LEMMA ReadShapeStep ==
    ASSUME ReadShape, ReadNext
    PROVE  ReadShape'
  <1>1. CASE WriteBetween
    BY <1>1 DEF WriteBetween, ReadShape, call
  <1>2. CASE LookupView
    BY <1>2 DEF LookupView, ReadShape, call
  <1>3. CASE Respond
    BY <1>3 DEF Respond, ReadShape, mapError
  <1>4. ASSUME NEW r \in Request, Lookup(r) PROVE ReadShape'
    BY <1>4 DEF Lookup, ReadShape, call
  <1>5. ASSUME NEW code, Fail(code) PROVE ReadShape'
    BY <1>5 DEF Fail, Idle, ReadShape
  <1>6. ASSUME NEW w \in Calls, StartQuery(w) PROVE ReadShape'
    <2>1. ask'.call = "Query" /\ job' = "gather" /\ status' = ""
      BY <1>6, QueryAsked DEF StartQuery, Idle
    <2> QED
      BY <2>1 DEF ReadShape, TimelineTyped
  <1>7. ASSUME NEW w \in Calls, StartSequence(w) PROVE ReadShape'
    <2>1. ask' = w /\ w.call = "SequenceJoin" /\ TimelineTyped(w)
      BY <1>7, CallTyped DEF StartSequence
    <2>2. \/ job' = "items" /\ status' = ""
          \/ job' = "idle" /\ status' = "OK"
      BY <1>7 DEF StartSequence, Idle
    <2> QED
      BY <2>1, <2>2 DEF ReadShape, TimelineTyped
  <1>8. ASSUME NEW w \in Calls, ClusterQuery(w) \/ WindowQuery(w) PROVE ReadShape'
    <2>1. ask' = w /\ TimelineTyped(w) /\ status' = "OK" /\ job' = "idle"
      BY <1>8, CallTyped DEF ClusterQuery, WindowQuery, Idle
    <2> QED
      BY <2>1 DEF ReadShape, TimelineTyped
  <1>9. CASE Gather
    <2>1. /\ job = "gather" /\ status = "" /\ ask' = ask
          /\ \/ job' = "idle" /\ status' # ""
             \/ job' \in {"gather", "fetch"} /\ status' = status
      BY <1>9, Errors DEF Gather, ReadShape
    <2> QED
      BY <2>1 DEF ReadShape, TimelineTyped
  <1>10. CASE Fetch
    <2>1. /\ job = "fetch" /\ status = "" /\ ask' = ask
          /\ \/ job' = "idle" /\ status' = "OK"
             \/ job' = "fetch" /\ status' = ""
      BY <1>10 DEF Fetch, ReadShape
    <2> QED
      BY <2>1 DEF ReadShape, TimelineTyped
  <1>11. ASSUME NEW i \in items, WalkItem(i) PROVE ReadShape'
    <2>1. /\ job = "items" /\ status = "" /\ ask' = ask
          /\ \/ job' = "idle" /\ status' = "OK"
             \/ job' = "items" /\ status' = ""
      BY <1>11 DEF WalkItem, ReadShape
    <2> QED
      BY <2>1 DEF ReadShape, TimelineTyped
  <1>12. CASE CancelRead
    BY <1>12, Errors DEF CancelRead, ReadShape, TimelineTyped
  <1> QED
    BY <1>1, <1>2, <1>3, <1>4, <1>5, <1>6, <1>7, <1>8, <1>9, <1>10, <1>11, <1>12 DEF ReadNext

\* The history follows the commits.
LEMMA HistoryStep ==
    ASSUME ReadShape, History, ReadNext
    PROVE  History'
  <1>1. CASE WriteBetween
    BY <1>1 DEF WriteBetween, History, call
  <1>2. ASSUME UNCHANGED <<db, ask, job, always, ever>> PROVE History'
    <2>1. Surely(db, ask)' = Surely(db, ask) /\ Possibly(db, ask)' = Possibly(db, ask)
      BY <1>2
    <2> QED
      BY <1>2, <2>1 DEF History
  <1>3. ASSUME job' = "idle" PROVE History'
    BY <1>3 DEF History
  <1>4. ASSUME NEW w \in Calls, StartQuery(w) PROVE History'
    <2>1. always' = Surely(db, ask') /\ ever' = always' /\ db' = db /\ ask'.call = "Query"
      BY <1>4, QueryAsked DEF StartQuery, Ask
    <2>2. Possibly(db, ask') = Surely(db, ask')
      BY <2>1 DEF Possibly
    <2> QED
      BY <2>1, <2>2 DEF History
  <1>5. ASSUME NEW w \in Calls, StartSequence(w) PROVE History'
    <2>1. always' = Surely(db, w) /\ ever' = Possibly(db, w) /\ db' = db /\ ask' = w
      BY <1>5 DEF StartSequence, lookupVars
    <2> QED
      BY <2>1 DEF History
  <1>6. ASSUME UNCHANGED <<db, ask, always, ever>>, job # "idle" PROVE History'
    <2>1. Surely(db, ask)' = Surely(db, ask) /\ Possibly(db, ask)' = Possibly(db, ask)
      BY <1>6
    <2> QED
      BY <1>6, <2>1 DEF History
  <1>7. CASE LookupView
    BY <1>2, <1>7 DEF LookupView, View1, View2, call
  <1>8. CASE Respond
    BY <1>3, <1>8 DEF Respond
  <1>9. ASSUME NEW r \in Request, Lookup(r) PROVE History'
    BY <1>3, <1>9 DEF Lookup, Idle, call
  <1>10. ASSUME NEW code, Fail(code) PROVE History'
    BY <1>3, <1>10 DEF Fail, Idle
  <1>11. ASSUME NEW w \in Calls, ClusterQuery(w) \/ WindowQuery(w) PROVE History'
    BY <1>3, <1>11 DEF ClusterQuery, WindowQuery, Idle
  <1>12. CASE Gather
    <2>1. UNCHANGED <<db, ask, always, ever>> /\ job = "gather"
      BY <1>12 DEF Gather, Ask, lookupVars
    <2> QED
      BY <1>6, <2>1
  <1>13. CASE Fetch
    BY <1>6, <1>13 DEF Fetch, lookupVars
  <1>14. ASSUME NEW i \in items, WalkItem(i) PROVE History'
    BY <1>6, <1>14 DEF WalkItem, lookupVars
  <1>15. CASE CancelRead
    BY <1>3, <1>15 DEF CancelRead
  <1> QED
    BY <1>1, <1>4, <1>5, <1>7, <1>8, <1>9, <1>10, <1>11, <1>12, <1>13, <1>14, <1>15 DEF ReadNext

\* SequenceJoin begins: an item that has the sequence is among those to visit.
LEMMA StartJoin ==
    ASSUME LInv, ReadShape, NEW w \in Calls, StartSequence(w)
    PROVE  JoinInv'
  <1>1. /\ ask' = w /\ found' = {} /\ always' = Surely(db, w)
        /\ items' = IF w.steps = <<>> THEN {} ELSE Visited(db, w)
        /\ w.call = "SequenceJoin" /\ status' \in {"", "OK"}
        /\ status' = "OK" => items' = {}
    BY DEF StartSequence, Idle, ReadShape
  <1>2. Surely(db, w) \subseteq items'
    <2>1. Surely(db, w) = {i \in Visited(db, w) :
             \A q \in SortedLogs(Log(db, i)) : HasSequence(q, w.steps, w.window)}
      BY <1>1 DEF Surely
    <2>2. CASE w.steps # <<>>
      BY <1>1, <2>1, <2>2
    <2>3. CASE w.steps = <<>>
      <3>1. \A i : SortedLogs(Log(db, i)) # {}
        BY LogsOK DEF Log, LInv
      <3>2. \A q : ~HasSequence(q, w.steps, w.window)
        BY <2>3 DEF HasSequence
      <3> QED
        BY <2>1, <3>1, <3>2
    <2> QED
      BY <2>2, <2>3
  <1>3. Reported' = {} /\ \A f \in found' : Walked(f)'
    BY <1>1 DEF Reported, SequenceMatches
  <1>4. items' \subseteq IF w.items # {} THEN w.items ELSE Item
    BY <1>1 DEF Visited
  <1> QED
    BY <1>1, <1>2, <1>3, <1>4 DEF JoinInv

\* An item is visited: it is reported when it has the sequence throughout,
\* and only when it has it now.
LEMMA WalkJoin ==
    ASSUME LInv, ReadShape, History, JoinInv, NEW i \in items, WalkItem(i)
    PROVE  JoinInv'
  <1>1. /\ job = "items" /\ status = "" /\ ask.call = "SequenceJoin" /\ TimelineTyped(ask)
        /\ UNCHANGED <<db, ask, always, ever>> /\ items' = items \ {i}
        /\ status' = "OK" => items' = {}
        /\ status' \in {"", "OK"}
    BY DEF WalkItem, ReadShape, lookupVars
  <1>2. /\ \A f \in found : Walked(f)
        /\ always \subseteq items \cup Reported
        /\ Reported \subseteq ever
        /\ items \subseteq IF ask.items # {} THEN ask.items ELSE Item
    BY <1>1 DEF JoinInv
  <1>3. PICK log \in SortedLogs(Log(db, i)) :
           found' = found \cup {[item |-> i, log |-> log,
                                 match |-> sequenceWalk(log, ask.steps, ask.window)]}
    BY DEF WalkItem
  <1> DEFINE f == [item |-> i, log |-> log, match |-> sequenceWalk(log, ask.steps, ask.window)]
  <1>4. IsLog(log) /\ log \in Seq(Log(db, i))
    BY LogsOK DEF Log, LInv
  <1>5. Walked(f)
    <2>1. ask.window \in Int /\ ask.steps \in Seq({ask.steps[k] : k \in DOMAIN ask.steps})
      BY <1>1 DEF TimelineTyped
    <2>2. Finds(log, ask.steps, ask.window, sequenceWalk(log, ask.steps, ask.window))
      BY <1>4, <2>1, WalkFinds
    <2>3. f.log = log /\ f.match = sequenceWalk(log, ask.steps, ask.window)
      OBVIOUS
    <2> HIDE DEF f
    <2> QED
      BY <2>2, <2>3, Zenon DEF Walked
  <1>6. f.item = i /\ f.log = log /\ found' = found \cup {f}
    BY <1>3
  <1> HIDE DEF f
  <1>7. \A g \in found' : Walked(g)'
    <2>1. \A g : Walked(g)' <=> Walked(g)
      BY <1>1 DEF Walked
    <2> QED
      BY <1>2, <1>5, <1>6, <2>1
  <1>8. Reported' = Reported \cup (IF f.match # <<>> THEN {i} ELSE {})
    BY <1>6 DEF Reported, SequenceMatches
  <1>9. i \in always => f.match # <<>>
    <2>1. always \subseteq Surely(db, ask)
      BY <1>1 DEF History
    <2>2. i \in Surely(db, ask) => HasSequence(log, ask.steps, ask.window)
      BY <1>1 DEF Surely
    <2> QED
      BY <1>5, <1>6, <2>1, <2>2 DEF Walked, Finds
  <1>10. f.match # <<>> => i \in ever
    <2> SUFFICES ASSUME f.match # <<>> PROVE i \in ever
      OBVIOUS
    <2>1. HasSequence(log, ask.steps, ask.window)
      BY <1>5, <1>6 DEF Walked, Finds
    <2>2. Log(db, i) # {}
      <3>1. PICK p \in [1 .. Len(ask.steps) -> 1 .. Len(log)] : ask.steps # <<>>
        BY <2>1 DEF HasSequence
      <3>2. Len(ask.steps) \in Nat /\ Len(ask.steps) >= 1
        BY <1>1, <3>1, NonEmptySeq DEF TimelineTyped
      <3>3. p[1] \in 1 .. Len(log)
        BY <3>1, <3>2
      <3>4. log[p[1]] \in Log(db, i)
        BY <1>4, <3>3
      <3> QED
        BY <3>4
    <2>3. i \in Visited(db, ask)
      BY <1>2, <2>2 DEF Visited, Log, Records, temporalRead
    <2>4. i \in Possibly(db, ask)
      BY <1>1, <2>1, <2>3 DEF Possibly
    <2> QED
      BY <1>1, <2>4 DEF History
  <1>11. always' \subseteq items' \cup Reported' /\ Reported' \subseteq ever'
    BY <1>1, <1>2, <1>8, <1>9, <1>10
  <1> QED
    BY <1>1, <1>2, <1>7, <1>11 DEF JoinInv

\* Before a call begins the reader has nothing.
LEMMA IdleIsEmpty ==
    ASSUME ReadShape, Idle
    PROVE  rows = <<>> /\ cands = <<>> /\ items = {} /\ found = {} /\ always = {} /\ ever = {}
  BY DEF ReadShape, Idle

\* Every step keeps what SequenceJoin has found.
LEMMA JoinStep ==
    ASSUME LInv, ReadShape, History, JoinInv, ReadNext
    PROVE  JoinInv'
  <1>1. ASSUME UNCHANGED <<ask, items, found, status>>, always' \subseteq always, ever \subseteq ever'
        PROVE  JoinInv'
    <2>1. Reported' = Reported /\ \A f : Walked(f)' <=> Walked(f)
      BY <1>1 DEF Reported, SequenceMatches, Walked
    <2> QED
      BY <1>1, <2>1 DEF JoinInv
  <1>2. ASSUME ask'.call # "SequenceJoin" PROVE JoinInv'
    BY <1>2 DEF JoinInv
  <1>3. ASSUME UNCHANGED <<ask, items, found, always, ever>>, Idle PROVE JoinInv'
    <2>1. items' = {} /\ found' = {} /\ always' = {}
      BY <1>3, IdleIsEmpty
    <2>2. Reported' = {}
      BY <2>1 DEF Reported, SequenceMatches
    <2> QED
      BY <2>1, <2>2 DEF JoinInv
  <1>4. CASE WriteBetween
    BY <1>1, <1>4 DEF WriteBetween, call
  <1>5. CASE LookupView
    BY <1>1, <1>5 DEF LookupView, call
  <1>6. CASE Respond
    <2>1. UNCHANGED <<ask, items, found, always, ever>>
      BY <1>6 DEF Respond
    <2>2. items' = {} /\ found' = {} /\ always' = {}
      BY <1>6, <2>1 DEF Respond, ReadShape
    <2>3. Reported' = {}
      BY <2>2 DEF Reported, SequenceMatches
    <2> QED
      BY <2>2, <2>3 DEF JoinInv
  <1>7. ASSUME NEW r \in Request, Lookup(r) PROVE JoinInv'
    BY <1>1, <1>7 DEF Lookup, call
  <1>8. ASSUME NEW code, Fail(code) PROVE JoinInv'
    BY <1>3, <1>8 DEF Fail
  <1>9. ASSUME NEW w \in Calls, StartQuery(w) PROVE JoinInv'
    BY <1>2, <1>9, QueryAsked
  <1>10. ASSUME NEW w \in Calls, ClusterQuery(w) \/ WindowQuery(w) PROVE JoinInv'
    BY <1>2, <1>10 DEF ClusterQuery, WindowQuery
  <1>11. CASE Gather
    BY <1>2, <1>11 DEF Gather, ReadShape
  <1>12. CASE Fetch
    BY <1>2, <1>12 DEF Fetch, ReadShape
  <1>13. CASE CancelRead
    BY <1>13, Errors DEF CancelRead, JoinInv
  <1> QED
    BY <1>4, <1>5, <1>6, <1>7, <1>8, <1>9, <1>10, <1>11, <1>12, <1>13, StartJoin, WalkJoin DEF ReadNext

\* A step after which no new answer to call c stands leaves nothing to show
\* about it: the answer stood before, the call is another one, or nothing was
\* found.
LEMMA AnswerStep ==
    ASSUME ReadShape, ReadNext, NEW c \in {"ClusterQuery", "WindowQuery"}, Answered(c)',
           \A w \in Calls : ~(c = "ClusterQuery" /\ ClusterQuery(w)) /\ ~(c = "WindowQuery" /\ WindowQuery(w))
    PROVE  found' = {}
  <1>0. status' = "OK" /\ ask'.call = c /\ ask'.call # "Query" /\ ask'.call # "SequenceJoin"
    BY DEF Answered
  <1>1. ASSUME UNCHANGED <<ask, found>>, Idle PROVE found' = {}
    BY <1>1, IdleIsEmpty
  <1>2. ASSUME status = "", UNCHANGED status PROVE FALSE
    BY <1>0, <1>2
  <1>4. CASE WriteBetween
    BY <1>2, <1>4 DEF WriteBetween, Finished, call
  <1>5. CASE LookupView
    BY <1>2, <1>5 DEF LookupView, call
  <1>6. CASE Respond
    BY <1>6 DEF Respond, ReadShape
  <1>7. ASSUME NEW r \in Request, Lookup(r) PROVE found' = {}
    BY <1>2, <1>7 DEF Lookup, Idle, call
  <1>8. ASSUME NEW code, Fail(code) PROVE found' = {}
    BY <1>1, <1>8 DEF Fail
  <1>9. ASSUME NEW w \in Calls, StartQuery(w) PROVE found' = {}
    BY <1>0, <1>9, QueryAsked
  <1>10. ASSUME NEW w \in Calls, StartSequence(w) PROVE found' = {}
    BY <1>0, <1>10 DEF StartSequence
  <1>11. ASSUME NEW w \in Calls, ClusterQuery(w) \/ WindowQuery(w) PROVE found' = {}
    BY <1>0, <1>11 DEF ClusterQuery, WindowQuery
  <1>12. CASE Gather
    BY <1>0, <1>12 DEF Gather, ReadShape
  <1>13. CASE Fetch
    BY <1>0, <1>13 DEF Fetch, ReadShape
  <1>14. ASSUME NEW i \in items, WalkItem(i) PROVE found' = {}
    BY <1>0, <1>14 DEF WalkItem, ReadShape
  <1>15. CASE CancelRead
    BY <1>0, <1>15, Errors DEF CancelRead
  <1> QED
    BY <1>4, <1>5, <1>6, <1>7, <1>8, <1>9, <1>10, <1>11, <1>12, <1>13, <1>14, <1>15 DEF ReadNext

\* An answer of ClusterQuery is a clustering of the log it read.
LEMMA ClusterStep ==
    ASSUME LInv, ReadShape, ReadNext
    PROVE  ClustersFound'
  <1> SUFFICES ASSUME Answered("ClusterQuery")'
               PROVE  \A f \in found' :
                         IsClustering(f.log, ask'.window, AtLeastOne(ask'.minSize), f.match)
    BY DEF ClustersFound
  <1>1. ASSUME NEW w \in Calls, ClusterQuery(w)
        PROVE  \A f \in found' :
                  IsClustering(f.log, ask'.window, AtLeastOne(ask'.minSize), f.match)
    <2>1. ask' = w /\ w.window \in Int /\ w.minSize \in Int
      BY <1>1, CallTyped DEF ClusterQuery, TimelineTyped
    <2>2. PICK log \in SortedLogs(Records(db, w.item, w.types)) :
             found' = {[item |-> w.item, log |-> log, match |-> clusterScan(log, w.window, w.minSize)]}
      BY <1>1 DEF ClusterQuery
    <2>3. IsLog(log)
      BY LogsOK DEF LInv
    <2>4. IsClustering(log, w.window, AtLeastOne(w.minSize), clusterScan(log, w.window, w.minSize))
      BY <2>1, <2>3, ScanFinds
    <2> QED
      BY <2>1, <2>2, <2>4
  <1>2. CASE \E w \in Calls : ClusterQuery(w)
    BY <1>1, <1>2
  <1>3. CASE ~\E w \in Calls : ClusterQuery(w)
    BY <1>3, AnswerStep
  <1> QED
    BY <1>2, <1>3

\* An answer of WindowQuery is what is stored when it is given.
LEMMA RecordsStep ==
    ASSUME LInv, ReadShape, ReadNext
    PROVE  RecordsListed'
  <1> DEFINE Listed(b, w, m) ==
                /\ {m[i] : i \in 1 .. Len(m)} =
                      UNION {{[at |-> r.at, type |-> r.type, doc |-> d] :
                                r \in {q \in temporalFields(b.docs[d]) :
                                         /\ q.item = w.item
                                         /\ w.types = {} \/ q.type \in w.types}} : d \in DocID}
                /\ \A i, j \in 1 .. Len(m) :
                      i < j => m[i].doc # m[j].doc /\ m[i].at <= m[j].at
  <1> SUFFICES ASSUME Answered("WindowQuery")' PROVE \A f \in found' : Listed(db', ask', f.match)
    BY DEF RecordsListed
  <1>1. ASSUME NEW w \in Calls, WindowQuery(w)
        PROVE  \A f \in found' : Listed(db', ask', f.match)
    <2>1. ask' = w /\ db' = db
      BY <1>1 DEF WindowQuery, lookupVars
    <2>2. PICK log \in SortedLogs(Records(db, w.item, w.types)) :
             found' = {[item |-> w.item, log |-> log, match |-> log]}
      BY <1>1 DEF WindowQuery
    <2>3. /\ {log[k] : k \in 1 .. Len(log)} = Records(db, w.item, w.types)
          /\ \A k, m \in 1 .. Len(log) : k < m => log[k].doc # log[m].doc /\ log[k].at <= log[m].at
      BY LogsOK DEF LInv
    <2>4. Listed(db, w, log)
      <3>1. BucketsOK(db)
        BY DEF LInv
      <3> QED
        BY <2>3, <3>1, RecordsAreStored
    <2> HIDE DEF Listed
    <2> QED
      BY <2>1, <2>2, <2>4
  <1>2. CASE \E w \in Calls : WindowQuery(w)
    BY <1>1, <1>2
  <1> HIDE DEF Listed
  <1>3. CASE ~\E w \in Calls : WindowQuery(w)
    BY <1>3, AnswerStep
  <1> QED
    BY <1>2, <1>3

\* The invariant holds at first, and through a step that changes nothing.
LEMMA InitRInv == ReadInit => RInv
  <1> SUFFICES ASSUME ReadInit PROVE RInv
    OBVIOUS
  <1>1. LInv
    BY InitLInv DEF ReadInit
  <1>3. TimelineTyped(ask)
    BY DEF ReadInit, NoCall, TimelineTyped
  <1>4. ReadShape /\ History
    BY <1>3 DEF ReadInit, ReadShape, History
  <1>5. Reported = {}
    BY DEF ReadInit, Reported, SequenceMatches
  <1>6. JoinInv
    BY <1>5 DEF ReadInit, JoinInv
  <1>7. ClustersFound /\ RecordsListed
    BY DEF ReadInit, ClustersFound, RecordsListed, Answered
  <1> QED
    BY <1>1, <1>4, <1>6, <1>7 DEF RInv

LEMMA StutterRInv ==
    ASSUME RInv, UNCHANGED readVars
    PROVE  RInv'
  <1>0. UNCHANGED <<lookupVars, db, job, ask, todo, cands, rows, items, found, status, always, ever>>
    BY DEF readVars, call, lookupVars
  <1>1. LInv'
    BY <1>0, SameLInv DEF RInv
  <1>2. ReadShape' /\ History'
    BY <1>0 DEF RInv, ReadShape, History
  <1>3. JoinInv'
    <2>1. Reported' = Reported /\ \A f : Walked(f)' <=> Walked(f)
      BY <1>0 DEF Reported, SequenceMatches, Walked
    <2> QED
      BY <1>0, <2>1 DEF RInv, JoinInv
  <1>4. ClustersFound'
    BY <1>0 DEF RInv, ClustersFound, Answered
  <1>5. RecordsListed'
    BY <1>0 DEF RInv, RecordsListed, Answered
  <1> QED
    BY <1>1, <1>2, <1>3, <1>4, <1>5 DEF RInv

\* The inductive invariant of the reader.
LEMMA ReadInvariance == ReadSpec => []RInv
  <1>1. RInv /\ [ReadNext]_readVars => RInv'
    <2>1. RInv /\ ReadNext => RInv'
      BY ReadLInv, ReadShapeStep, HistoryStep, JoinStep, ClusterStep, RecordsStep DEF RInv
    <2> QED
      BY <2>1, StutterRInv
  <1> QED
    BY <1>1, InitRInv, PTL DEF ReadSpec

----------------------------------------------------------------------------
(* Lists of documents.                                                     *)

Elems(s) == {s[i] : i \in 1 .. Len(s)}

\* The loop that keeps the elements in T.
IsFilter(K, s, T, D) ==
    /\ K[0] = <<>>
    /\ \A i \in 1 .. Len(s) : K[i] = IF s[i] \in T THEN Append(K[i - 1], s[i]) ELSE K[i - 1]
    /\ \A i \in 0 .. Len(s) : K[i] \in Seq(T \cap D)

\* Filter runs element by element.
LEMMA FilterTable ==
    ASSUME NEW D, NEW s \in Seq(D), NEW T
    PROVE  IsFilter(Filter(s, T), s, T, D)
  <1> DEFINE n == Len(s)
             S == Seq(T \cap D)
             To(x, i) == IF s[i] \in T THEN Append(x, s[i]) ELSE x
             step == [y \in S \X (1 .. n) |-> To(y[1], y[2])]
             Good(f) == f = [i \in 0 .. n |-> IF i = 0 THEN <<>> ELSE To(f[i - 1], i)]
             K == Filter(s, T)
  <1>0. n \in Nat /\ <<>> \in S /\ \A i \in 1 .. n : s[i] \in D
    OBVIOUS
  <1>1. ASSUME NEW x \in S, NEW i \in 1 .. n PROVE To(x, i) \in S
    <2>1. CASE s[i] \in T
      BY <1>0, <2>1, AppendType
    <2>2. CASE s[i] \notin T
      BY <2>2
    <2> QED
      BY <2>1, <2>2
  <1> HIDE DEF To, S
  <1>2. step \in [S \X (1 .. n) -> S]
    BY <1>1
  <1>3. \E g : Solves(g, S, <<>>, n, step)
    <2> HIDE DEF step, n
    <2> QED
      BY <1>0, <1>2, Recursion, Zenon
  <1>4. PICK g : Solves(g, S, <<>>, n, step)
    BY <1>3
  <1>5. g \in [0 .. n -> S] /\ g[0] = <<>>
    BY <1>4 DEF Solves
  <1>6. ASSUME NEW i \in 1 .. n PROVE g[i] = To(g[i - 1], i)
    <2>1. g[i] = step[<<g[i - 1], i>>]
      BY <1>4 DEF Solves
    <2>2. <<g[i - 1], i>> \in S \X (1 .. n)
      BY <1>0, <1>5
    <2> QED
      BY <2>1, <2>2
  <1>7. Good(g)
    <2>1. ASSUME NEW i \in 0 .. n PROVE g[i] = IF i = 0 THEN <<>> ELSE To(g[i - 1], i)
      BY <1>0, <1>5, <1>6
    <2> QED
      BY <1>5, <2>1
  <1>8. K = CHOOSE f : Good(f)
    BY DEF Filter, To
  <1> HIDE DEF Good, K, n
  <1>9. Good(K)
    BY <1>7, <1>8
  <1>10. K[0] = <<>> /\ \A i \in 1 .. n : K[i] = To(K[i - 1], i)
    BY <1>0, <1>9 DEF Good
  <1> DEFINE OK == {i \in 0 .. n : K[i] \in S}
  <1>11. 0 \in OK
    BY <1>0, <1>10
  <1>12. ASSUME NEW i \in 1 .. n, i - 1 \in OK PROVE i \in OK
    <2>1. K[i - 1] \in S /\ K[i] = To(K[i - 1], i)
      BY <1>10, <1>12
    <2>2. To(K[i - 1], i) \in S
      BY <1>1, <2>1
    <2> QED
      BY <1>0, <2>1, <2>2
  <1> HIDE DEF OK
  <1>13. 0 .. n \subseteq OK
    BY <1>0, <1>11, <1>12, UpTo
  <1> QED
    BY <1>10, <1>13 DEF OK, IsFilter, To, K, n, S

\* The place of a document in the order of the ids.
LEMMA Positions ==
    /\ \A d \in DocID : Position(d) \in 1 .. Len(DocOrder) /\ DocOrder[Position(d)] = d
    /\ \A i \in 1 .. Len(DocOrder) : Position(DocOrder[i]) = i
    /\ \A d, e \in DocID : Position(d) = Position(e) => d = e
  <1>1. ASSUME NEW d \in DocID PROVE Position(d) \in 1 .. Len(DocOrder) /\ DocOrder[Position(d)] = d
    <2>1. \E i \in 1 .. Len(DocOrder) : DocOrder[i] = d
      BY DocOrderAssumption
    <2> QED
      BY <2>1 DEF Position
  <1>2. ASSUME NEW i \in 1 .. Len(DocOrder) PROVE Position(DocOrder[i]) = i
    <2>1. DocOrder[i] \in DocID
      BY DocOrderAssumption
    <2> QED
      BY <1>1, <2>1, DocOrderAssumption
  <1> QED
    BY <1>1, <1>2

\* A list of documents in the order of their ids.
Sorted(s) ==
    /\ s \in Seq(DocID)
    /\ \A i, j \in 1 .. Len(s) : i < j => Before(s[i], s[j])

\* A document is in a sorted list once.
LEMMA SortedDistinct ==
    ASSUME NEW s, Sorted(s), NEW i \in 1 .. Len(s), NEW j \in 1 .. Len(s), s[i] = s[j]
    PROVE  i = j
  <1>1. s[i] \in DocID /\ Position(s[i]) \in Int
    BY Positions DEF Sorted
  <1>2. ~(i < j) /\ ~(j < i)
    BY <1>1 DEF Sorted, Before
  <1> QED
    BY <1>2

\* docIDSetToSorted lists the set in order.
LEMMA SortedList ==
    ASSUME NEW E \in SUBSET DocID
    PROVE  Sorted(docIDSetToSorted(E)) /\ Elems(docIDSetToSorted(E)) = E
  <1> DEFINE n == Len(DocOrder)
             K == Filter(DocOrder, E)
             Sub(i) == /\ \A a \in 1 .. Len(K[i]) : Position(K[i][a]) <= i
                       /\ \A a, b \in 1 .. Len(K[i]) : a < b => Before(K[i][a], K[i][b])
                       /\ \A j \in 1 .. i : DocOrder[j] \in E => \E a \in 1 .. Len(K[i]) : K[i][a] = DocOrder[j]
             OK == {i \in 0 .. n : Sub(i)}
  <1>0. n \in Nat /\ \A i \in 1 .. n : DocOrder[i] \in DocID
    BY DocOrderAssumption
  <1>1. IsFilter(K, DocOrder, E, DocID)
    BY FilterTable, DocOrderAssumption
  <1> HIDE DEF K
  <1>2. \A i \in 0 .. n : K[i] \in Seq(DocID) /\ K[i] \in Seq(E)
    <2>1. E \cap DocID = E
      OBVIOUS
    <2>2. \A i \in 0 .. n : K[i] \in Seq(E)
      BY <1>1, <2>1 DEF IsFilter
    <2> QED
      BY <2>2
  <1>3. K[0] = <<>> /\ \A i \in 1 .. n : K[i] = IF DocOrder[i] \in E THEN Append(K[i - 1], DocOrder[i]) ELSE K[i - 1]
    BY <1>1 DEF IsFilter
  <1>4. 0 \in OK
    BY <1>0, <1>3
  <1>5. ASSUME NEW i \in 1 .. n, i - 1 \in OK PROVE i \in OK
    <2> DEFINE o == K[i - 1]
               x == DocOrder[i]
    <2>0. i - 1 \in 0 .. n /\ o \in Seq(DocID) /\ x \in DocID /\ Position(x) = i /\ 1 .. i = (1 .. i - 1) \cup {i}
      BY <1>0, <1>2, Positions
    <2>1. /\ \A a \in 1 .. Len(o) : Position(o[a]) <= i - 1
          /\ \A a, b \in 1 .. Len(o) : a < b => Before(o[a], o[b])
          /\ \A j \in 1 .. i - 1 : DocOrder[j] \in E => \E a \in 1 .. Len(o) : o[a] = DocOrder[j]
      BY <1>5
    <2>2. \A a \in 1 .. Len(o) : Position(o[a]) \in Int
      BY <2>0, Positions
    <2>3. CASE x \notin E
      <3>1. K[i] = o
        BY <1>3, <2>3
      <3> HIDE DEF o
      <3>2. Sub(i)
        BY <2>0, <2>1, <2>2, <2>3, <3>1
      <3> QED
        BY <1>0, <3>2
    <2>4. CASE x \in E
      <3> DEFINE s == K[i]
      <3>1. s = Append(o, x)
        BY <1>3, <2>4
      <3> HIDE DEF o, s, x
      <3>2. /\ Len(s) = Len(o) + 1 /\ Len(o) \in Nat /\ s[Len(o) + 1] = x
            /\ \A a \in 1 .. Len(o) : s[a] = o[a]
        BY <2>0, <3>1, AppendType
      <3>3. \A a \in 1 .. Len(s) : Position(s[a]) <= i
        BY <2>0, <2>1, <2>2, <3>2
      <3>4. \A a, b \in 1 .. Len(s) : a < b => Before(s[a], s[b])
        <4> SUFFICES ASSUME NEW a \in 1 .. Len(s), NEW b \in 1 .. Len(s), a < b
                     PROVE  Before(s[a], s[b])
          OBVIOUS
        <4>1. a \in 1 .. Len(o) /\ s[a] = o[a]
          BY <3>2
        <4>2. CASE b \in 1 .. Len(o)
          BY <2>1, <3>2, <4>1, <4>2
        <4>3. CASE b = Len(o) + 1
          BY <2>0, <2>1, <2>2, <3>2, <4>1, <4>3 DEF Before
        <4> QED
          BY <3>2, <4>2, <4>3
      <3>5. ASSUME NEW j \in 1 .. i, DocOrder[j] \in E PROVE \E a \in 1 .. Len(s) : s[a] = DocOrder[j]
        <4>1. CASE j = i
          BY <3>2, <4>1 DEF x
        <4>2. CASE j # i
          <5>1. PICK a \in 1 .. Len(o) : o[a] = DocOrder[j]
            BY <2>0, <2>1, <3>5, <4>2
          <5> QED
            BY <3>2, <5>1
        <4> QED
          BY <4>1, <4>2
      <3>6. Sub(i)
        BY <3>3, <3>4, <3>5 DEF s
      <3> QED
        BY <1>0, <3>6
    <2> QED
      BY <2>3, <2>4
  <1> HIDE DEF OK, n
  <1>6. 0 .. n \subseteq OK
    BY <1>0, <1>4, <1>5, UpTo
  <1>7. n \in 0 .. n
    BY <1>0
  <1>8. Sub(n)
    BY <1>6, <1>7 DEF OK
  <1>9. K[n] \in Seq(DocID) /\ K[n] \in Seq(E)
    BY <1>2, <1>7
  <1>10. Sorted(K[n])
    BY <1>8, <1>9 DEF Sorted
  <1>11. Elems(K[n]) = E
    <2>1. Elems(K[n]) \subseteq E
      BY <1>9 DEF Elems
    <2>2. ASSUME NEW d \in E PROVE d \in Elems(K[n])
      <3>1. Position(d) \in 1 .. n /\ DocOrder[Position(d)] = d
        BY Positions DEF n
      <3> QED
        BY <1>8, <3>1 DEF Elems
    <2> QED
      BY <2>1, <2>2
  <1> QED
    BY <1>10, <1>11 DEF docIDSetToSorted, K, n

\* One round of the merge of two sorted lists.
MergeRound(a, b, m) ==
    IF m.i > Len(a) \/ m.j > Len(b) THEN m
    ELSE IF Before(a[m.i], b[m.j]) THEN [m EXCEPT !.i = @ + 1]
    ELSE IF Before(b[m.j], a[m.i]) THEN [m EXCEPT !.j = @ + 1]
    ELSE [i |-> m.i + 1, j |-> m.j + 1, out |-> Append(m.out, a[m.i])]

MergeState == [i : Nat \ {0}, j : Nat \ {0}, out : Seq(DocID)]

\* After n rounds: out is in order and holds what the two lists have in common
\* before their positions i and j, and everything in it comes before the rest.
MergeOK(a, b, m, n) ==
    /\ m \in MergeState
    /\ m.i <= Len(a) + 1 /\ m.j <= Len(b) + 1
    /\ Sorted(m.out)
    /\ Elems(m.out) \subseteq Elems(a) \cap Elems(b)
    /\ \A d \in Elems(m.out) :
          /\ \A p \in m.i .. Len(a) : Before(d, a[p])
          /\ \A r \in m.j .. Len(b) : Before(d, b[r])
    /\ \A p \in 1 .. Len(a) : \A r \in 1 .. Len(b) :
          a[p] = b[r] => a[p] \in Elems(m.out) \/ (p >= m.i /\ r >= m.j)
    /\ m.i > Len(a) \/ m.j > Len(b) \/ m.i + m.j >= n + 2

\* Appending what comes after all.
LEMMA SortedAppend ==
    ASSUME NEW s, Sorted(s), NEW d \in DocID, \A e \in Elems(s) : Before(e, d)
    PROVE  Sorted(Append(s, d)) /\ Elems(Append(s, d)) = Elems(s) \cup {d}
  <1> DEFINE t == Append(s, d)
  <1>1. /\ s \in Seq(DocID) /\ Len(s) \in Nat
        /\ \A i, j \in 1 .. Len(s) : i < j => Before(s[i], s[j])
        /\ \A i \in 1 .. Len(s) : s[i] \in Elems(s)
    BY DEF Sorted, Elems
  <1>2. /\ t \in Seq(DocID) /\ Len(t) = Len(s) + 1 /\ t[Len(s) + 1] = d
        /\ \A i \in 1 .. Len(s) : t[i] = s[i]
    BY <1>1, AppendType
  <1> HIDE DEF t
  <1>3. ASSUME NEW i \in 1 .. Len(t), NEW j \in 1 .. Len(t), i < j PROVE Before(t[i], t[j])
    <2>1. i \in 1 .. Len(s) /\ t[i] = s[i]
      BY <1>1, <1>2, <1>3
    <2>2. CASE j \in 1 .. Len(s)
      BY <1>1, <1>2, <1>3, <2>1, <2>2
    <2>3. CASE j = Len(s) + 1
      BY <1>1, <1>2, <2>1, <2>3
    <2> QED
      BY <1>1, <1>2, <2>2, <2>3
  <1>4. Elems(t) = Elems(s) \cup {d}
    <2>1. 1 .. Len(t) = (1 .. Len(s)) \cup {Len(s) + 1}
      BY <1>1, <1>2
    <2> QED
      BY <1>1, <1>2, <2>1 DEF Elems
  <1> QED
    BY <1>2, <1>3, <1>4 DEF Sorted, t

\* The byte order of the ids is a strict total order.
LEMMA BeforeOrder ==
    /\ \A d, e, f \in DocID : Before(d, e) /\ Before(e, f) => Before(d, f)
    /\ \A d \in DocID : ~Before(d, d)
    /\ \A d, e \in DocID : Before(d, e) \/ Before(e, d) \/ d = e
  <1>0. Len(DocOrder) \in Nat
    BY DocOrderAssumption
  <1>1. ASSUME NEW d \in DocID PROVE Position(d) \in Int
    <2>1. Position(d) \in 1 .. Len(DocOrder)
      BY Positions, Zenon
    <2> QED
      BY <1>0, <2>1
  <1>2. \A d, e \in DocID : Position(d) = Position(e) => d = e
    BY Positions
  <1> QED
    BY <1>1, <1>2 DEF Before

\* A round of the merge keeps its invariant.
LEMMA MergeStep ==
    ASSUME NEW a, NEW b, Sorted(a), Sorted(b), NEW n \in Nat, NEW m, MergeOK(a, b, m, n)
    PROVE  MergeOK(a, b, MergeRound(a, b, m), n + 1)
  <1> DEFINE w == MergeRound(a, b, m)
  <1>0. /\ m \in MergeState /\ m.i \in Nat \ {0} /\ m.j \in Nat \ {0} /\ m.out \in Seq(DocID)
        /\ m.i <= Len(a) + 1 /\ m.j <= Len(b) + 1 /\ Len(a) \in Nat /\ Len(b) \in Nat
        /\ \A p \in 1 .. Len(a) : a[p] \in DocID
        /\ \A r \in 1 .. Len(b) : b[r] \in DocID
        /\ \A p, r \in 1 .. Len(a) : p < r => Before(a[p], a[r])
        /\ \A p, r \in 1 .. Len(b) : p < r => Before(b[p], b[r])
    BY DEF MergeOK, MergeState, Sorted
  <1>1. /\ Sorted(m.out)
        /\ Elems(m.out) \subseteq Elems(a) \cap Elems(b)
        /\ \A d \in Elems(m.out) :
              /\ \A p \in m.i .. Len(a) : Before(d, a[p])
              /\ \A r \in m.j .. Len(b) : Before(d, b[r])
        /\ \A p \in 1 .. Len(a) : \A r \in 1 .. Len(b) :
              a[p] = b[r] => a[p] \in Elems(m.out) \/ (p >= m.i /\ r >= m.j)
        /\ m.i > Len(a) \/ m.j > Len(b) \/ m.i + m.j >= n + 2
    BY DEF MergeOK
  <1>2. CASE m.i > Len(a) \/ m.j > Len(b)
    <2>1. w = m
      BY <1>2 DEF MergeRound
    <2> QED
      BY <1>0, <1>1, <1>2, <2>1 DEF MergeOK
  <1>3. CASE ~(m.i > Len(a) \/ m.j > Len(b))
    <2> DEFINE x == a[m.i]
               y == b[m.j]
    <2>0. m.i \in 1 .. Len(a) /\ m.j \in 1 .. Len(b) /\ x \in DocID /\ y \in DocID
      BY <1>0, <1>3
    <2>1. \A p \in m.i .. Len(a) : p \in 1 .. Len(a) /\ (p = m.i \/ Before(x, a[p]))
      BY <1>0, <2>0
    <2>2. \A r \in m.j .. Len(b) : r \in 1 .. Len(b) /\ (r = m.j \/ Before(y, b[r]))
      BY <1>0, <2>0
    <2>3. CASE Before(x, y)
      <3>1. w = [m EXCEPT !.i = @ + 1]
        BY <1>3, <2>3 DEF MergeRound
      <3>2. w \in MergeState /\ w.i = m.i + 1 /\ w.j = m.j /\ w.out = m.out
        BY <1>0, <3>1 DEF MergeState
      <3> HIDE DEF w, x, y
      <3>3. ASSUME NEW p \in 1 .. Len(a), NEW r \in 1 .. Len(b), a[p] = b[r]
            PROVE  a[p] \in Elems(m.out) \/ (p >= w.i /\ r >= w.j)
        <4>1. CASE a[p] \in Elems(m.out)
          BY <4>1
        <4>2. CASE p >= m.i /\ r >= m.j
          <5>1. r \in m.j .. Len(b) /\ a[p] \in DocID
            BY <1>0, <4>2
          <5>2. a[p] # x
            BY <1>0, <2>0, <2>2, <2>3, <3>3, <5>1, BeforeOrder DEF y
          <5>3. p # m.i
            BY <5>2 DEF x
          <5> QED
            BY <1>0, <3>2, <4>2, <5>3
        <4> QED
          BY <1>1, <3>3, <4>1, <4>2
      <3>4. \A d \in Elems(m.out) : \A p \in w.i .. Len(a) : Before(d, a[p])
        BY <1>0, <1>1, <3>2
      <3> QED
        BY <1>0, <1>1, <2>0, <3>2, <3>3, <3>4 DEF MergeOK, w
    <2>4. CASE ~Before(x, y) /\ Before(y, x)
      <3>1. w = [m EXCEPT !.j = @ + 1]
        BY <1>3, <2>4 DEF MergeRound
      <3>2. w \in MergeState /\ w.i = m.i /\ w.j = m.j + 1 /\ w.out = m.out
        BY <1>0, <3>1 DEF MergeState
      <3> HIDE DEF w, x, y
      <3>3. ASSUME NEW p \in 1 .. Len(a), NEW r \in 1 .. Len(b), a[p] = b[r]
            PROVE  a[p] \in Elems(m.out) \/ (p >= w.i /\ r >= w.j)
        <4>1. CASE a[p] \in Elems(m.out)
          BY <4>1
        <4>2. CASE p >= m.i /\ r >= m.j
          <5>1. p \in m.i .. Len(a) /\ b[r] \in DocID
            BY <1>0, <4>2
          <5>2. b[r] # y
            BY <1>0, <2>0, <2>1, <2>4, <3>3, <5>1, BeforeOrder DEF x
          <5>3. r # m.j
            BY <5>2 DEF y
          <5> QED
            BY <1>0, <3>2, <4>2, <5>3
        <4> QED
          BY <1>1, <3>3, <4>1, <4>2
      <3>4. \A d \in Elems(m.out) : \A r \in w.j .. Len(b) : Before(d, b[r])
        BY <1>0, <1>1, <3>2
      <3> QED
        BY <1>0, <1>1, <2>0, <3>2, <3>3, <3>4 DEF MergeOK, w
    <2>5. CASE ~Before(x, y) /\ ~Before(y, x)
      <3>0. x = y
        BY <2>0, <2>5, BeforeOrder
      <3>1. w = [i |-> m.i + 1, j |-> m.j + 1, out |-> Append(m.out, x)]
        BY <1>3, <2>5 DEF MergeRound
      <3>2. \A d \in Elems(m.out) : Before(d, x)
        BY <1>0, <1>1, <2>0
      <3>3. Sorted(Append(m.out, x)) /\ Elems(Append(m.out, x)) = Elems(m.out) \cup {x}
        <4> HIDE DEF x
        <4> QED
          BY <1>1, <2>0, <3>2, SortedAppend
      <3>4. /\ w.i = m.i + 1 /\ w.j = m.j + 1 /\ Sorted(w.out) /\ Elems(w.out) = Elems(m.out) \cup {x}
            /\ w \in MergeState
        BY <1>0, <3>1, <3>3 DEF MergeState, Sorted
      <3>5. x \in Elems(a) /\ x \in Elems(b)
        BY <2>0, <3>0 DEF Elems
      <3> HIDE DEF w, x, y
      <3>6. ASSUME NEW p \in 1 .. Len(a), NEW r \in 1 .. Len(b), a[p] = b[r]
            PROVE  a[p] \in Elems(w.out) \/ (p >= w.i /\ r >= w.j)
        <4>1. CASE a[p] \in Elems(m.out)
          BY <3>4, <4>1
        <4>2. CASE p >= m.i /\ r >= m.j /\ a[p] # x
          <5>1. p # m.i
            BY <4>2 DEF x
          <5>2. r # m.j
            BY <3>0, <3>6, <4>2 DEF y
          <5> QED
            BY <1>0, <3>4, <4>2, <5>1, <5>2
        <4>3. CASE a[p] = x
          BY <3>4, <4>3
        <4> QED
          BY <1>1, <3>6, <4>1, <4>2, <4>3
      <3>7. ASSUME NEW d \in Elems(w.out)
            PROVE  /\ \A p \in w.i .. Len(a) : Before(d, a[p])
                   /\ \A r \in w.j .. Len(b) : Before(d, b[r])
        <4>1. CASE d \in Elems(m.out)
          BY <1>0, <1>1, <3>4, <4>1
        <4>2. CASE d = x
          <5>1. \A p \in w.i .. Len(a) : p \in m.i .. Len(a) /\ p # m.i
            BY <1>0, <3>4
          <5>2. \A r \in w.j .. Len(b) : r \in m.j .. Len(b) /\ r # m.j
            BY <1>0, <3>4
          <5> QED
            BY <2>1, <2>2, <3>0, <4>2, <5>1, <5>2
        <4> QED
          BY <3>4, <4>1, <4>2
      <3> QED
        <4>1. w.i <= Len(a) + 1 /\ w.j <= Len(b) + 1 /\ w.i + w.j >= (n + 1) + 2
          BY <1>0, <1>1, <1>3, <2>0, <3>4
        <4>2. Elems(w.out) \subseteq Elems(a) \cap Elems(b)
          BY <1>1, <3>4, <3>5
        <4> QED
          BY <3>4, <3>6, <3>7, <4>1, <4>2, Zenon DEF MergeOK, w
    <2> QED
      BY <2>3, <2>4, <2>5
  <1> QED
    BY <1>2, <1>3

\* The loop runs its rounds.
LEMMA MergeTable ==
    ASSUME NEW a, NEW b, Sorted(a), Sorted(b)
    PROVE  /\ Merged(a, b)[0] = [i |-> 1, j |-> 1, out |-> <<>>]
           /\ \A n \in 1 .. Len(a) + Len(b) : Merged(a, b)[n] = MergeRound(a, b, Merged(a, b)[n - 1])
  <1> DEFINE N == Len(a) + Len(b)
             S == MergeState
             base == [i |-> 1, j |-> 1, out |-> <<>>]
             step == [y \in S \X (1 .. N) |-> MergeRound(a, b, y[1])]
             Good(f) == f = [n \in 0 .. N |-> IF n = 0 THEN base ELSE MergeRound(a, b, f[n - 1])]
             K == Merged(a, b)
  <1>0. N \in Nat /\ base \in S
    BY DEF Sorted, MergeState
  <1>1. ASSUME NEW m \in S PROVE MergeRound(a, b, m) \in S
    <2>1. /\ m.i \in Nat \ {0} /\ m.j \in Nat \ {0} /\ m.out \in Seq(DocID)
          /\ Len(a) \in Nat /\ Len(b) \in Nat
          /\ \A p \in 1 .. Len(a) : a[p] \in DocID
      BY DEF MergeState, Sorted
    <2>2. CASE m.i > Len(a) \/ m.j > Len(b)
      BY <2>2 DEF MergeRound
    <2>3. CASE ~(m.i > Len(a) \/ m.j > Len(b))
      <3>1. a[m.i] \in DocID
        BY <2>1, <2>3
      <3>2. Append(m.out, a[m.i]) \in Seq(DocID)
        BY <2>1, <3>1, AppendType
      <3> QED
        BY <2>1, <2>3, <3>2 DEF MergeRound, MergeState
    <2> QED
      BY <2>2, <2>3
  <1> HIDE DEF base
  <1>2. step \in [S \X (1 .. N) -> S]
    <2> HIDE DEF S
    <2> QED
      BY <1>1
  <1>3. \E g : Solves(g, S, base, N, step)
    <2> HIDE DEF step, N, S
    <2> QED
      BY <1>0, <1>2, Recursion, Zenon
  <1>4. PICK g : Solves(g, S, base, N, step)
    BY <1>3
  <1> HIDE DEF S
  <1>5. g \in [0 .. N -> S] /\ g[0] = base
    BY <1>4 DEF Solves
  <1>6. ASSUME NEW n \in 1 .. N PROVE g[n] = MergeRound(a, b, g[n - 1])
    <2>1. g[n] = step[<<g[n - 1], n>>]
      BY <1>4 DEF Solves
    <2>2. <<g[n - 1], n>> \in S \X (1 .. N)
      BY <1>0, <1>5
    <2> QED
      BY <2>1, <2>2
  <1>7. Good(g)
    <2>1. ASSUME NEW n \in 0 .. N PROVE g[n] = IF n = 0 THEN base ELSE MergeRound(a, b, g[n - 1])
      BY <1>0, <1>5, <1>6
    <2> QED
      BY <1>5, <2>1
  <1>8. K = CHOOSE f : Good(f)
    BY DEF Merged, MergeRound, base
  <1> HIDE DEF Good, K, N
  <1>9. Good(K)
    BY <1>7, <1>8
  <1>10. K[0] = base /\ \A n \in 1 .. N : K[n] = MergeRound(a, b, K[n - 1])
    BY <1>0, <1>9 DEF Good
  <1> QED
    BY <1>10 DEF K, N, base

\* intersectSortedQueryIDs: the common documents, in order.
LEMMA MergeIntersects ==
    ASSUME NEW a, NEW b, Sorted(a), Sorted(b)
    PROVE  /\ Sorted(intersectSortedQueryIDs(a, b))
           /\ Elems(intersectSortedQueryIDs(a, b)) = Elems(a) \cap Elems(b)
  <1> DEFINE N == Len(a) + Len(b)
             K == Merged(a, b)
             OK == {n \in 0 .. N : MergeOK(a, b, K[n], n)}
  <1>0. Len(a) \in Nat /\ Len(b) \in Nat /\ N \in Nat
    BY DEF Sorted
  <1>1. /\ K[0] = [i |-> 1, j |-> 1, out |-> <<>>]
        /\ \A n \in 1 .. N : K[n] = MergeRound(a, b, K[n - 1])
    BY MergeTable
  <1> HIDE DEF K
  <1>2. 0 \in OK
    <2>1. Sorted(<<>>) /\ Elems(<<>>) = {}
      BY DEF Sorted, Elems
    <2>2. MergeOK(a, b, K[0], 0)
      BY <1>0, <1>1, <2>1 DEF MergeOK, MergeState
    <2> QED
      BY <1>0, <2>2
  <1>3. ASSUME NEW n \in 1 .. N, n - 1 \in OK PROVE n \in OK
    <2>1. MergeOK(a, b, K[n - 1], n - 1) /\ n - 1 \in Nat /\ K[n] = MergeRound(a, b, K[n - 1])
      BY <1>0, <1>1, <1>3
    <2>2. MergeOK(a, b, K[n], (n - 1) + 1)
      BY <2>1, MergeStep, Zenon
    <2> QED
      BY <1>0, <2>2
  <1> HIDE DEF OK
  <1>4. 0 .. N \subseteq OK
    BY <1>0, <1>2, <1>3, UpTo
  <1> DEFINE m == K[N]
  <1>5. MergeOK(a, b, m, N)
    BY <1>0, <1>4 DEF OK
  <1> HIDE DEF m
  <1>6. m.i > Len(a) \/ m.j > Len(b)
    BY <1>0, <1>5 DEF MergeOK, MergeState
  <1>7. ASSUME NEW d \in Elems(a) \cap Elems(b) PROVE d \in Elems(m.out)
    <2>1. PICK p \in 1 .. Len(a) : d = a[p]
      BY DEF Elems
    <2>2. PICK r \in 1 .. Len(b) : d = b[r]
      BY DEF Elems
    <2>3. a[p] \in Elems(m.out) \/ (p >= m.i /\ r >= m.j)
      BY <1>5, <2>1, <2>2 DEF MergeOK
    <2>4. m.i \in Nat /\ m.j \in Nat
      BY <1>5 DEF MergeOK, MergeState
    <2> QED
      BY <1>0, <1>6, <2>1, <2>3, <2>4
  <1>8. Sorted(m.out) /\ Elems(m.out) = Elems(a) \cap Elems(b)
    BY <1>5, <1>7 DEF MergeOK
  <1> QED
    BY <1>8 DEF intersectSortedQueryIDs, m, K

----------------------------------------------------------------------------
(* The anchors of a query.                                                 *)

Anchors(q) == {q[1][i] : i \in {j \in 1 .. Len(q[1]) : IsAnchor(q[1][j])}}

\* A list made of functions on its positions.
LEMMA ListLength ==
    ASSUME NEW n \in Nat, NEW f, f = [i \in 1 .. n |-> f[i]]
    PROVE  f \in Seq({f[i] : i \in 1 .. n}) /\ Len(f) = n
  OBVIOUS

\* r is q with every clause decoded.
IsDecoded(r, q) ==
    /\ IsQuery(r) /\ Len(r) = Len(q)
    /\ \A l \in 1 .. Len(q) :
          /\ Len(r[l]) = Len(q[l])
          /\ \A i \in 1 .. Len(q[l]) : r[l][i] = decodeQueryClause(q[l][i])
          /\ r[l] \in Seq({r[l][i] : i \in 1 .. Len(q[l])})

\* What decodeQueryClauses returns has the shape of what it is given.
LEMMA DecodedIs ==
    ASSUME NEW q, IsQuery(q)
    PROVE  IsDecoded(decodeQueryClauses(q), q)
  <1> DEFINE r == decodeQueryClauses(q)
             n == Len(q)
  <1>0. n \in Nat \ {0} /\ \A l \in 1 .. n : Len(q[l]) \in Nat
    BY DEF IsQuery
  <1>1. r = [l \in 1 .. n |-> [i \in 1 .. Len(q[l]) |-> decodeQueryClause(q[l][i])]]
    BY DEF decodeQueryClauses
  <1> HIDE DEF r, n
  <1>2. Len(r) = n
    BY <1>0, <1>1
  <1>3. ASSUME NEW l \in 1 .. n
        PROVE  /\ Len(r[l]) = Len(q[l])
               /\ \A i \in 1 .. Len(q[l]) : r[l][i] = decodeQueryClause(q[l][i])
               /\ r[l] \in Seq({r[l][i] : i \in 1 .. Len(q[l])})
    <2>1. r[l] = [i \in 1 .. Len(q[l]) |-> decodeQueryClause(q[l][i])]
      BY <1>1
    <2>2. r[l] = [i \in 1 .. Len(q[l]) |-> r[l][i]]
      BY <2>1
    <2>3. Len(q[l]) \in Nat
      BY <1>0
    <2>4. Len(r[l]) = Len(q[l]) /\ r[l] \in Seq({r[l][i] : i \in 1 .. Len(q[l])})
      BY <2>2, <2>3, ListLength
    <2> QED
      BY <2>1, <2>4
  <1>4. ASSUME NEW l \in 1 .. n, NEW i \in 1 .. Len(q[l])
        PROVE  /\ r[l][i].kind = "pattern" => DOMAIN r[l][i] = {"kind", "attr", "value"}
               /\ r[l][i].kind = "predicate" => DOMAIN r[l][i] = {"kind", "op", "left", "right"}
               /\ r[l][i].kind = "or" => r[l][i].branches \in Seq(l + 1 .. n)
               /\ r[l][i].kind = "not" => r[l][i].body \in l + 1 .. n
    <2> DEFINE c == q[l][i]
               later == l + 1 .. n
               e == decodeQueryClause(c)
    <2>1. /\ c.kind = "pattern" => DOMAIN c = {"kind", "attr", "value"}
          /\ c.kind = "predicate" => DOMAIN c = {"kind", "op", "left", "right"}
          /\ c.kind = "or" => c.branches \in Seq(later)
          /\ c.kind = "not" => c.body \in later
      BY DEF IsQuery, n
    <2>2. r[l][i] = e
      BY <1>3
    <2> HIDE DEF c
    <2>3. CASE c.kind = "pattern"
      <3>1. e = [c EXCEPT !.value = decodeTerm(@)]
        BY <2>3 DEF decodeQueryClause
      <3>2. DOMAIN e = DOMAIN c /\ e.kind = c.kind
        BY <2>1, <2>3, <3>1
      <3> QED
        BY <2>1, <2>2, <2>3, <3>2
    <2>4. CASE c.kind = "predicate"
      <3>1. e = [c EXCEPT !.left = decodeTerm(@), !.right = decodeTerm(@)]
        BY <2>4 DEF decodeQueryClause
      <3>2. DOMAIN e = DOMAIN c /\ e.kind = c.kind
        BY <2>1, <2>4, <3>1
      <3> QED
        BY <2>1, <2>2, <2>4, <3>2
    <2>5. CASE c.kind # "pattern" /\ c.kind # "predicate"
      <3>1. e = c
        BY <2>5 DEF decodeQueryClause
      <3> QED
        BY <2>1, <2>2, <3>1
    <2> QED
      BY <2>3, <2>4, <2>5
  <1>5. IsQuery(r)
    BY <1>0, <1>2, <1>3, <1>4 DEF IsQuery
  <1> QED
    BY <1>2, <1>3, <1>5 DEF r, n, IsDecoded

\* A call to Query as it is decoded.
Accepted(k) ==
    \E w \in Calls : /\ w.call = "Query" /\ CallError(w) = ""
                     /\ k = [w EXCEPT !.where = decodeQueryClauses(w.where)]

\* A call that is accepted can be run and has an anchor.
LEMMA AcceptedQuery ==
    ASSUME NEW k, Accepted(k)
    PROVE  /\ k.call = "Query" /\ IsQuery(k.where) /\ ~decodeAggregatesFails(k.aggs)
           /\ collectQueryAnchors(k.where[1]) \in Seq(Anchors(k.where))
           /\ collectQueryAnchors(k.where[1]) # <<>>
  <1>1. PICK w \in Calls : /\ w.call = "Query" /\ CallError(w) = ""
                           /\ k = [w EXCEPT !.where = decodeQueryClauses(w.where)]
    BY DEF Accepted
  <1>2. DOMAIN w = {"call", "entity", "where", "aggs", "groupBy"} /\ IsQuery(w.where)
    BY <1>1, CallTyped
  <1>3. k.call = "Query" /\ k.where = decodeQueryClauses(w.where) /\ k.aggs = w.aggs
    BY <1>1, <1>2
  <1>4. /\ ~Refused(w)
        /\ collectQueryAnchors(decodeQueryClauses(w.where)[1]) # <<>>
    BY <1>1 DEF CallError, mapError
  <1>5. ~decodeAggregatesFails(w.aggs)
    BY <1>4 DEF Refused
  <1> DEFINE s == k.where[1]
             D == {s[i] : i \in 1 .. Len(w.where[1])}
  <1>6. s \in Seq(D) /\ IsQuery(k.where)
    <2>1. 1 \in 1 .. Len(w.where)
      BY <1>2 DEF IsQuery
    <2>2. IsDecoded(k.where, w.where)
      BY <1>2, <1>3, DecodedIs
    <2> QED
      BY <2>1, <2>2 DEF IsDecoded
  <1>7. collectQueryAnchors(s) \in Seq(Anchors(k.where))
    <2> DEFINE T == Anchors(k.where)
    <2> HIDE DEF D
    <2>1. IsFilter(Filter(s, T), s, T, D)
      BY <1>6, FilterTable
    <2>2. Len(s) \in 0 .. Len(s)
      BY <1>6
    <2>3. Filter(s, T)[Len(s)] \in Seq(T \cap D)
      BY <2>1, <2>2 DEF IsFilter
    <2>4. Filter(s, T)[Len(s)] \in Seq(T)
      <3> HIDE DEF T, s
      <3> QED
        BY <2>3
    <2> QED
      BY <2>4 DEF collectQueryAnchors, Anchors
  <1> QED
    BY <1>3, <1>4, <1>5, <1>6, <1>7

\* The term an attribute is indexed under is not the empty string.
LEMMA TermNotEmpty ==
    ASSUME NEW s, NEW t, s \in Seq({s[i] : i \in DOMAIN s}), t \in Seq({t[i] : i \in DOMAIN t})
    PROVE  s \o <<":">> \o t # <<>>
  <1> DEFINE T == {s[i] : i \in DOMAIN s} \cup {t[i] : i \in DOMAIN t} \cup {":"}
  <1>1. s \in Seq(T)
    OBVIOUS
  <1>2. t \in Seq(T)
    OBVIOUS
  <1>3. <<":">> \in Seq(T) /\ Len(<<":">>) = 1
    OBVIOUS
  <1> HIDE DEF T
  <1>4. s \o <<":">> \in Seq(T) /\ Len(s \o <<":">>) = Len(s) + 1 /\ Len(s) \in Nat
    BY <1>1, <1>3
  <1>5. Len((s \o <<":">>) \o t) = Len(s) + 1 + Len(t) /\ Len(t) \in Nat
    BY <1>2, <1>4
  <1> QED
    BY <1>4, <1>5

\* A document that matches has the anchor's attribute, and is under its term.
LEMMA AnchorFound ==
    ASSUME TextsAgree, NEW k, Accepted(k), NEW p \in Anchors(k.where), NEW b, NEW d \in Surely(b, k)
    PROVE  d \in Found(b, AnchorLookup(p))
  <1> DEFINE q == k.where
             c == b.docs[d]
             attrs == Attrs(c)
             id == parseQueryRecordID(d)
             values == Values(attrs, id)
             sat == Satisfies(q, attrs, values)
  <1>0. k.call = "Query" /\ IsQuery(q) /\ 1 \in 1 .. Len(q)
    <2>1. k.call = "Query" /\ IsQuery(q)
      BY AcceptedQuery
    <2>2. Len(q) \in Nat \ {0}
      BY <2>1 DEF IsQuery
    <2> QED
      BY <2>1, <2>2
  <1>1. d \in DocID /\ Matches(q, attrs, id)
    BY <1>0 DEF Surely
  <1>2. PICK i \in 1 .. Len(q[1]) : p = q[1][i] /\ IsAnchor(p)
    BY DEF Anchors
  <1>3. PICK val \in [{"?e"} \cup ListVars(q, 1) -> values] : sat[1][val]
    BY <1>1 DEF Matches
  <1>4. val \in Binding(q, values)
    <2>1. {"?e"} \cup ListVars(q, 1) \in SUBSET Variables(q)
      BY <1>0 DEF Variables
    <2> QED
      BY <1>3, <2>1 DEF Binding
  <1>5. AllHold(q, attrs, values, val, sat, 1)
    <2>1. IsSat(sat, q, attrs, values)
      BY <1>0, SatTable
    <2> HIDE DEF sat, values, attrs, q
    <2>2. sat[1] = [v \in Binding(q, values) |-> AllHold(q, attrs, values, v, sat, 1)]
      BY <1>0, <2>1 DEF IsSat
    <2> QED
      BY <1>3, <1>4, <2>2
  <1>6. Holds(p, q, attrs, values, val, sat)
    BY <1>2, <1>5 DEF AllHold
  <1>7. PICK a \in attrs : a.key = p.attr /\ equalQueryValues(a.val, p.value.lit)
    BY <1>2, <1>6 DEF Holds, IsAnchor
  <1>8. c \in Content /\ \E l \in Leaves[c] : a = [key |-> l.key, val |-> l.val]
    BY <1>7 DEF Attrs
  <1>9. PICK l \in Leaves[c] : a = [key |-> l.key, val |-> l.val]
    BY <1>8
  <1>10. a.val.text = p.value.lit.text
    <2>1. PICK w \in Calls : /\ w.call = "Query" /\ CallError(w) = ""
                             /\ k = [w EXCEPT !.where = decodeQueryClauses(w.where)]
      BY DEF Accepted
    <2>2. DOMAIN w = {"call", "entity", "where", "aggs", "groupBy"} /\ IsQuery(w.where)
      BY <2>1, CallTyped
    <2>3. q = decodeQueryClauses(w.where)
      BY <2>1, <2>2
    <2>4. 1 \in 1 .. Len(w.where) /\ Len(q[1]) = Len(w.where[1]) /\ p = decodeQueryClause(w.where[1][i])
      <3>1. 1 \in 1 .. Len(w.where)
        BY <2>2 DEF IsQuery
      <3>2. IsDecoded(q, w.where)
        BY <2>2, <2>3, DecodedIs
      <3> HIDE DEF q
      <3> QED
        BY <1>2, <3>1, <3>2 DEF IsDecoded
    <2> HIDE DEF q, attrs, c
    <2>5. i \in 1 .. Len(w.where[1])
      BY <2>4
    <2>6. \A x \in Content : \A y \in Attrs(x) :
             y.key = p.attr /\ equalQueryValues(y.val, p.value.lit) => y.val.text = p.value.lit.text
      <3> DEFINE e == decodeQueryClause(w.where[1][i])
      <3>1. w \in {v \in Calls : v.call = "Query"}
        BY <2>1
      <3>2. IsAnchor(e) => \A x \in Content : \A y \in Attrs(x) :
               y.key = e.attr /\ equalQueryValues(y.val, e.value.lit) => y.val.text = e.value.lit.text
        BY <2>5, <3>1, Zenon DEF TextsAgree
      <3>3. p = e
        BY <2>4
      <3> HIDE DEF e
      <3> QED
        BY <1>2, <3>2, <3>3, Zenon
    <2> QED
      BY <1>7, <1>8, <2>6 DEF attrs
  <1>11. composeQueryTerm(p) = l.key \o <<":">> \o l.val.text
    BY <1>7, <1>9, <1>10 DEF composeQueryTerm
  <1>12. l.key \o <<":">> \o l.val.text # <<>>
    BY <1>8, <1>9, TextAssumption, TermNotEmpty
  <1>13. composeQueryTerm(p) \in Terms(c)
    <2> DEFINE t == l.key \o <<":">> \o l.val.text
    <2> HIDE DEF c
    <2>1. Terms(c) = (UNION {{m.val.text, m.key \o <<":">> \o m.val.text} : m \in Leaves[c]}) \ {<<>>}
      BY <1>8 DEF Terms, ExtractTerms
    <2>2. t \in {l.val.text, t}
      OBVIOUS
    <2>3. t \in UNION {{m.val.text, m.key \o <<":">> \o m.val.text} : m \in Leaves[c]}
      BY <1>9, <2>2, Zenon
    <2> QED
      BY <1>11, <1>12, <2>1, <2>3
  <1> QED
    BY <1>1, <1>13 DEF Found, Asked, AnchorLookup

----------------------------------------------------------------------------
(* Query, step by step.                                                    *)

\* The values a variable can have: those of attributes, and the document ids.
AllValues ==
    UNION {Values(Attrs(c), parseQueryRecordID(d)) : c \in Content \cup {Absent}, d \in DocID}

Row(q) == [doc : DocID, b : Binding(q, AllValues)]
DocsOf(rs) == {rs[i].doc : i \in 1 .. Len(rs)}
RowsOK(q, rs) ==
    /\ rs \in Seq(Row(q))
    /\ \A i, j \in 1 .. Len(rs) : rs[i].doc = rs[j].doc => i = j

\* Between two anchors, and between two candidates.
GatherOK ==
    /\ rows = <<>>
    /\ todo \in Seq(Anchors(ask.where))
    /\ \E p \in Anchors(ask.where) : req = AnchorLookup(p)

FetchOK ==
    /\ todo # <<>> /\ Sorted(todo)
    /\ Elems(todo) \cap DocsOf(rows) = {}

\* What matched throughout is not lost: the lookup has it, every candidate
\* list has it, and it is still to be fetched or in the answer.
KeepsAll ==
    /\ job = "gather" /\ stage \in {"view2", "done"} => always \subseteq matched
    /\ job = "gather" /\ cands # <<>> => always \subseteq Elems(cands)
    /\ job = "fetch" => always \subseteq Elems(todo) \cup DocsOf(rows)
    /\ status = "OK" => always \subseteq DocsOf(rows)

QueryInv ==
    /\ matched \subseteq DocID
    /\ ask.call = "Query" =>
          /\ Accepted(ask) /\ RowsOK(ask.where, rows) /\ Sorted(cands)
          /\ job = "gather" => GatherOK
          /\ job = "fetch" => FetchOK
          /\ Ordered(ask.where) => DocsOf(rows) \subseteq ever
          /\ Ordered(ask.where) /\ TextsAgree => KeepsAll

\* A list of documents without its first.
LEMMA SortedTail ==
    ASSUME NEW s, Sorted(s), s # <<>>
    PROVE  /\ Head(s) \in DocID /\ Sorted(Tail(s))
           /\ Elems(s) = Elems(Tail(s)) \cup {Head(s)} /\ Head(s) \notin Elems(Tail(s))
  <1> DEFINE t == Tail(s)
  <1>1. s \in Seq(DocID) /\ \A i, j \in 1 .. Len(s) : i < j => Before(s[i], s[j])
    BY DEF Sorted
  <1>2. /\ Len(s) \in Nat \ {0} /\ Head(s) = s[1] /\ s[1] \in DocID
        /\ t \in Seq(DocID) /\ Len(t) = Len(s) - 1 /\ \A i \in 1 .. Len(t) : t[i] = s[i + 1]
    BY <1>1
  <1> HIDE DEF t
  <1>3. Sorted(t)
    <2>1. ASSUME NEW i \in 1 .. Len(t), NEW j \in 1 .. Len(t), i < j PROVE Before(t[i], t[j])
      <3>1. i + 1 \in 1 .. Len(s) /\ j + 1 \in 1 .. Len(s) /\ i + 1 < j + 1
        BY <1>2, <2>1
      <3> QED
        BY <1>1, <1>2, <3>1
    <2> QED
      BY <1>2, <2>1 DEF Sorted
  <1>4. ASSUME NEW d \in Elems(t) PROVE d \in Elems(s) /\ d # s[1]
    <2>1. PICK i \in 1 .. Len(t) : d = t[i]
      BY DEF Elems
    <2>2. i + 1 \in 1 .. Len(s) /\ i + 1 # 1 /\ 1 \in 1 .. Len(s) /\ d = s[i + 1]
      BY <1>2, <2>1
    <2>3. s[i + 1] # s[1]
      BY <2>2, SortedDistinct
    <2> QED
      BY <2>2, <2>3 DEF Elems
  <1>5. ASSUME NEW d \in Elems(s), d # s[1] PROVE d \in Elems(t)
    <2>1. PICK i \in 1 .. Len(s) : d = s[i]
      BY DEF Elems
    <2>2. i - 1 \in 1 .. Len(t) /\ t[i - 1] = s[(i - 1) + 1] /\ (i - 1) + 1 = i
      BY <1>2, <1>5, <2>1
    <2> QED
      BY <2>1, <2>2 DEF Elems
  <1>6. s[1] \in Elems(s)
    BY <1>2 DEF Elems
  <1> QED
    BY <1>2, <1>3, <1>4, <1>5, <1>6 DEF t

\* No matches, no documents.
LEMMA NoRows == \A q : RowsOK(q, <<>>) /\ DocsOf(<<>>) = {}
  BY DEF RowsOK, DocsOf

LEMMA NoDocs == Sorted(<<>>) /\ Elems(<<>>) = {}
  BY DEF Sorted, Elems

\* One more row.
LEMMA RowAdded ==
    ASSUME NEW q, NEW rs, RowsOK(q, rs), NEW r \in Row(q), r.doc \notin DocsOf(rs)
    PROVE  RowsOK(q, Append(rs, r)) /\ DocsOf(Append(rs, r)) = DocsOf(rs) \cup {r.doc}
  <1> DEFINE t == Append(rs, r)
  <1>1. /\ rs \in Seq(Row(q)) /\ Len(rs) \in Nat
        /\ \A i, j \in 1 .. Len(rs) : rs[i].doc = rs[j].doc => i = j
        /\ \A i \in 1 .. Len(rs) : rs[i].doc # r.doc
    BY DEF RowsOK, DocsOf
  <1>2. /\ t \in Seq(Row(q)) /\ Len(t) = Len(rs) + 1 /\ t[Len(rs) + 1] = r
        /\ \A i \in 1 .. Len(rs) : t[i] = rs[i]
    BY <1>1, AppendType
  <1> HIDE DEF t
  <1>3. 1 .. Len(t) = (1 .. Len(rs)) \cup {Len(rs) + 1}
    BY <1>1, <1>2
  <1>4. ASSUME NEW i \in 1 .. Len(t), NEW j \in 1 .. Len(t), t[i].doc = t[j].doc PROVE i = j
    BY <1>1, <1>2, <1>3, <1>4
  <1>5. DocsOf(t) = DocsOf(rs) \cup {r.doc}
    BY <1>1, <1>2, <1>3 DEF DocsOf
  <1> QED
    BY <1>2, <1>4, <1>5 DEF RowsOK, t

\* A step that leaves the query where it is.
LEMMA SameQuery ==
    ASSUME QueryInv, UNCHANGED <<job, ask, todo, cands, rows, status, stage, req, matched>>,
           always' \subseteq always, ever \subseteq ever'
    PROVE  QueryInv'
  <1>1. (GatherOK' <=> GatherOK) /\ (FetchOK' <=> FetchOK)
    BY DEF GatherOK, FetchOK
  <1>2. KeepsAll => KeepsAll'
    BY DEF KeepsAll
  <1> QED
    BY <1>1, <1>2 DEF QueryInv

\* A step after which the reader is idle and has not said OK.
LEMMA QueryOver ==
    ASSUME QueryInv, UNCHANGED <<ask, cands, rows, matched, ever>>, job' = "idle", status' # "OK"
    PROVE  QueryInv'
  <1>1. KeepsAll'
    BY DEF KeepsAll
  <1> QED
    BY <1>1 DEF QueryInv

\* A step of an idle reader that keeps it idle.
LEMMA IdleQuery ==
    ASSUME QueryInv, ReadShape, job = "idle", status = "", job' = "idle",
           UNCHANGED <<ask, cands, rows, always, ever>>, matched' \subseteq DocID
    PROVE  QueryInv'
  <1>1. rows = <<>> /\ cands = <<>> /\ always = {}
    BY DEF ReadShape
  <1>2. KeepsAll'
    BY <1>1 DEF KeepsAll
  <1> QED
    BY <1>1, <1>2 DEF QueryInv

\* Query begins with its first anchor.
LEMMA StartQueryInv ==
    ASSUME QueryInv, ReadShape, NEW w \in Calls, StartQuery(w)
    PROVE  QueryInv'
  <1>1. /\ ask' = [w EXCEPT !.where = decodeQueryClauses(w.where)] /\ ask'.call = "Query"
        /\ w.call = "Query" /\ CallError(w) = "" /\ Idle
    BY QueryAsked DEF StartQuery
  <1>2. Accepted(ask')
    BY <1>1 DEF Accepted
  <1> DEFINE anchors == collectQueryAnchors(ask'.where[1])
  <1>3. anchors \in Seq(Anchors(ask'.where)) /\ anchors # <<>>
    BY <1>2, AcceptedQuery
  <1>4. ask'.where = decodeQueryClauses(w.where)
    BY <1>1, CallTyped
  <1>5. todo' = Tail(anchors) /\ Ask(AnchorLookup(Head(anchors)))
    BY <1>4 DEF StartQuery
  <1>6. /\ rows' = <<>> /\ cands' = <<>> /\ job' = "gather" /\ status' = ""
        /\ stage' = "view1" /\ req' = AnchorLookup(Head(anchors)) /\ matched' = matched
    BY <1>1, <1>5, IdleIsEmpty DEF StartQuery, Ask, Idle
  <1>7. Tail(anchors) \in Seq(Anchors(ask'.where)) /\ Head(anchors) \in Anchors(ask'.where)
    <2> DEFINE A == Anchors(ask'.where)
    <2> HIDE DEF anchors, A
    <2> QED
      BY <1>3 DEF A
  <1> HIDE DEF anchors
  <1>8. GatherOK'
    BY <1>5, <1>6, <1>7 DEF GatherOK
  <1>9. KeepsAll'
    BY <1>6 DEF KeepsAll
  <1> QED
    BY <1>2, <1>6, <1>8, <1>9, NoRows, NoDocs DEF QueryInv

\* The lookup of an anchor finds what matches throughout.
LEMMA ViewQueryInv ==
    ASSUME QueryInv, LInv, ReadShape, History, LookupView
    PROVE  QueryInv'
  <1>0. UNCHANGED <<job, ask, todo, cands, rows, items, found, status, always, ever>> /\ status = ""
    BY DEF LookupView, call
  <1>1. req' = req /\ matched' \subseteq DocID
    BY DEF LookupView, View1, View2, QueryInv
  <1>2. (GatherOK' <=> GatherOK) /\ (FetchOK' <=> FetchOK)
    BY <1>0, <1>1 DEF GatherOK, FetchOK
  <1>3. ASSUME ask.call = "Query", Ordered(ask.where), TextsAgree PROVE KeepsAll'
    <2>1. KeepsAll /\ Accepted(ask)
      BY <1>3 DEF QueryInv
    <2>2. ASSUME job = "gather" PROVE stage' \in {"view2", "done"} => always \subseteq matched'
      <3>1. CASE View1
        <4>1. PICK p \in Anchors(ask.where) : req = AnchorLookup(p)
          BY <1>3, <2>2 DEF QueryInv, GatherOK
        <4>2. matched' = Found(db, AnchorLookup(p))
          BY <3>1, <4>1 DEF View1, Found
        <4>3. always \subseteq Surely(db, ask)
          BY <2>2 DEF History
        <4>4. Surely(db, ask) \subseteq Found(db, AnchorLookup(p))
          BY <1>3, <2>1, AnchorFound
        <4> QED
          BY <4>2, <4>3, <4>4
      <3>2. CASE View2
        BY <2>1, <2>2, <3>2 DEF View2, KeepsAll
      <3> QED
        BY <3>1, <3>2 DEF LookupView
    <2> QED
      BY <1>0, <2>1, <2>2 DEF KeepsAll
  <1> QED
    BY <1>0, <1>1, <1>2, <1>3 DEF QueryInv

\* The answer to one anchor is merged into the candidates.
LEMMA GatherQueryInv ==
    ASSUME QueryInv, LInv, ReadShape, Gather
    PROVE  QueryInv'
  <1> DEFINE got == docIDSetToSorted(answer)
             cs == IF cands = <<>> THEN got ELSE intersectSortedQueryIDs(cands, got)
             q == ask.where
             T == Ordered(q) /\ TextsAgree
  <1>0. /\ job = "gather" /\ ask.call = "Query" /\ stage = "done" /\ answer = matched /\ status = ""
        /\ UNCHANGED <<ask, rows, items, found, always, ever>>
    BY DEF Gather, ReadShape, LInv, AnswerExact
  <1>1. /\ Accepted(ask) /\ RowsOK(q, rows) /\ Sorted(cands) /\ GatherOK
        /\ Ordered(q) => DocsOf(rows) \subseteq ever
        /\ T => KeepsAll
        /\ matched \subseteq DocID
    BY <1>0 DEF QueryInv
  <1>2. Sorted(got) /\ Elems(got) = matched
    BY <1>0, <1>1, SortedList
  <1>3. Sorted(cs) /\ (T => always \subseteq Elems(cs))
    <2> HIDE DEF got
    <2>1. T => always \subseteq matched
      BY <1>0, <1>1 DEF KeepsAll
    <2>2. CASE cands = <<>>
      BY <1>2, <2>1, <2>2
    <2>3. CASE cands # <<>>
      <3>1. T => always \subseteq Elems(cands)
        BY <1>0, <1>1, <2>3 DEF KeepsAll
      <3>2. /\ Sorted(intersectSortedQueryIDs(cands, got))
            /\ Elems(intersectSortedQueryIDs(cands, got)) = Elems(cands) \cap Elems(got)
        BY <1>1, <1>2, MergeIntersects
      <3> QED
        BY <1>2, <2>1, <2>3, <3>1, <3>2
    <2> QED
      BY <2>2, <2>3
  <1>4. /\ CASE cs = <<>> ->
                    /\ job' = "idle" /\ status' = "OK"
                    /\ UNCHANGED <<lookupVars, todo, cands>>
             [] cs # <<>> /\ todo # <<>> ->
                    /\ cands' = cs
                    /\ todo' = Tail(todo)
                    /\ Ask(AnchorLookup(Head(todo)))
                    /\ UNCHANGED <<job, status>>
             [] OTHER ->
                    /\ job' = "fetch"
                    /\ todo' = cs
                    /\ UNCHANGED <<lookupVars, cands, status>>
    BY <1>0 DEF Gather
  <1>5. rows = <<>> /\ DocsOf(rows) = {}
    BY <1>1, NoRows DEF GatherOK
  <1> HIDE DEF cs, T
  <1>6. CASE cs = <<>>
    <2>1. job' = "idle" /\ UNCHANGED <<matched, cands>>
      BY <1>4, <1>6 DEF lookupVars
    <2>2. T => KeepsAll'
      BY <1>0, <1>3, <1>5, <1>6, <2>1, NoDocs DEF KeepsAll
    <2> QED
      BY <1>0, <1>1, <2>1, <2>2 DEF QueryInv, T
  <1>7. CASE cs # <<>> /\ todo # <<>>
    <2>1. /\ cands' = cs /\ todo' = Tail(todo) /\ req' = AnchorLookup(Head(todo))
          /\ stage' = "view1" /\ matched' = matched /\ job' = "gather" /\ status' = ""
      BY <1>0, <1>4, <1>7 DEF Ask
    <2>2. Tail(todo) \in Seq(Anchors(q)) /\ Head(todo) \in Anchors(q)
      <3> DEFINE A == Anchors(q)
      <3>1. todo \in Seq(A)
        BY <1>1 DEF GatherOK
      <3> HIDE DEF A
      <3> QED
        BY <1>7, <3>1 DEF A
    <2>3. GatherOK'
      BY <1>0, <1>5, <2>1, <2>2 DEF GatherOK
    <2>4. T => KeepsAll'
      BY <1>0, <1>3, <2>1 DEF KeepsAll
    <2> QED
      BY <1>0, <1>1, <1>3, <2>1, <2>3, <2>4 DEF QueryInv, T
  <1>8. CASE cs # <<>> /\ todo = <<>>
    <2>1. job' = "fetch" /\ todo' = cs /\ UNCHANGED <<matched, cands>> /\ status' = ""
      BY <1>0, <1>4, <1>8 DEF lookupVars
    <2>2. FetchOK'
      BY <1>0, <1>3, <1>5, <1>8, <2>1 DEF FetchOK
    <2>3. T => KeepsAll'
      BY <1>0, <1>3, <2>1 DEF KeepsAll
    <2> QED
      BY <1>0, <1>1, <2>1, <2>2, <2>3 DEF QueryInv, T
  <1> QED
    BY <1>6, <1>7, <1>8

\* What the composer returns for a stored document is a row, and it returns one
\* exactly if the document matches.
LEMMA MatcherRows ==
    ASSUME NEW q, IsQuery(q), NEW c \in Content \cup {Absent}, NEW d \in DocID
    PROVE  LET id == parseQueryRecordID(d)
               attrs == Attrs(c)
               m == Matcher(q, attrs, Values(attrs, id))[1][Start(id)]
           IN  /\ \A b \in m : [doc |-> d, b |-> b] \in Row(q)
               /\ Ordered(q) => (m # {} <=> Matches(q, attrs, id))
  <1> DEFINE id == parseQueryRecordID(d)
             attrs == Attrs(c)
             values == Values(attrs, id)
             M == Matcher(q, attrs, values)
             m == M[1][Start(id)]
  <1>0. 1 \in 1 .. Len(q)
    BY DEF IsQuery
  <1>1. id \in values /\ \A a \in attrs : a.val \in values
    BY DEF Values
  <1>2. values \subseteq AllValues
    BY DEF AllValues
  <1>3. IsMatcher(M, q, attrs, values)
    BY <1>1, MatcherTable
  <1>4. Ordered(q) => (m # {} <=> Matches(q, attrs, id))
    BY MatcherAgrees
  <1> HIDE DEF id, attrs, values, M
  <1>5. Start(id) \in Binding(q, values)
    <2>1. Start(id) \in [{"?e"} -> values] /\ {"?e"} \in SUBSET Variables(q)
      BY <1>1 DEF Start, Variables
    <2> QED
      BY <2>1, Zenon DEF Binding
  <1>6. m \subseteq Binding(q, values)
    <2>1. M[1] \in [Binding(q, values) -> SUBSET Binding(q, values)]
      BY <1>0, <1>3 DEF IsMatcher
    <2> QED
      BY <1>5, <2>1
  <1>7. Binding(q, values) \subseteq Binding(q, AllValues)
    <2> SUFFICES ASSUME NEW b \in Binding(q, values) PROVE b \in Binding(q, AllValues)
      OBVIOUS
    <2>1. DOMAIN b \subseteq Variables(q) /\ b \in [DOMAIN b -> values]
      BY BindingIs
    <2>2. b \in [DOMAIN b -> AllValues]
      BY <1>2, <2>1
    <2> QED
      BY <2>1, <2>2, BindingIs
  <1>8. \A b \in m : [doc |-> d, b |-> b] \in Row(q)
    BY <1>6, <1>7 DEF Row
  <1> QED
    BY <1>4, <1>8 DEF M, values, attrs, id

\* The next candidate is read and matched as it is now.
LEMMA FetchQueryInv ==
    ASSUME QueryInv, LInv, ReadShape, History, Fetch
    PROVE  QueryInv'
  <1> DEFINE q == ask.where
             d == Head(todo)
             id == parseQueryRecordID(d)
             attrs == Attrs(db.docs[d])
             m == Matcher(q, attrs, Values(attrs, id))[1][Start(id)]
             T == Ordered(q) /\ TextsAgree
  <1>0. /\ job = "fetch" /\ ask.call = "Query" /\ status = ""
        /\ UNCHANGED <<ask, cands, always, ever, matched>> /\ todo' = Tail(todo)
        /\ IF todo' = <<>> THEN job' = "idle" /\ status' = "OK" ELSE UNCHANGED <<job, status>>
    BY DEF Fetch, ReadShape, lookupVars
  <1>1. /\ Accepted(ask) /\ RowsOK(q, rows) /\ Sorted(cands) /\ FetchOK
        /\ Ordered(q) => DocsOf(rows) \subseteq ever
        /\ T => KeepsAll
        /\ matched \subseteq DocID
    BY <1>0 DEF QueryInv
  <1>2. /\ d \in DocID /\ Sorted(todo') /\ Elems(todo) = Elems(todo') \cup {d} /\ d \notin Elems(todo')
        /\ d \notin DocsOf(rows) /\ Elems(todo') \cap DocsOf(rows) = {}
    <2>1. todo # <<>> /\ Sorted(todo) /\ Elems(todo) \cap DocsOf(rows) = {}
      BY <1>1 DEF FetchOK
    <2>2. /\ Head(todo) \in DocID /\ Sorted(Tail(todo))
          /\ Elems(todo) = Elems(Tail(todo)) \cup {Head(todo)} /\ Head(todo) \notin Elems(Tail(todo))
      BY <2>1, SortedTail
    <2> HIDE DEF d
    <2> QED
      BY <1>0, <2>1, <2>2 DEF d
  <1>3. IsQuery(q) /\ db.docs[d] \in Content \cup {Absent}
    <2>1. db.docs \in [DocID -> Stored]
      BY PartTypes DEF LInv, BucketsOK
    <2> QED
      BY <1>1, <1>2, <2>1, AcceptedQuery DEF Stored
  <1>4. /\ \A b \in m : [doc |-> d, b |-> b] \in Row(q)
        /\ Ordered(q) => (m # {} <=> Matches(q, attrs, id))
    BY <1>2, <1>3, MatcherRows
  <1>5. Matches(q, attrs, id) <=> d \in Surely(db, ask)
    BY <1>0, <1>2 DEF Surely
  <1>6. always \subseteq Surely(db, ask) /\ Surely(db, ask) \subseteq ever
    <2>1. Possibly(db, ask) = Surely(db, ask)
      BY <1>0 DEF Possibly
    <2> QED
      BY <1>0, <2>1 DEF History
  <1>7. IF m = {} THEN rows' = rows ELSE \E b \in m : rows' = Append(rows, [doc |-> d, b |-> b])
    BY DEF Fetch
  <1> HIDE DEF m, d, attrs, id, T
  <1>8. /\ RowsOK(q, rows')
        /\ DocsOf(rows') = IF m = {} THEN DocsOf(rows) ELSE DocsOf(rows) \cup {d}
    <2>1. CASE m = {}
      BY <1>1, <1>7, <2>1
    <2>2. CASE m # {}
      <3>1. PICK b \in m : rows' = Append(rows, [doc |-> d, b |-> b])
        BY <1>7, <2>2
      <3> DEFINE r == [doc |-> d, b |-> b]
      <3>2. r \in Row(q) /\ r.doc = d
        BY <1>4
      <3> HIDE DEF r, q
      <3>3. RowsOK(q, Append(rows, r)) /\ DocsOf(Append(rows, r)) = DocsOf(rows) \cup {d}
        BY <1>1, <1>2, <3>2, RowAdded
      <3> QED
        BY <2>2, <3>1, <3>3 DEF r
    <2> QED
      BY <2>1, <2>2
  <1>9. Ordered(q) => DocsOf(rows') \subseteq ever
    BY <1>1, <1>4, <1>5, <1>6, <1>8
  <1>10. T => always \subseteq Elems(todo') \cup DocsOf(rows')
    <2>1. T => always \subseteq Elems(todo) \cup DocsOf(rows)
      BY <1>0, <1>1 DEF KeepsAll
    <2>2. T /\ m = {} => d \notin always
      BY <1>4, <1>5, <1>6 DEF T
    <2> QED
      BY <1>2, <1>8, <2>1, <2>2
  <1>11. job' # "gather" /\ (job' = "fetch" => FetchOK')
    <2>1. DocsOf(rows') \cap Elems(todo') = {}
      BY <1>2, <1>8
    <2> QED
      BY <1>0, <1>2, <2>1 DEF FetchOK
  <1>12. T => KeepsAll'
    <2>1. status' = "OK" => Elems(todo') = {}
      BY <1>0, NoDocs
    <2> QED
      BY <1>0, <1>10, <1>11, <2>1 DEF KeepsAll
  <1> QED
    BY <1>0, <1>1, <1>8, <1>9, <1>11, <1>12 DEF QueryInv, T

\* Every step keeps what Query has gathered and matched.
LEMMA QueryStep ==
    ASSUME LInv, ReadShape, History, QueryInv, ReadNext
    PROVE  QueryInv'
  <1>1. CASE WriteBetween
    <2>1. UNCHANGED <<job, ask, todo, cands, rows, status, stage, req, matched>>
      BY <1>1, WriteLInv DEF WriteBetween, call, reader
    <2>2. always' \subseteq always /\ ever \subseteq ever'
      BY <1>1 DEF WriteBetween
    <2> QED
      BY <2>1, <2>2, SameQuery
  <1>2. CASE LookupView
    BY <1>2, ViewQueryInv
  <1>3. CASE Respond
    BY <1>3, IdleQuery DEF Respond, lookupVars, QueryInv
  <1>4. ASSUME NEW r \in Request, Lookup(r) PROVE QueryInv'
    BY <1>4, IdleQuery DEF Lookup, Ask, Idle, call, QueryInv
  <1>5. ASSUME NEW code, Fail(code) PROVE QueryInv'
    BY <1>5, IdleQuery DEF Fail, Idle, lookupVars, QueryInv
  <1>6. ASSUME NEW w \in Calls, StartSequence(w) \/ ClusterQuery(w) \/ WindowQuery(w) PROVE QueryInv'
    <2>1. ask'.call # "Query" /\ matched' = matched
      BY <1>6 DEF StartSequence, ClusterQuery, WindowQuery, lookupVars
    <2> QED
      BY <2>1 DEF QueryInv
  <1>7. CASE Gather
    BY <1>7, GatherQueryInv
  <1>8. CASE Fetch
    BY <1>8, FetchQueryInv
  <1>9. ASSUME NEW i \in items, WalkItem(i) PROVE QueryInv'
    <2>1. ask'.call # "Query" /\ matched' = matched
      BY <1>9 DEF WalkItem, ReadShape, lookupVars
    <2> QED
      BY <2>1 DEF QueryInv
  <1>10. CASE CancelRead
    <2>1. UNCHANGED <<ask, cands, rows, matched, ever>> /\ job' = "idle" /\ status' # "OK"
      BY <1>10, Errors DEF CancelRead, lookupVars
    <2> QED
      BY <2>1, QueryOver
  <1> QED
    BY <1>1, <1>2, <1>3, <1>4, <1>5, <1>6, <1>7, <1>8, <1>9, <1>10, StartQueryInv DEF ReadNext

\* The inductive invariant of Query.
LEMMA QueryInvariance == ReadSpec => []QueryInv
  <1>1. ReadInit => QueryInv
    <2> SUFFICES ASSUME ReadInit PROVE QueryInv
      OBVIOUS
    <2>1. ask = NoCall /\ matched = {}
      BY DEF ReadInit, LookupInit
    <2>2. ask.call # "Query"
      BY <2>1 DEF NoCall
    <2> QED
      BY <2>1, <2>2, Zenon DEF QueryInv
  <1>2. RInv /\ QueryInv /\ [ReadNext]_readVars => QueryInv'
    <2>1. RInv /\ QueryInv /\ ReadNext => QueryInv'
      BY QueryStep DEF RInv
    <2>2. QueryInv /\ UNCHANGED readVars => QueryInv'
      BY SameQuery DEF readVars, call, lookupVars
    <2> QED
      BY <2>1, <2>2
  <1> QED
    BY <1>1, <1>2, ReadInvariance, PTL DEF ReadSpec

\* The numbers in a match are integers.
LEMMA RowsTyped ==
    ASSUME NEW q, RowsOK(q, rows)
    PROVE  MatchesTyped(Bindings)
  <1>1. ASSUME NEW x \in AllValues, x.kind = "num" PROVE x.num \in Int
    <2>1. PICK c \in Content \cup {Absent}, d \in DocID : x \in Values(Attrs(c), parseQueryRecordID(d))
      BY <1>1 DEF AllValues
    <2>2. CASE x = parseQueryRecordID(d)
      BY <1>1, <2>2, IdNumberAssumption DEF parseQueryRecordID
    <2>3. CASE x # parseQueryRecordID(d)
      <3>1. PICK a \in Attrs(c) : x = a.val
        BY <2>1, <2>3 DEF Values
      <3>2. c \in Content /\ \E l \in Leaves[c] : a = [key |-> l.key, val |-> l.val]
        BY <3>1 DEF Attrs
      <3>3. PICK l \in Leaves[c] : a = [key |-> l.key, val |-> l.val]
        BY <3>2
      <3>4. IsScalar(l.val) /\ x = l.val
        BY <3>1, <3>2, <3>3, LeavesAssumption
      <3> QED
        BY <1>1, <3>4 DEF IsScalar
    <2> QED
      BY <2>2, <2>3
  <1>2. rows \in Seq(Row(q)) /\ Len(rows) \in Nat
    BY DEF RowsOK
  <1>3. Len(Bindings) = Len(rows) /\ \A i \in 1 .. Len(rows) : Bindings[i] = rows[i].b
    BY <1>2 DEF Bindings
  <1>4. ASSUME NEW i \in 1 .. Len(rows), NEW v \in DOMAIN rows[i].b PROVE rows[i].b[v] \in AllValues
    <2>0. rows[i] \in Row(q)
      BY <1>2, ElementOfSeq
    <2>1. rows[i].b \in Binding(q, AllValues)
      BY <2>0 DEF Row
    <2> DEFINE x == rows[i].b
    <2> HIDE DEF x
    <2>2. x \in [DOMAIN x -> AllValues]
      BY <2>1, BindingIs DEF x
    <2> QED
      BY <2>2 DEF x
  <1> QED
    BY <1>1, <1>2, <1>3, <1>4 DEF MatchesTyped

----------------------------------------------------------------------------
(* What the reader promises.                                               *)

\* materializeDocIDSet inside every read: no commit between two transactions
\* of a call leaves an id of a bitmap without its document id.
THEOREM ReadsFindNoOrphan == ReadSpec => []NoOrphan
  <1>1. RInv => NoOrphan
    BY DEF RInv, LInv, NoOrphan
  <1> QED
    BY <1>1, ReadInvariance, PTL

\* The lookups of a read, the anchors of Query included, answer with exactly
\* the documents that matched at one moment of the call.
THEOREM ReadsAreExact == ReadSpec => []AnswerExact
  <1>1. RInv => AnswerExact
    BY DEF RInv, LInv
  <1> QED
    BY <1>1, ReadInvariance, PTL

\* SequenceJoin: the greedy walk finds a sequence in every log that has one
\* and returns one, and the answer reports every item that had the sequence
\* at every moment of the call and none that had it at no moment.
THEOREM JoinFindsSequences == ReadSpec => []SequencesFound
  <1>1. RInv => SequencesFound
    <2> SUFFICES ASSUME RInv, Answered("SequenceJoin")
                 PROVE  /\ \A f \in found :
                              /\ f.match # <<>> <=> HasSequence(f.log, ask.steps, ask.window)
                              /\ f.match # <<>> =>
                                    \E p \in [1 .. Len(ask.steps) -> 1 .. Len(f.log)] :
                                        /\ IsSequence(f.log, ask.steps, ask.window, p)
                                        /\ f.match = [i \in DOMAIN p |-> f.log[p[i]]]
                        /\ always \subseteq Reported /\ Reported \subseteq ever
      BY DEF SequencesFound, Reported
    <2>1. /\ \A f \in found : Walked(f)
          /\ always \subseteq Reported /\ Reported \subseteq ever
      BY DEF RInv, JoinInv, Answered
    <2> QED
      BY <2>1 DEF Walked, Finds
  <1> QED
    BY <1>1, ReadInvariance, PTL

\* ClusterQuery: the scan returns disjoint clusters in order, each within the
\* window, large enough and not extensible, and misses no crowd.
THEOREM ScanFindsClusters == ReadSpec => []ClustersFound
  <1>1. RInv => ClustersFound
    BY DEF RInv
  <1> QED
    BY <1>1, ReadInvariance, PTL

\* WindowQuery: the answer is exactly what the stored documents record about
\* the item, each document once and in time order, after any commits.
THEOREM WindowListsRecords == ReadSpec => []RecordsListed
  <1>1. RInv => RecordsListed
    BY DEF RInv
  <1> QED
    BY <1>1, ReadInvariance, PTL

\* Query under concurrent commits, for every query whose variables are bound
\* before they are used: the answer has each document that matched at every
\* moment of the call, none that matched at no moment, and none twice.  What
\* equals the literal of an anchor must have its text (TextsAgree).
THEOREM QueriesAnswer ==
    ASSUME TextsAgree
    PROVE  ReadSpec => []QueryAnswers
  <1>1. QueryInv => QueryAnswers
    <2> SUFFICES ASSUME QueryInv, Answered("Query"), Ordered(ask.where)
                 PROVE  /\ always \subseteq DocsOf(rows) /\ DocsOf(rows) \subseteq ever
                        /\ Cardinality(DocsOf(rows)) = Len(rows)
      BY DEF QueryAnswers, DocsOf
    <2>1. /\ RowsOK(ask.where, rows) /\ DocsOf(rows) \subseteq ever /\ KeepsAll
          /\ status = "OK"
      BY DEF QueryInv, Answered
    <2>2. always \subseteq DocsOf(rows)
      BY <2>1 DEF KeepsAll
    <2>3. Cardinality(DocsOf(rows)) = Len(rows)
      <3> DEFINE N == Len(rows)
                 D == DocsOf(rows)
                 f == [i \in 1 .. N |-> rows[i].doc]
      <3>1. N \in Nat /\ \A i, j \in 1 .. N : rows[i].doc = rows[j].doc => i = j
        BY <2>1 DEF RowsOK
      <3>2. /\ f \in [1 .. N -> D] /\ \A i, j \in 1 .. N : f[i] = f[j] => i = j
            /\ \A d \in D : \E i \in 1 .. N : f[i] = d
        BY <3>1 DEF DocsOf
      <3> HIDE DEF N, D, f
      <3>3. f \in Bijection(1 .. N, D)
        BY <3>2, Fun_IsBij
      <3>4. ExistsBijection(1 .. N, D)
        BY <3>3 DEF ExistsBijection
      <3>5. IsFiniteSet(1 .. N) /\ Cardinality(1 .. N) = N
        BY <3>1, FS_Interval
      <3>6. Cardinality(D) = N
        BY <3>4, <3>5, FS_Bijection
      <3> QED
        BY <3>6 DEF N, D
    <2> QED
      BY <2>1, <2>2, <2>3
  <1> QED
    BY <1>1, QueryInvariance, PTL

\* runQueryAggregates over the matches of a Query: one row per combination of
\* group-by values, with the count, sum, average, minimum and maximum of
\* exactly its members, when no two combinations share a text.
THEOREM AggregatesAreExact == ReadSpec => []AggregatesExact
  <1>1. QueryInv => AggregatesExact
    <2> SUFFICES ASSUME QueryInv, Answered("Query"), Unambiguous(Bindings, ask.groupBy)
                 PROVE  AggregateRows = Grouping(Bindings, ask.groupBy, ask.aggs)
      BY DEF AggregatesExact
    <2>1. Accepted(ask) /\ RowsOK(ask.where, rows)
      BY DEF QueryInv, Answered
    <2>2. MatchesTyped(Bindings) /\ ~decodeAggregatesFails(ask.aggs)
      BY <2>1, RowsTyped, AcceptedQuery
    <2> QED
      BY <2>2, AggregatesAgree DEF AggregateRows
  <1> QED
    BY <1>1, QueryInvariance, PTL
=============================================================================
