------------------------------- MODULE Reads -------------------------------
(***************************************************************************)
(* The reads that are made of several read transactions: Query             *)
(* (bboltstore/query.go behind grpcserver/query.go) and SequenceJoin       *)
(* (bboltstore/sequence.go), next to ClusterQuery, WindowQuery and the     *)
(* lookups of Lookups, which Query uses for its anchors; each behind its   *)
(* gRPC handler.  One reader runs while writers commit between its         *)
(* transactions.                                                           *)
(***************************************************************************)
EXTENDS Lookups, QueryEval, Timeline

CONSTANTS
    Calls,      \* the composite reads clients ask for, as they arrive
    DocOrder    \* all document ids in byte order

ASSUME DocOrderAssumption ==
    /\ DocOrder \in Seq(DocID)
    /\ \A i, j \in 1 .. Len(DocOrder) : DocOrder[i] = DocOrder[j] => i = j
    /\ {DocOrder[i] : i \in 1 .. Len(DocOrder)} = DocID

ASSUME CallsAssumption ==
    /\ Calls # {}
    /\ \A w \in Calls :
          \/ w.call = "Query" /\ DOMAIN w = {"call", "entity", "where", "aggs", "groupBy"}
                /\ IsQuery(w.where)
          \/ w.call = "SequenceJoin" /\ w.window \in Int
                /\ w.steps \in Seq({w.steps[i] : i \in DOMAIN w.steps})
          \/ w.call = "ClusterQuery" /\ w.window \in Int /\ w.minSize \in Int
          \/ w.call = "WindowQuery"

VARIABLES
    job,        \* where the call is: "idle", "gather", "fetch", "items"
    ask,        \* the call, decoded
    todo,       \* Query: anchors to look up, then candidates to fetch
    cands,      \* Query: candidates so far (<<>> before the first anchor)
    rows,       \* Query: the matches, [doc, b]
    items,      \* SequenceJoin: items to visit
    found,      \* SequenceJoin, ClusterQuery, WindowQuery: [item, log, match]
    status,     \* the gRPC code of the answer, "" before it
    always,     \* history: what satisfied the call at every moment so far
    ever        \* history: what satisfied it at some moment

call == <<job, ask, todo, cands, rows, items, found, status>>
readVars == <<lookupVars, call, always, ever>>

----------------------------------------------------------------------------
(* Candidates.                                                             *)

\* The elements of s in T, in their order.
Filter(s, T) ==
    LET kept[i \in 0 .. Len(s)] ==
            IF i = 0 THEN <<>>
            ELSE IF s[i] \in T THEN Append(kept[i - 1], s[i]) ELSE kept[i - 1]
    IN  kept

IsAnchor(c) == c.kind = "pattern" /\ c.attr # <<>> /\ IsLiteral(c.value)
collectQueryAnchors(clauses) ==
    Filter(clauses, {clauses[i] : i \in {j \in 1 .. Len(clauses) : IsAnchor(clauses[j])}})[Len(clauses)]

composeQueryTerm(p) == p.attr \o <<":">> \o p.value.lit.text
AnchorLookup(p) == [op |-> "Lookup", term |-> composeQueryTerm(p)]

docIDSetToSorted(set) == Filter(DocOrder, set)[Len(DocOrder)]

Position(d) == CHOOSE i \in 1 .. Len(DocOrder) : DocOrder[i] = d
Before(d, e) == Position(d) < Position(e)

\* The state of the merge after n rounds.
Merged(a, b) ==
    LET merge[n \in 0 .. Len(a) + Len(b)] ==
            IF n = 0 THEN [i |-> 1, j |-> 1, out |-> <<>>]
            ELSE LET m == merge[n - 1] IN
                 IF m.i > Len(a) \/ m.j > Len(b) THEN m
                 ELSE IF Before(a[m.i], b[m.j]) THEN [m EXCEPT !.i = @ + 1]
                 ELSE IF Before(b[m.j], a[m.i]) THEN [m EXCEPT !.j = @ + 1]
                 ELSE [i |-> m.i + 1, j |-> m.j + 1, out |-> Append(m.out, a[m.i])]
    IN  merge

intersectSortedQueryIDs(a, b) == Merged(a, b)[Len(a) + Len(b)].out

----------------------------------------------------------------------------
(* What a call is about at one moment: the documents that match, the items *)
(* whose log contains the sequence (in every, in some order of ties).      *)

Records(b, i, types) == IF i \in Item THEN temporalRead(b.temp, i, types) ELSE {}
Log(b, i) == Records(b, i, {})
Visited(b, w) == IF w.items # {} THEN w.items ELSE {i \in Item : b.temp[i] # {}}

Surely(b, w) ==
    CASE w.call = "Query" ->
            {d \in DocID : Matches(w.where, Attrs(b.docs[d]), parseQueryRecordID(d))}
      [] w.call = "SequenceJoin" ->
            {i \in Visited(b, w) :
                \A q \in SortedLogs(Log(b, i)) : HasSequence(q, w.steps, w.window)}
      [] OTHER -> {}

Possibly(b, w) ==
    CASE w.call = "SequenceJoin" ->
            {i \in Visited(b, w) :
                \E q \in SortedLogs(Log(b, i)) : HasSequence(q, w.steps, w.window)}
      [] OTHER -> Surely(b, w)

NoCall == [call |-> "none"]

ReadInit ==
    /\ LookupInit
    /\ job = "idle"
    /\ ask = NoCall
    /\ todo = <<>>
    /\ cands = <<>>
    /\ rows = <<>>
    /\ items = {}
    /\ found = {}
    /\ status = ""
    /\ always = {}
    /\ ever = {}

\* Bound: one read in a behaviour, begun after any number of commits.
Idle == job = "idle" /\ stage = "idle" /\ status = ""
Finished == status # ""

\* A writer commits; the history follows the call that is under way.
WriteBetween ==
    /\ ~Finished /\ Write
    /\ always' = IF job = "idle" THEN always ELSE always \cap Surely(db', ask)
    /\ ever' = IF job = "idle" THEN ever ELSE ever \cup Possibly(db', ask)
    /\ UNCHANGED call

----------------------------------------------------------------------------
(* Requests that are refused, and the code of an answer.                   *)

validateEntityID(e) == e # <<>> /\ \A i \in 1 .. Len(e) : e[i] # ":"

mapError(err) ==
    CASE err \in {"ErrInvalidEntityID", "ErrInvalidValue"} -> "InvalidArgument"
      [] err = "ErrNotFound" -> "NotFound"
      [] OTHER -> "Internal"

\* The handler of Query decodes before the store looks at the entity; the
\* one of LookupNumericRange refuses a bound that is NaN or infinite.
Refused(w) == ~Decodable(w.where) \/ decodeAggregatesFails(w.aggs)
BadBound(r) == r.op = "LookupNumericRange" /\ ~({r.min, r.max} \subseteq Int)

LookupError(r) ==
    IF BadBound(r) THEN "InvalidArgument"
    ELSE IF ~validateEntityID(r.entity) THEN mapError("ErrInvalidEntityID") ELSE ""

CallError(w) ==
    IF w.call = "Query" /\ Refused(w) THEN "InvalidArgument"
    ELSE IF ~validateEntityID(w.entity) THEN mapError("ErrInvalidEntityID")
    ELSE IF w.call = "Query" /\ collectQueryAnchors(decodeQueryClauses(w.where)[1]) = <<>>
    THEN mapError("no anchor")
    ELSE ""

Fail(code) ==
    /\ Idle /\ code # ""
    /\ status' = code
    /\ UNCHANGED <<lookupVars, job, ask, todo, cands, rows, items, found, always, ever>>

\* A lookup on its own, and the answer to it.
Lookup(r) ==
    /\ Idle /\ LookupError(r) = ""
    /\ Ask(r)
    /\ UNCHANGED <<call, always, ever>>

LookupView == status = "" /\ (View1 \/ View2) /\ UNCHANGED <<call, always, ever>>

Respond ==
    /\ job = "idle" /\ status = "" /\ stage \in {"done", "failed"}
    /\ status' = IF stage = "done" THEN "OK" ELSE mapError("orphan")
    /\ UNCHANGED <<lookupVars, job, ask, todo, cands, rows, items, found, always, ever>>

----------------------------------------------------------------------------
(* Query.                                                                  *)

\* Query needs an anchor and looks up the first.
StartQuery(w) ==
    /\ Idle /\ w.call = "Query" /\ CallError(w) = ""
    /\ LET where == decodeQueryClauses(w.where)
           anchors == collectQueryAnchors(where[1])
       IN  /\ ask' = [w EXCEPT !.where = where]
           /\ todo' = Tail(anchors)
           /\ Ask(AnchorLookup(Head(anchors)))
    /\ job' = "gather"
    /\ always' = Surely(db, ask')
    /\ ever' = always'
    /\ UNCHANGED <<cands, rows, items, found, status>>

\* One round of gatherQueryCandidates, after its Lookup has returned.
Gather ==
    /\ job = "gather" /\ stage \in {"done", "failed"}
    /\ LET got == docIDSetToSorted(answer)
           cs == IF cands = <<>> THEN got ELSE intersectSortedQueryIDs(cands, got)
       IN  CASE stage = "failed" ->
                    /\ job' = "idle" /\ status' = mapError("orphan")
                    /\ UNCHANGED <<lookupVars, todo, cands>>
             [] stage = "done" /\ cs = <<>> ->
                    /\ job' = "idle" /\ status' = "OK"
                    /\ UNCHANGED <<lookupVars, todo, cands>>
             [] stage = "done" /\ cs # <<>> /\ todo # <<>> ->
                    /\ cands' = cs
                    /\ todo' = Tail(todo)
                    /\ Ask(AnchorLookup(Head(todo)))
                    /\ UNCHANGED <<job, status>>
             [] OTHER ->
                    /\ job' = "fetch"
                    /\ todo' = cs
                    /\ UNCHANGED <<lookupVars, cands, status>>
    /\ UNCHANGED <<ask, rows, items, found, always, ever>>

\* The next candidate is read in a transaction of its own and matched; a
\* document that is gone has no fields.
Fetch ==
    /\ job = "fetch"
    /\ LET d == Head(todo)
           id == parseQueryRecordID(d)
           attrs == Attrs(db.docs[d])
           m == Matcher(ask.where, attrs, Values(attrs, id))[1][Start(id)]
       IN  IF m = {} THEN UNCHANGED rows
           ELSE \E b \in m : rows' = Append(rows, [doc |-> d, b |-> b])
    /\ todo' = Tail(todo)
    /\ IF todo' = <<>> THEN job' = "idle" /\ status' = "OK" ELSE UNCHANGED <<job, status>>
    /\ UNCHANGED <<lookupVars, ask, cands, items, found, always, ever>>

\* The roll-up of the matches.
Bindings == [i \in 1 .. Len(rows) |-> rows[i].b]
AggregateRows == runQueryAggregates(Bindings, ask.groupBy, ask.aggs)

----------------------------------------------------------------------------
(* SequenceJoin, ClusterQuery and WindowQuery.                             *)

\* The items are the ones asked for, or every item with a log.
StartSequence(w) ==
    /\ Idle /\ w.call = "SequenceJoin" /\ CallError(w) = ""
    /\ ask' = w
    /\ always' = Surely(db, w) /\ ever' = Possibly(db, w)
    /\ items' = IF w.steps = <<>> THEN {} ELSE Visited(db, w)
    /\ IF items' = {} THEN status' = "OK" /\ UNCHANGED job
                      ELSE job' = "items" /\ UNCHANGED status
    /\ UNCHANGED <<lookupVars, todo, cands, rows, found>>

\* One item's log is loaded in a transaction of its own.
WalkItem(i) ==
    /\ job = "items" /\ i \in items
    /\ \E log \in SortedLogs(Log(db, i)) :
          found' = found \cup {[item |-> i, log |-> log,
                                match |-> sequenceWalk(log, ask.steps, ask.window)]}
    /\ items' = items \ {i}
    /\ IF items' = {} THEN job' = "idle" /\ status' = "OK" ELSE UNCHANGED <<job, status>>
    /\ UNCHANGED <<lookupVars, ask, todo, cands, rows, always, ever>>

ClusterQuery(w) ==
    /\ Idle /\ w.call = "ClusterQuery" /\ CallError(w) = ""
    /\ ask' = w
    /\ \E log \in SortedLogs(Records(db, w.item, w.types)) :
          found' = {[item |-> w.item, log |-> log,
                     match |-> clusterScan(log, w.window, w.minSize)]}
    /\ status' = "OK"
    /\ UNCHANGED <<lookupVars, job, todo, cands, rows, items, always, ever>>

\* The window is not looked at.
WindowQuery(w) ==
    /\ Idle /\ w.call = "WindowQuery" /\ CallError(w) = ""
    /\ ask' = w
    /\ \E log \in SortedLogs(Records(db, w.item, w.types)) :
          found' = {[item |-> w.item, log |-> log, match |-> log]}
    /\ status' = "OK"
    /\ UNCHANGED <<lookupVars, job, todo, cands, rows, items, always, ever>>

\* The context is done when the next Lookup of a Query or the next item of a
\* SequenceJoin begins: what was gathered so far is thrown away.
CancelRead ==
    /\ job = "items" \/ (job = "gather" /\ stage = "view1")
    /\ job' = "idle" /\ status' = mapError("context canceled")
    /\ UNCHANGED <<lookupVars, ask, todo, cands, rows, items, found, always, ever>>

\* The matches in the answer to a SequenceJoin.
SequenceMatches == {f \in found : f.match # <<>>}

ReadNext ==
    \/ WriteBetween
    \/ LookupView
    \/ Respond
    \/ \E r \in Request : Lookup(r) \/ Fail(LookupError(r))
    \/ \E w \in Calls :
          StartQuery(w) \/ StartSequence(w) \/ ClusterQuery(w) \/ WindowQuery(w) \/ Fail(CallError(w))
    \/ Gather
    \/ Fetch
    \/ \E i \in items : WalkItem(i)
    \/ CancelRead

ReadSpec == ReadInit /\ [][ReadNext]_readVars

----------------------------------------------------------------------------
(* Properties.                                                             *)

\* An anchor is looked up by the text of its literal and matched by value: what
\* equals it under its key has its text (in Go: unless one is -0).
TextsAgree ==
    \A w \in {v \in Calls : v.call = "Query"} : \A i \in 1 .. Len(w.where[1]) :
        LET p == decodeQueryClause(w.where[1][i]) IN
        IsAnchor(p) => \A c \in Content : \A a \in Attrs(c) :
            a.key = p.attr /\ equalQueryValues(a.val, p.value.lit) => a.val.text = p.value.lit.text

Answered(c) == status = "OK" /\ job = "idle" /\ ask.call = c

\* Query gathers candidates and reads them in different transactions: while
\* writers commit, a document that matches throughout is returned, one that
\* matches at no moment is not, and none is returned twice.
QueryAnswers ==
    Answered("Query") /\ Ordered(ask.where) =>
        LET docs == {rows[i].doc : i \in 1 .. Len(rows)} IN
        /\ always \subseteq docs /\ docs \subseteq ever
        /\ Cardinality(docs) = Len(rows)

\* runQueryAggregates: one row per combination of group-by values with the
\* roll-ups of exactly its members, unless two combinations have one text.
AggregatesExact ==
    Answered("Query") /\ ask.aggs # <<>> /\ Unambiguous(Bindings, ask.groupBy) =>
        AggregateRows = Grouping(Bindings, ask.groupBy, ask.aggs)

\* sequenceWalk is greedy and starts at the first event that fits: it still
\* finds a sequence in every log that has one, and what it returns is one;
\* and SequenceJoin, which reads item by item, reports every item that has
\* the sequence throughout and none that never has it.
SequencesFound ==
    Answered("SequenceJoin") =>
        /\ \A f \in found :
              /\ f.match # <<>> <=> HasSequence(f.log, ask.steps, ask.window)
              /\ f.match # <<>> =>
                    \E p \in [1 .. Len(ask.steps) -> 1 .. Len(f.log)] :
                        /\ IsSequence(f.log, ask.steps, ask.window, p)
                        /\ f.match = [i \in DOMAIN p |-> f.log[p[i]]]
        /\ LET reported == {f.item : f \in SequenceMatches}
           IN  always \subseteq reported /\ reported \subseteq ever

\* ClusterQuery: the greedy scan of clusterScan returns disjoint clusters in
\* order, each within the window, large enough and not extensible, and misses
\* no crowd: minSize events within the window share one with some cluster.
ClustersFound ==
    Answered("ClusterQuery") =>
        \A f \in found :
            IsClustering(f.log, ask.window, AtLeastOne(ask.minSize), f.match)

\* WindowQuery: the answer lists exactly the stored documents that record
\* something of an asked type about the item, each once and in time order.
RecordsListed ==
    Answered("WindowQuery") =>
        \A f \in found :
            /\ {f.match[i] : i \in 1 .. Len(f.match)} =
                  UNION {{[at |-> r.at, type |-> r.type, doc |-> d] :
                            r \in {q \in temporalFields(db.docs[d]) :
                                     /\ q.item = ask.item
                                     /\ ask.types = {} \/ q.type \in ask.types}} : d \in DocID}
            /\ \A i, j \in 1 .. Len(f.match) :
                  i < j => f.match[i].doc # f.match[j].doc /\ f.match[i].at <= f.match[j].at
============================================================================
