# TLA+ specifications of talon-db

talon-db is a document store on bbolt with seven secondary indexes, a vector
layer, a mutation-event feed and a gRPC sidecar. This directory holds TLA+
modules translated from the Go source, TLC configurations that check them on
small instances, and proofs that TLAPS checks for every value of the constants.
`PROJECT.json` maps every definition to the lines it stands for and lists runs,
mutants, findings, hazards and theorems.

    tlc -config store.cfg MCDocStore        # one run; PROJECT.json names each run's module
    tlapm DocStoreProofs.tla                # one proof module

## Inventory

| part (source) | state | operations | what is hard | modules |
|---|---|---|---|---|
| document store (`bboltstore/store.go`) | `docs`, `meta` buckets per entity | Put, BatchPut, Delete, Get, Scan | batches that fail half-way or are cancelled; crashes; events emitted after the lock is released | `DocStore`, `IndexHooks`, `AtomicStore` |
| id map (`idmap.go`) | docID → 32-bit id, its inverse, a counter | assign, lookup, reverse | counter wrap, ids that must survive deletion | `IdMap` |
| term extraction (`internal/index/terms.go`) | – | Extract | what counts as a term or a number | `Documents` |
| inverted index (`invindex.go`) | term → bitmap | add, remove, lookup, prefix lookup | differences of old and new terms | `InvertedIndex` |
| numeric index (`numidx.go`) | (attribute, value, id) keys | add, remove, range | several numbers under one path | `NumericIndex` |
| temporal index (`temporal.go`) | item → log of (time, type, doc) | add, remove, read | documents that change item, type or time | `TemporalIndex` |
| group-by index (`groupby.go`) | (item, attribute, value) → count, first, last, bitmap | add, remove, read | joined keys that coincide; time 0 | `GroupByIndex` |
| closure table (`closure.go`) | category → ancestor chain, descendant bitmap | add, remove, read | chains copied at put time; cycles; depth cap | `ClosureIndex` |
| running statistics (`stats.go`) | attribute → Welford aggregate, stale flag | add, mark stale, recompute on read | View then Update with writes in between | `StatsIndex`, `DocStore` |
| absence index (`absence.go`) | (item, type) → last time and its document | record, retract, lookup | the owner is overwritten or removed | `AbsenceIndex` |
| index maintenance (`indexhooks.go`) | – | indexDocOnPut, indexDocOnDelete | seven indexes in one transaction | `IndexHooks` |
| event emitter (`events.go`) | subscriber list | Subscribe, Emit, unsubscribe | snapshot of subscribers, emission outside the lock, several writers | `Feed`; emission as part of a write in `DocStore` |
| vector index (`vectorindex/index.go`) | (entity, scope) → graph, dimension, metric, tombstones | Insert, Delete, DropScope, Search, ListScopes | tombstones over a graph that cannot delete | `VectorIndex` |
| vector store (`bboltstore/vector.go`) | `vec_registry`, `vec_data` buckets, the index | VectorInsert, VectorDelete, VectorDropScope, rebuild | commit and index update under different locks; restart | `VectorStore` |
| index reads (`lookup.go`) | – | Lookup, LookupPrefix, LookupNumericRange, Descendants, GroupCount, WindowQuery, Stats, LastSeen, Ancestors | bitmap and ids are read in two transactions | `Lookups`, `Reads`; Stats in `DocStore` |
| composite queries (`query.go`, `aggregate.go`) | – | Query: anchors, candidates, clauses, roll-ups | one transaction per anchor and per candidate; evaluation order | `QueryEval`, `Reads` |
| sequence join, cluster query (`sequence.go`, `cluster.go`) | – | SequenceJoin, ClusterQuery | one transaction per item; greedy scans | `Timeline`, `Reads` |
| gRPC server (`grpcserver/`) | per-subscriber queue of 1024 | one handler per RPC, Subscribe | overflow of the queue, cancelled streams, refused requests | Subscribe in `Feed`, decoding and codes in `Reads` |
| server process (`cmd/talondb-server`) | listeners, phase of main | start, signal, graceful shutdown, close | calls and streams under way at a signal | `Server` |
| wire schema (`proto/`), conformance suite (`talondbtest/`) | – | – | – | not modelled |

A write calls `putInTxEvents` or the body of `Delete` inside `bolt.DB.Update`;
these call the index hooks in the same transaction. After the commit, and
outside the lock, the same goroutine calls `EventEmitter.Emit` for each event.
Reads use `bolt.DB.View`. `Stats` may follow its View with an Update. Vector
calls commit to their own buckets and then update the in-memory index. The
callback that Subscribe registers with the emitter runs in the writer's
goroutine and never blocks; the stream's own goroutine sends what is queued.

## Modules

**`Documents`** gives a document as the set of its scalar leaves (`Leaves`):
path, value, and whether the leaf is a top-level field. `ExtractTerms`,
`ExtractNumerics`, `ParseTemporal`, `ParseGroupBy` and `ParseParent` say what
`terms.go` and the parsers of the indexes take from it. Text is a sequence of
tokens, so that joining keys with `|` is modelled by what it does: two
different triples may give one key. JSON syntax is left out; a document that is
no JSON object, or is opaque, has no leaves.

**`IdMap`, `InvertedIndex`, `NumericIndex`, `TemporalIndex`, `GroupByIndex`,
`ClosureIndex`, `StatsIndex`, `AbsenceIndex`** hold one bucket family each: its
type, its empty value, the functions of the Go file as operators, and a
predicate that says when the index is right about given documents. Where the
code depends on Go's map order the operator returns the set of possible
results (`NewByPath`, `absenceRetract`). Operators marked "Wrong variant" are
the mutants of `PROJECT.json`.

**`IndexHooks`** puts the buckets together: `putInTx` and `deleteInTx` are the
sets of buckets that `putInTxEvents` and `Delete` may leave behind, `putFails`
the conditions under which the former returns an error: ids exhausted, a cycle
or too deep a chain, or a key bbolt refuses (empty, or too long).

**`DocStore`** is the state machine. `db` is what is committed, `work` the
buckets of the open write transaction, `writer` the holder of bbolt's write
lock, `writes` and `todo` the call's arguments and what is left of them, `evs`
the events gathered in the transaction, `out[c]` those a client has committed
and not emitted, `asking[c]` the attribute a Stats call found stale.

| action | code |
|---|---|
| `BeginPut`, `PutDoc`, `Commit` | Put, and BatchPut one document at a time in any order |
| `PutDocFails`, `CancelBatch`, `CommitFails` | the three ways an Update rolls back |
| `BeginDelete` | Delete up to its commit |
| `Emit` | one iteration of the emission loop |
| `StatsView`, `StatsUpdate`, `StatsFails` | the two transactions of statsRead |
| `Crash` | the process dies; bbolt keeps the committed buckets |

**`AtomicStore`** is the abstract specification: a call requests writes, which
are applied all at once or refused, and from then on the client owes exactly
the events that describe what the application replaced; a crash forgets calls
and owed events. `DocStore` maps `docs` to `db.docs`, `call` to the open
transaction's `writes`, and `owed` to the set of events in `out`.

**`VectorIndex`** has the methods of `vectorindex.Index` on one scope. A graph
is the vectors it holds by id. **`VectorStore`** is the state machine over the
registry, the data buckets, the index (`mem`), the `sync.Once` of the rebuild
(`load`) and each goroutine's committed call that is still to be mirrored
(`pending`). `BucketOf` is the bucket name of a scope; `Separate` says that no
two scopes share one. A vector's dimension is its length. `Search` takes as
many neighbours as the over-fetching of the code asks the graph for, in an
order of distance, and drops the tombstones.

**`Feed`** is the state machine of the event feed. A writing call (`pc`,
`batch`) commits under the write lock, then owes events: `out[c]` those whose
emission has not begun, `todo[c]` the callbacks of the current snapshot that
are still to run. A stream has its entry in `subs` at `idx`, a `queue` of
`QueueDepth`, and the event inside `stream.Send` in `sending`.

| action | code |
|---|---|
| `Call`, `Begin`, `Commit`, `Abort`, `Refuse`, `Return` | Put, BatchPut and Delete around `bolt.DB.Update` |
| `StartEmit`, `Callback` | Emit's snapshot; one subscriber callback: filter, then the non-blocking send |
| `Subscribe`, `Take`, `Send`, `Leave` | the Subscribe handler and its deferred unsubscribe |
| `Cancel` | the client cancels or disconnects |

`from`, `missed` and `raced` are history: the versions at registration, the
events dropped for a full queue, and the documents that were committed again
while another call was still emitting an earlier event of them.

**`Server`** puts `Feed` into the process: `phase` is where `main` is,
`accepting` and `announced` the listeners that serve and that were announced.
`Main` has the listeners in order, GracefulStop, Shutdown, the deferred
`store.Close` and the exit; the handlers of `Feed` run only while the process
lives and only for calls it accepts. GracefulStop and Shutdown are modelled
from how `main` uses them.

**`Lookups`** has the index reads that answer with documents: `View1` reads
the bitmap, `View2` resolves it (`materializeDocIDSet`), and `Write` commits a
whole put or delete in between. **`Timeline`** has `sequenceWalk` and
`clusterScan`, **`QueryEval`** the decoding of a query, the matching of its
clauses and the roll-ups, each beside a definition of what it is to compute
that follows another order. The clauses of a query are a table of clause
lists: list 1 is Where, and an Or or a Not has the numbers of the later lists
that are its branches or its body, so that what is a recursion over clauses in
the code is a recursion over list numbers (`Matcher`). Loops are functions of
the number of rounds (`Picked`, `Scanned`, `Merged`, `aggQuerySumOver`, ...).
`Matches` says what it is to match without an order: some valuation of the
variables satisfies every clause. The two agree on `Ordered` queries: a
predicate and the branches of an Or use variables that earlier patterns bind,
and what a nested list introduces is used nowhere before. **`Reads`** is the state machine of one read behind
its handler: a lookup; a Query that gathers candidates anchor by anchor
(`Gather`) and then reads them one by one (`Fetch`); a SequenceJoin that visits
items one by one (`WalkItem`); ClusterQuery and WindowQuery in one transaction;
refusals with their gRPC code (`Fail`), and a context that is done half-way
(`CancelRead`). `always` and `ever` are history: what satisfied the request at
every, and at some, moment since it began.

**`DocClaims`, `VectorClaims`, `ServerClaims`** state what comments say and the
code does not keep. **`MCDocStore`, `MCVectorStore`, `MCFeed`, `MCServer`,
`MCReads`** hold the corpora, vectors, filters, requests and symmetry sets of
the runs.

## What the runs check

Every run explores its whole state space.

| run | instance | shows |
|---|---|---|
| `store` | 3 documents, 2 goroutines, batches of 2, 2 ids, versions up to 2; contents empty, opaque, JSON, too long | `TypeOK`, `IdMapConsistent`, `DocsHaveMeta`, `IdsNeverReassigned`, and that the store implements `AtomicStore` |
| `indexes` | 2 documents, 1 goroutine; numbers, arrays of numbers, items, string and numeric times, coinciding group keys | `InvertedConsistent`, `NumericConsistent`, `TemporalConsistent`, `GroupsConsistent`, `GroupLastSeen`, `LastSeenKnown`, `LastSeenFollows` |
| `tree` | 3 categories that name each other or a missing one as parent; depth cap 2; batches of 2 | `ClosureConsistent` |
| `progress` | 2 documents, 2 goroutines, 1 id, fairness; one number, two under one path, an unnamed one | `StatsConsistent`, `LockReleased`, `EventsEmitted` |
| `vectors` | 2 scopes, 2 ids, 2 dimensions, 2 metrics, 2 goroutines | `VectorTypeOK`, `RebuildSucceeds`, `OneDimensionPerGraph`, `CountsAreLive`, `IndexFollows`, `SearchFindsNearest` |
| `feed` | 2 writers, 2 streams with different filters, 2 documents with 2 and 1 writes, queues of 1 | `FeedTypeOK`, `NothingSkipped`, `DeliveredOnce`, `InCommitOrder` |
| `server` | a gRPC and an HTTP writer, 1 stream, 3 listeners, queues of 1, fairness | `ServerTypeOK`, `NoCallCut`, `ClosedQuiet`, `CallsEnd`, `QueuedIsSent`, `SignalEnds` |
| `reads` | 3 documents, 5 contents, 3 commits before or during one read; 8 lookups, 10 queries, 10 temporal reads, refused ones among them | `NoOrphan`, `AnswerExact`, `QueryAnswers`, `AggregatesExact`, `SequencesFound`, `ClustersFound`, `RecordsListed` |

Bounds. `IdSpace` (2^32 in the code) is small enough that the counter wraps to
0 in `store` and `progress`. `closureMaxDepth` (256) is 2, so that chains of
three documents exceed it. `MaxVersion` bounds how often a document is
rewritten between deletes; a delete starts again at 0, so histories of any
length occur, and every rewrite of one content by another is possible.
`MaxBatch` bounds a call. `MaxKeySize` (32768 bytes) is small where a refused
key is wanted. One entity is enough, since the buckets of entities are
disjoint and one write lock serves all. Three documents let two members share
an index entry while a third joins or leaves. Symmetry over documents is used
only where no content names a document, and in no liveness run.
`QueueDepth` (1024) is 1, so that a second event already overflows; in `feed`
and `server` the `MaxVersion` of a document bounds its writes, and two writes
of one document suffice for events of it to overtake each other. In `reads`,
`MaxWrites` lets three commits fall before, between and after the transactions
of a read: enough to store, change and remove a candidate, and to hold a log of
three events. A read leaves nothing behind, so one per behaviour is enough.

Fairness (`progress`). `WF(TxStep)`: a goroutine inside `Update` keeps running
and ends by commit or error. `WF(Emit(c))`: the emission loop of a goroutine
keeps running; it takes no lock. Nothing obliges clients to make calls, and
crashes are not fair.

Fairness (`server`). `WF(Main)`, `WF(Run(c))`, `WF(Forward(s))`: goroutines that
can run do run; for `main` this includes that Shutdown returns after five
seconds. `SF(Lock(c))`: a goroutine that waits for bbolt's write lock gets it,
because Go's mutex hands over to a waiter that has waited for a millisecond.
Nothing is assumed of clients, signals, or of `Send`, which waits for the
client: `QueuedIsSent` has the reading client as a premise, `SignalEnds` that
the streams leave.

### Where the code and its comments disagree

| run | what TLC shows |
|---|---|
| `claim_stats` | a new document with two numbers under one path adds one of them to an aggregate that is not marked stale |
| `claim_vector_index` | two inserts of one id are committed in one order and mirrored in the other; search then works on the vector the bucket no longer has, until a restart |
| `claim_overflow` | an event is dropped for a full queue and the next one is delivered: the stream is not closed, and the client does not learn of the gap |
| `claim_shutdown` | a client that stays subscribed keeps GracefulStop waiting for ever: its stream does not end when the server shuts down |

Differences that have no run:

- `LastSeen` is not recomputed when the record that owns the time is
  overwritten (`absence.go:53`, `indexhooks.go:135`; `talondbtest/indexed.go:36`
  says max over the documents). Moved to another item or type, the record
  leaves its old cell at the old time; moved to an earlier time, it takes the
  cell back to that time even if another record is later.
- Ancestor chains are copied at put time (`closure.go:58`); re-parenting a
  category leaves the chains below it as they were.
- A group member without a time sets `FirstSeen` to 0, which the next dated
  member takes for unset (`groupby.go:106`).
- Scopes (a, b:c) and (a:b, c) share the bucket `vec_data:a:b:c`; once it holds
  two dimensions the rebuild after a restart fails (`vector.go:139`).
- Deleting a stored empty document commits the removal without a Retract event,
  because snappy decodes it to nil (`store.go:163`); `AtomicStore` describes
  what happens.
- After a restart a registered scope without vectors is missing from
  VectorListScopes (`vector.go:76`).
- WindowQuery does not look at its window; the `Entity` of a query pattern is
  not looked at either (`query.go:39`). Bounds that are NaN or infinite are
  refused by the store with a plain error (`numidx.go:93`), where
  `indexed.go:107` promises `ErrInvalidValue`; the gRPC handler refuses them
  itself (`server.go:99`).
- The answers of the lookups are sorted by internal id, not by document id
  (`lookup.go:245`).
- The HTTP listener is announced as ready before it is bound (`main.go:254`),
  and a port that is taken leaves the process running without it. The HTTP
  routes lack SequenceJoin, ClusterQuery, Query, Subscribe and the vector
  calls, and answer 500 for every error (`main.go:151`).
- An anchor of a query is found by the text of its literal and matched by
  value: -0 and 0 are equal and have different texts (`query.go:363`). The
  hypothesis `TextsAgree` of `QueriesAnswer` excludes this.

`LastSeenFollows` is the positive side of the first difference: commits that add or
remove records, empty them, or move them forward in time within their cell
keep the cell at the latest record and its owner right. `IndexFollows` is that
of `claim_vector_index`: as long as the calls on a scope do not overlap, its
index entry, with the one pending call applied, is what the buckets say.

## What is proved

`DocStoreProofs`, `RefinementProofs`, `VectorProofs`, `FeedProofs`,
`LookupProofs` and `ReadProofs` prove, for every value of the constants, every
safety and action property of the passing runs. `IndexProofs` holds the lemmas
about the operators of the indexes, `EvalProofs` those about the loops and
recursions of the reads.

Assumptions, each named where its constant is declared: `IdSpace` and the
bounds are natural numbers, the special values (`Absent`, `Keep`, `NoClient`,
`NotATime`, `NoMeta`, ...) are none of the values they stand beside, leaves
have the shape `Documents` gives them, documents and vector ids are finite
sets, vectors are non-empty sequences, queues have room for an event, calls
have the parameters of their kind and a query's lists form a tree. TLC
evaluates them in every run. The theorems of `LookupProofs` also assume of the
requests that they have the fields of their kind and finite bounds
(`WellFormed`), which the handlers ensure. `QueriesAnswer` has the hypothesis
`TextsAgree`: what equals an anchor's literal by value has its text. The code
does not ensure it for -0 and 0; `MCReads` assumes it of its corpus, where TLC
evaluates it.

*Document store.* The properties speak of committed buckets, but a commit
publishes `work`, so the inductive invariant (`Inv`) says the same of both.
`BucketsOK` joins the consistency predicates of all buckets: most of them are
not inductive alone, because index entries are keyed by internal ids and only
the id map's bijection (`IdMapOK`) and `Stored` (a stored document has an id)
tell the entries of two documents apart. `TxShape` adds what the transaction
variables may be: no writer, no work in progress; and ids only ever grow from
`db` to `work` (`IdsGrow`), which gives `IdsNeverReassigned` at the commit.
`ReindexPreserves` shows that `Reindexed` re-establishes every predicate for
the changed document and leaves it for the others; `PutPreserves`,
`DropPreserves` and `DeletePreserves` apply it, and `NextInv` has one step per
action. `LastSeenStaysFollowed` is about a commit as a whole, so `DocStoreProofs`
carries through the transaction that `work` follows `db` as a commit now would
(`SeenInv`).

*Refinement.* `Progress` relates the open transaction to its request: a
document not in `todo` has its new content in `work`, the others their old one,
and `evs` announces exactly the written ones, each once. `NextRefines` shows that
`Begin*` is an atomic `Request`, `Commit` an `Apply`, a rollback a `Refuse`,
`Emit` a `Deliver`, and everything else a stutter.

*Vector layer.* `VInv` adds to the properties that a tombstone hides an id of
its graph, that with separate bucket names the registered dimension is that of
every vector in the bucket and an unregistered scope has an empty bucket (so
that the rebuild can decode it), and that no call is pending before the
rebuild. `IndexStaysInStep` has one lemma per action: a committed call on a
scope without another pending call turns "in step" into "in step once
applied", mirroring turns it back, and steps on other scopes change neither.

`SearchFindsNearest` needs more than the invariant: whatever the order of
distances, `k` neighbours and as many more as there are tombstones are
fetched. Exactly `m` ids have a rank up to `m` (`RankCount`), so at most the
extra ones are lost to the filter, and `k` live ones or all there are remain.

*Event feed and server.* `NothingSkipped` is not inductive: an event under
emission may belong to a snapshot that was taken before the stream registered.
`Covered` therefore says where an event is that a given stream is due: not yet
begun (`out`), or in a snapshot as an entry of that stream (`todo`). That
StartEmit turns the first into the second needs `Registered` (an open stream
has its entry in `subs`, and one only); that a callback delivers an event once
needs `OneEach` (a snapshot names a stream once), `Apart` (no two calls owe the
same event, since versions are new at the commit) and `NotYet` (what is still
owed has not been got). Commit order needs `Latest`: the event a call owes is
that of the latest write, unless the document raced. What a stream has got
(`Got`) changes in a callback only (`GotKept`): taking an event out of the
queue and sending it moves it within the sequence. `ServerStepIsFeedStep` shows
that every step of the process is a step of the feed or leaves it alone, so all
of this holds of the server (`ServerIsFeed`); `Shutdown` adds that the
listeners are closed before `main` waits, hence no call can enter after the
wait is over.

*Index reads.* `BitmapResolves` shows for each kind of read that its bitmap is
the ids of exactly the documents that the request asks for, from the
consistency of the index (`BucketsOK`) and of the id map. `Resolvable` carries
this from the first transaction to the second: commits in between keep
`BucketsOK` (`PutPreserves`, `DeletePreserves`) and never reassign an id
(`IdsGrow`).

*Loops and recursions.* A function defined by recursion is a CHOOSE until
there is a function that satisfies its equation. `Recursion` (from 0 up) and
`DownRecursion` (from the last list to the first, where each depends on later
ones) give one, by induction over numbers, which `SetInduction` obtains from
the well-founded minimum of `WellFoundedInduction`. Each loop then has a table
lemma that it runs round by round (`PickedTable`, `ScannedTable`, `WalkTable`,
`MatcherTable`, `SumTable`, `FilterTable`, `MergeTable`, ...), and its
invariant is carried along the rounds:

- `WalkFinds`: the greedy walk from the first event of a sequence takes each
  step no later than the sequence does (`PickedGreedy`), so that in a sorted log
  it ends no later and stays within the window.
- `ScanFinds`: with the clusters found so far, every crowd that ends before the
  next start meets one of them (`ScanOK`).
- `MatcherAgrees`: for each list, every binding the loops return extends to a
  valuation that satisfies it (`Sound`), and every valuation that satisfies it is
  met by a returned binding with equal values (`Complete`). Equal, not
  identical: a variable keeps the first value it was bound to. Both are proved
  per clause (`ClausesAgree`), then per list, then from the last list to the
  first; here `Ordered` is needed.
- `AggregatesAgree`: a running sum is the sum over the set of positions
  (`SumIsSum`), a running extreme the extreme, and groups told apart by their
  text are groups of equal columns when the text is unambiguous.
- `MergeIntersects`: the merge of two sorted candidate lists is sorted and has
  exactly their common documents (`MergeOK`).

*Reads.* `RInv` joins the invariant of the lookups, where the reader is
(`ReadShape`), that the history is about the documents as they are
(`History`), and what SequenceJoin has found so far (`JoinInv`: an item that had the
sequence throughout is still to be visited or reported). `QueryInv` does the
same for Query. `KeepsAll`: what matched throughout is among what the current
lookup matched, in every candidate list, and later still to be fetched or in
the answer. The first of these is `AnchorFound`: a document that matches has the
anchor's attribute, hence, by `TextsAgree`, is indexed under the anchor's term.
A fetched document becomes a row exactly if it matches at that moment
(`MatcherRows`), so rows are about documents in `ever`; candidates are sorted
and distinct, so no document comes twice.

Only model-checked: the liveness properties (`LockReleased`, `EventsEmitted`,
`CallsEnd`, `QueuedIsSent`, `SignalEnds`), which need fairness and ENABLED, out
of this prover's reach; and the violations.

## Abstractions and what is left out

- Times and numbers are integers: float rounding, the conversion of JSON
  numbers and RFC 3339 times to nanoseconds, and their overflow are not
  modelled. A Stats aggregate is the multiset of values added to it.
- Errors from decoding corrupt buckets are left out: no action of the code
  writes them.
- The two timestamps in `docMeta` are written and never read.
- bbolt is modelled as a write lock with a private copy and atomic commit;
  snappy as the identity except for the empty document; roaring bitmaps as
  sets; the hnsw graph as its vectors. `Graph.Delete` is used by `Insert` to
  replace an id although a comment says that it breaks later searches; what
  happens inside the library is not in the repository.
- Calls that fail validation or find their context cancelled before they open
  a transaction change nothing and are no steps.
- Text is tokens: prefix, suffix, infix and lower-casing work on tokens. A
  query's attributes are scalars; arrays and objects as values are left out, and
  with them the comparison of two such values, which panics in Go
  (`query.go:457`).
- The items of a SequenceJoin are a set: an item named twice is reported twice by
  the code. `sort.Slice` is not stable, so entries of equal time come in any
  order.
- The hnsw search is taken to be exact; what it misses is the library's.
- An event whose `Send` failed stays in `sending`; nothing reads it any more.
- Not modelled: the wire schema (generated), the conformance suite (tests; its
  statements are compared with the code above), flag parsing, the JSON of the
  HTTP routes, and handlers that only copy fields between messages.

## Plan

1. *Done:* document store, indexes, atomic specification, vector layer, event
   feed, server process, index reads, composite and temporal reads; proofs of
   all their safety and action properties.
2. *Left:* an abstract specification of the reads with `Reads` as its
   refinement; `WellFormed` of `LookupProofs` as a consequence of the refusals in
   `Reads` alone; a `Reads` instance with numbers that have two texts, once the
   code says which it wants.
