------------------------------ MODULE DocStore ------------------------------
(***************************************************************************)
(* bboltstore/store.go: clients call Put, BatchPut, Delete and Stats on    *)
(* one Store.  bolt.DB.Update gives a writer the only write lock and a     *)
(* private copy of the buckets, which replaces the committed ones when it  *)
(* commits; bolt.DB.View reads the committed buckets.  Events are emitted  *)
(* after the commit, outside the lock, one callback at a time.  The        *)
(* process can crash at any step and restart on the committed buckets.     *)
(***************************************************************************)
EXTENDS IndexHooks

CONSTANTS
    Client,         \* goroutines that call the store
    NoClient,       \* the write lock is free
    Keep,           \* a document a call does not write
    MaxVersion,     \* bound: a call rewrites a document below this version
    MaxBatch        \* bound: documents in one call

ASSUME ClientAssumption ==
    /\ NoClient \notin Client
    /\ Keep \notin Content \cup {Absent}
    /\ MaxVersion \in Nat
    /\ MaxBatch \in Nat

VARIABLES
    db,         \* committed buckets
    writer,     \* the client that holds the write lock
    work,       \* buckets as the open write transaction sees them
    writes,     \* what the open transaction was asked to write
    todo,       \* documents of it not yet written
    evs,        \* events to emit once it commits
    out,        \* per client, committed events not yet emitted
    asking      \* per client, the attribute a Stats call found stale

vars == <<db, writer, work, writes, todo, evs, out, asking>>

NoWrites == [d \in DocID |-> Keep]

Written(w) == {d \in DocID : w[d] # Keep}

\* No call of this client is under way.
Ready(c) == writer # c /\ out[c] = <<>> /\ asking[c] = {}

Init ==
    /\ db = EmptyBuckets
    /\ writer = NoClient
    /\ work = EmptyBuckets
    /\ writes = NoWrites
    /\ todo = {}
    /\ evs = <<>>
    /\ out = [c \in Client |-> <<>>]
    /\ asking = [c \in Client |-> {}]

----------------------------------------------------------------------------
\* Put (one document) and BatchPut (any set, possibly empty) open an Update.
BeginPut(c) ==
    /\ writer = NoClient /\ Ready(c)
    /\ \E w \in [DocID -> Content \cup {Keep}] :
          /\ Cardinality(Written(w)) <= MaxBatch
          /\ \A d \in Written(w) : db.meta[d] < MaxVersion
          /\ writes' = w
          /\ todo' = Written(w)
    /\ writer' = c
    /\ work' = db
    /\ evs' = <<>>
    /\ UNCHANGED <<db, out, asking>>

\* The documents of a batch are written in Go's map order: any order.
PutDoc(d) ==
    /\ d \in todo
    /\ ~putFails(work, d, writes[d])
    /\ work' \in putInTx(work, d, writes[d])
    /\ evs' = Append(evs, putEvent(work, d, writes[d]))
    /\ todo' = todo \ {d}
    /\ UNCHANGED <<db, writer, writes, out, asking>>

\* The function passed to Update returns an error, or Update itself does:
\* the working copy and its events are dropped.
Rollback ==
    /\ writer' = NoClient
    /\ work' = db
    /\ writes' = NoWrites
    /\ todo' = {}
    /\ evs' = <<>>
    /\ UNCHANGED <<db, out, asking>>

PutDocFails(d) ==
    /\ d \in todo
    /\ putFails(work, d, writes[d])
    /\ Rollback

\* Wrong variant: a cancelled batch keeps what it has written so far.
CancelBatchCommits ==
    /\ todo # {}
    /\ db' = work
    /\ out' = [out EXCEPT ![writer] = evs]
    /\ writer' = NoClient /\ writes' = NoWrites /\ todo' = {} /\ evs' = <<>>
    /\ UNCHANGED <<work, asking>>

\* BatchPut looks at its context before every document.
CancelBatch == todo # {} /\ Rollback

\* Delete opens an Update of its own.
BeginDelete(c, d) ==
    /\ writer = NoClient /\ Ready(c)
    /\ writer' = c
    /\ writes' = [NoWrites EXCEPT ![d] = Absent]
    /\ work' \in deleteInTx(db, d)
    /\ todo' = {}
    /\ evs' = deleteEvents(db, d)
    /\ UNCHANGED <<db, out, asking>>

Commit ==
    /\ writer # NoClient /\ todo = {}
    /\ db' = work
    /\ out' = [out EXCEPT ![writer] = evs]
    /\ writer' = NoClient
    /\ writes' = NoWrites
    /\ evs' = <<>>
    /\ UNCHANGED <<work, todo, asking>>

\* bbolt could not write its pages.
CommitFails == writer # NoClient /\ todo = {} /\ Rollback

\* Wrong variant: emission waits for the write lock to be free.
EmitWhenIdle(c) ==
    /\ out[c] # <<>> /\ writer = NoClient
    /\ out' = [out EXCEPT ![c] = Tail(@)]
    /\ UNCHANGED <<db, writer, work, writes, todo, evs, asking>>

\* EventEmitter.Emit: one event to every subscriber, then the next.
Emit(c) ==
    /\ out[c] # <<>>
    /\ out' = [out EXCEPT ![c] = Tail(@)]
    /\ UNCHANGED <<db, writer, work, writes, todo, evs, asking>>

\* statsRead: the View finds a stale aggregate ...
StatsView(c, p) ==
    /\ Ready(c)
    /\ db.stat[p].stale
    /\ asking' = [asking EXCEPT ![c] = {p}]
    /\ UNCHANGED <<db, writer, work, writes, todo, evs, out>>

\* ... and a later Update recomputes it, whatever has happened in between.
StatsUpdate(c) ==
    /\ writer = NoClient
    /\ \E p \in asking[c] :
          db' = [db EXCEPT !.stat = [@ EXCEPT ![p] = statsRecompute(db.num, p)]]
    /\ work' = db'
    /\ asking' = [asking EXCEPT ![c] = {}]
    /\ UNCHANGED <<writer, writes, todo, evs, out>>

\* The recomputing Update fails and Stats returns its error.
StatsFails(c) ==
    /\ writer = NoClient
    /\ asking[c] # {}
    /\ asking' = [asking EXCEPT ![c] = {}]
    /\ UNCHANGED <<db, writer, work, writes, todo, evs, out>>

Crash ==
    /\ writer' = NoClient
    /\ work' = db
    /\ writes' = NoWrites
    /\ todo' = {}
    /\ evs' = <<>>
    /\ out' = [c \in Client |-> <<>>]
    /\ asking' = [c \in Client |-> {}]
    /\ UNCHANGED db

\* Wrong variant: an error or a cancelled context does not end the Update.
TxStepIgnoresErrors ==
    \/ \E d \in DocID : PutDoc(d)
    \/ Commit
    \/ CommitFails

\* A step of the open transaction.
TxStep ==
    \/ \E d \in DocID : PutDoc(d) \/ PutDocFails(d)
    \/ CancelBatch
    \/ Commit
    \/ CommitFails

Next ==
    \/ \E c \in Client :
          \/ BeginPut(c)
          \/ \E d \in DocID : BeginDelete(c, d)
          \/ Emit(c)
          \/ \E p \in Path : StatsView(c, p)
          \/ StatsUpdate(c)
          \/ StatsFails(c)
    \/ TxStep
    \/ Crash

\* A goroutine inside Update, or between its commit and the end of its
\* emission loop, keeps running; nobody is obliged to make calls.
Fairness == WF_vars(TxStep) /\ \A c \in Client : WF_vars(Emit(c))

Spec == Init /\ [][Next]_vars

FairSpec == Spec /\ Fairness

----------------------------------------------------------------------------
(* Properties.  Those about buckets are stated of the committed ones.      *)

\* Every variable holds a value of its type; in particular an internal id is
\* never 0 once a document has one.
TypeOK ==
    /\ db \in BucketsType /\ work \in BucketsType
    /\ writer \in Client \cup {NoClient}
    /\ writes \in [DocID -> Content \cup {Absent, Keep}]
    /\ todo \in SUBSET DocID
    /\ evs \in Seq(Event)
    /\ out \in [Client -> Seq(Event)]
    /\ asking \in [Client -> SUBSET Path]

\* idmapAssign keeps the two directions of the id map inverse to each other
\* and never hands out an id twice, also when the counter wraps to 0, when
\* batches roll back, and across crashes.
IdMapConsistent == IdMapOK(db.ids)

\* idmap.go: assignments are append-only, even after Delete, so a bitmap read
\* in an earlier transaction still names the same documents.
IdsNeverReassigned ==
    [][/\ \A d \in DocID : db.ids.fwd[d] # 0 => db'.ids.fwd[d] = db.ids.fwd[d]
       /\ \A i \in Id : db.ids.rev[i] # Absent => db'.ids.rev[i] = db.ids.rev[i]
      ]_vars

\* Put and Delete keep the docs bucket, the meta bucket and the id map in
\* step: a document has metadata exactly while it is stored, and an id.
DocsHaveMeta ==
    \A d \in DocID :
        /\ db.docs[d] # Absent <=> db.meta[d] > 0
        /\ db.docs[d] # Absent => db.ids.fwd[d] # 0

\* updateInvertedIndex leaves no posting behind and misses none, over any
\* history of overwrites, deletes, re-puts, aborted batches and crashes.
InvertedConsistent == InvertedExact(db.inv, db.ids.fwd, db.docs)

\* updateNumericIndex: the same for the numeric range index.
NumericConsistent == NumericExact(db.num, db.ids.fwd, db.docs)

\* updateTemporalIndex: an item's log lists exactly the documents about it,
\* also after a document moved to another item, type or time.
TemporalConsistent == TemporalExact(db.temp, db.docs)

\* updateGroupByIndex: counters equal the number of members and no group
\* outlives its last member, also when two groups share a key.
GroupsConsistent == GroupsExact(db.gby, db.ids.fwd, db.docs)

\* groupByAdd: a group's last-seen time is never before a member's time.
GroupLastSeen == LastSeenCovers(db.gby, db.docs)

\* updateClosureIndex: ancestor chains and descendant bitmaps describe one
\* relation without self-ancestors, within the depth cap.
ClosureConsistent == ClosureOK(db.clo, db.ids.fwd, db.docs)

\* updateStatsIndex and statsRecompute: an aggregate not marked stale agrees
\* with the numeric index, also when a write slips between the View that
\* found it stale and the Update that recomputes it.
StatsConsistent == StatsExact(db.stat, db.num, db.docs)

\* updateAbsenceIndex: LastSeen never says "never seen" of an item that has
\* a stored record of the type.
LastSeenKnown == LastSeenPresent(db.abs, db.docs)

\* The writes of a commit that the absence index follows: a dated document
\* is new, removed or emptied, or moves forward in time in the same cell.
Followed(old, new) ==
    \A f \in temporalFields(old) :
        \/ new \in {Absent, EmptyDoc}
        \/ \E g \in temporalFields(new) :
              g.item = f.item /\ g.type = f.type /\ g.at >= f.at

\* absenceRecord and absenceRetract: a commit made of such writes keeps
\* LastSeen at the latest time of the stored records, and its owner right.
LastSeenFollows ==
    [][(\A g \in TemporalFields : g.at > 0) =>
          \A f \in TemporalFields :
              /\ Unshared(f)
              /\ CellExact(db.abs, db.docs, f)
              /\ \A d \in DocID : Followed(db.docs[d], db'.docs[d])
              => CellExact(db'.abs, db'.docs, f)]_db

\* The store implements the atomic store of AtomicStore: batches are all or
\* nothing, and what is emitted is what the commit replaced.
EventSet(s) == {s[i] : i \in 1 .. Len(s)}

Atomic == INSTANCE AtomicStore WITH
    docs <- db.docs,
    call <- [c \in Client |-> IF writer = c THEN {writes} ELSE {}],
    owed <- [c \in Client |-> EventSet(out[c])]

ImplementsAtomicStore == Atomic!Spec

\* bolt.DB.Update gives the write lock back whatever its function returns: a
\* batch that fails half-way or is cancelled never leaves the store locked.
LockReleased == writer # NoClient ~> writer = NoClient

\* The emission loops of Put, BatchPut and Delete end, whatever other writers
\* do meanwhile: every committed event is emitted, or lost in a crash.
EventsEmitted == \A c \in Client : out[c] # <<>> ~> out[c] = <<>>
============================================================================
