-------------------------------- MODULE Feed --------------------------------
(***************************************************************************)
(* The mutation-event feed: EventEmitter (events.go), the emission loops   *)
(* of Put, BatchPut and Delete (bboltstore/store.go) and the Subscribe     *)
(* stream (grpcserver/server.go).                                          *)
(*                                                                         *)
(* A writing call commits under bbolt's write lock and then, outside every *)
(* lock, emits its events one by one: a snapshot of the subscriber list is *)
(* taken under the emitter's lock, and the callbacks of the snapshot run   *)
(* in the writer's goroutine.  A callback puts the event into the bounded  *)
(* queue of its stream or gives up; the goroutine of the stream sends what *)
(* is in the queue.  A document is a pair of entity and id; event (d, v)   *)
(* is the v-th committed write of d, put or removal.                       *)
(***************************************************************************)
EXTENDS Integers, Sequences, FiniteSets

CONSTANTS
    DocID,          \* <<entity, id>>, each a sequence of tokens
    Client,         \* goroutines of writing calls
    NoClient,       \* the write lock is free
    Stream,         \* Subscribe calls; a client that reconnects is a new one
    Nobody,         \* nil in the subscriber list
    Filter,         \* Stream -> [entity, prefix], <<>> for "no filter"
    QueueDepth,     \* subscribeQueueDepth (1024 in the code)
    MaxVersion      \* bound: DocID -> Nat, writes of each document

ASSUME FeedAssumption ==
    /\ NoClient \notin Client
    /\ Nobody \notin Stream
    /\ DocID \subseteq Seq(STRING) \X Seq(STRING)
    /\ Filter \in [Stream -> [entity : Seq(STRING), prefix : Seq(STRING)]]
    /\ QueueDepth \in Nat \ {0}
    /\ MaxVersion \in [DocID -> Nat]

VARIABLES
    ver,        \* per document, how many writes are committed
    writer,     \* the client that holds the write lock
    pc,         \* per client, where its call is
    batch,      \* per client, the documents its call writes
    out,        \* per client, committed events whose emission has not begun
    todo,       \* per client, callbacks of the current emission still to run
    subs,       \* EventEmitter.subs
    idx,        \* per stream, its index in subs (0: never subscribed)
    state,      \* per stream: "new", "open", "done"
    cancelled,  \* per stream, whether its context is done
    queue,      \* per stream, the channel
    sending,    \* per stream, the event inside stream.Send (<<>> or one);
                \* it stays here when Send fails
    sent,       \* per stream, what its client has received
    from,       \* history: ver when the stream was registered
    missed,     \* history: events dropped because the queue was full
    raced       \* history: documents committed again while an earlier event
                \* of theirs was still being emitted by another call

calls == <<ver, writer, pc, batch, out, todo>>
streams == <<subs, idx, state, cancelled, queue, sending, sent, from, missed>>
feedVars == <<calls, streams, raced>>

Event == [doc : DocID, ver : Nat]

\* A callback of an emission that is still to run.
Entry == [to : Stream \cup {Nobody}, ev : Event]

HasPrefix(s, p) == Len(p) <= Len(s) /\ SubSeq(s, 1, Len(p)) = p

\* The filters at the top of the subscriber callback.
Wants(s, d) ==
    /\ Filter[s].entity # <<>> => d[1] = Filter[s].entity
    /\ Filter[s].prefix # <<>> => HasPrefix(d[2], Filter[s].prefix)

FeedInit ==
    /\ ver = [d \in DocID |-> 0]
    /\ writer = NoClient
    /\ pc = [c \in Client |-> "idle"]
    /\ batch = [c \in Client |-> {}]
    /\ out = [c \in Client |-> {}]
    /\ todo = [c \in Client |-> <<>>]
    /\ subs = <<>>
    /\ idx = [s \in Stream |-> 0]
    /\ state = [s \in Stream |-> "new"]
    /\ cancelled = [s \in Stream |-> FALSE]
    /\ queue = [s \in Stream |-> <<>>]
    /\ sending = [s \in Stream |-> <<>>]
    /\ sent = [s \in Stream |-> <<>>]
    /\ from = [s \in Stream |-> [d \in DocID |-> 0]]
    /\ missed = [s \in Stream |-> {}]
    /\ raced = {}

----------------------------------------------------------------------------
(* A writing call.                                                         *)

\* The handler starts: one entity, one or several documents.  The bound on
\* versions counts the calls that are under way.
Call(c, D) ==
    /\ pc[c] = "idle"
    /\ D # {} /\ \A d, e \in D : d[1] = e[1]
    /\ \A d \in D : ver[d] + Cardinality({b \in Client : d \in batch[b]}) < MaxVersion[d]
    /\ pc' = [pc EXCEPT ![c] = "called"]
    /\ batch' = [batch EXCEPT ![c] = D]
    /\ UNCHANGED <<ver, writer, out, todo, streams, raced>>

\* bolt.DB.Update takes the write lock.
Begin(c) ==
    /\ pc[c] = "called" /\ writer = NoClient
    /\ writer' = c
    /\ pc' = [pc EXCEPT ![c] = "tx"]
    /\ UNCHANGED <<ver, batch, out, todo, streams, raced>>

\* Events that a call has still to hand to subscribers.
Pending(c) == out[c] \cup {todo[c][i].ev : i \in 1 .. Len(todo[c])}
Underway == UNION {Pending(c) : c \in Client}

Commit(c) ==
    /\ pc[c] = "tx"
    /\ ver' = [d \in DocID |-> IF d \in batch[c] THEN ver[d] + 1 ELSE ver[d]]
    /\ out' = [out EXCEPT ![c] = @ \cup {[doc |-> d, ver |-> ver[d] + 1] : d \in batch[c]}]
    /\ raced' = raced \cup {d \in batch[c] :
                             \E b \in Client \ {c} : \E e \in Pending(b) : e.doc = d}
    /\ writer' = NoClient
    /\ pc' = [pc EXCEPT ![c] = "emit"]
    /\ batch' = [batch EXCEPT ![c] = {}]
    /\ UNCHANGED <<todo, streams>>

\* Validation fails, the context is done or the database is closed.
Refuse(c) ==
    /\ pc[c] = "called"
    /\ pc' = [pc EXCEPT ![c] = "emit"]
    /\ batch' = [batch EXCEPT ![c] = {}]
    /\ UNCHANGED <<ver, writer, out, todo, streams, raced>>

\* Wrong variant: events are gathered before the transaction has succeeded.
AbortEmits(c) ==
    /\ pc[c] = "tx"
    /\ writer' = NoClient
    /\ out' = [out EXCEPT ![c] = {[doc |-> d, ver |-> ver[d] + 1] : d \in batch[c]}]
    /\ pc' = [pc EXCEPT ![c] = "emit"]
    /\ batch' = [batch EXCEPT ![c] = {}]
    /\ UNCHANGED <<ver, todo, streams, raced>>

\* The transaction fails and is rolled back: nothing is emitted.
Abort(c) ==
    /\ pc[c] = "tx"
    /\ writer' = NoClient
    /\ pc' = [pc EXCEPT ![c] = "emit"]
    /\ batch' = [batch EXCEPT ![c] = {}]
    /\ UNCHANGED <<ver, out, todo, streams, raced>>

\* Emit copies the subscriber list under the read lock.
StartEmit(c, e) ==
    /\ e \in out[c] /\ todo[c] = <<>>
    /\ out' = [out EXCEPT ![c] = @ \ {e}]
    /\ todo' = [todo EXCEPT ![c] = [i \in 1 .. Len(subs) |-> [to |-> subs[i], ev |-> e]]]
    /\ UNCHANGED <<ver, writer, pc, batch, streams, raced>>

\* Whether a callback is to hand e to s: an entry of a stream that has left
\* is nil and skipped.
Hands(s, e) == s # Nobody /\ Wants(s, e.doc)

\* Wrong variant: the callback waits for room in the queue.
CallbackBlocks(c) ==
    /\ todo[c] # <<>>
    /\ todo' = [todo EXCEPT ![c] = Tail(@)]
    /\ LET s == Head(todo[c]).to
           e == Head(todo[c]).ev
       IN  IF ~Hands(s, e) THEN UNCHANGED <<queue, missed>>
           ELSE /\ Len(queue[s]) < QueueDepth
                /\ queue' = [queue EXCEPT ![s] = Append(@, e)]
                /\ UNCHANGED missed
    /\ UNCHANGED <<ver, writer, pc, batch, out, subs, idx, state, cancelled,
                   sending, sent, from, raced>>

\* Wrong variant: the queue has no bound.
CallbackGrows(c) ==
    /\ todo[c] # <<>>
    /\ todo' = [todo EXCEPT ![c] = Tail(@)]
    /\ LET s == Head(todo[c]).to
           e == Head(todo[c]).ev
       IN  IF ~Hands(s, e) THEN UNCHANGED queue
           ELSE queue' = [queue EXCEPT ![s] = Append(@, e)]
    /\ UNCHANGED <<ver, writer, pc, batch, out, subs, idx, state, cancelled,
                   sending, sent, from, missed, raced>>

\* The next callback: filter, then a send that does not block.  With a full
\* queue the event is dropped and nothing else happens.
Callback(c) ==
    /\ todo[c] # <<>>
    /\ todo' = [todo EXCEPT ![c] = Tail(@)]
    /\ LET s == Head(todo[c]).to
           e == Head(todo[c]).ev
       IN  IF ~Hands(s, e) THEN UNCHANGED <<queue, missed>>
           ELSE IF Len(queue[s]) < QueueDepth
           THEN queue' = [queue EXCEPT ![s] = Append(@, e)] /\ UNCHANGED missed
           ELSE missed' = [missed EXCEPT ![s] = @ \cup {e}] /\ UNCHANGED queue
    /\ UNCHANGED <<ver, writer, pc, batch, out, subs, idx, state, cancelled,
                   sending, sent, from, raced>>

\* Wrong variant: the events are emitted by a goroutine of their own.
ReturnEarly(c) ==
    /\ pc[c] = "emit"
    /\ pc' = [pc EXCEPT ![c] = "idle"]
    /\ UNCHANGED <<ver, writer, batch, out, todo, streams, raced>>

\* The call answers once its emission loop is through.
Return(c) ==
    /\ pc[c] = "emit" /\ out[c] = {} /\ todo[c] = <<>>
    /\ pc' = [pc EXCEPT ![c] = "idle"]
    /\ UNCHANGED <<ver, writer, batch, out, todo, streams, raced>>

----------------------------------------------------------------------------
(* A stream.                                                               *)

\* Wrong variant: the remembered index is the previous entry's.
SubscribeOffByOne(s) ==
    /\ state[s] = "new"
    /\ state' = [state EXCEPT ![s] = "open"]
    /\ subs' = Append(subs, s)
    /\ idx' = [idx EXCEPT ![s] = Len(subs)]
    /\ from' = [from EXCEPT ![s] = ver]
    /\ UNCHANGED <<calls, cancelled, queue, sending, sent, missed, raced>>

\* The handler registers its callback and remembers the entry's index.
Subscribe(s) ==
    /\ state[s] = "new"
    /\ state' = [state EXCEPT ![s] = "open"]
    /\ subs' = Append(subs, s)
    /\ idx' = [idx EXCEPT ![s] = Len(subs) + 1]
    /\ from' = [from EXCEPT ![s] = ver]
    /\ UNCHANGED <<calls, cancelled, queue, sending, sent, missed, raced>>

\* Wrong variant: after an overflow the loop stops and the handler stays.
TakeStops(s) ==
    /\ state[s] = "open" /\ sending[s] = <<>> /\ queue[s] # <<>> /\ missed[s] = {}
    /\ sending' = [sending EXCEPT ![s] = <<Head(queue[s])>>]
    /\ queue' = [queue EXCEPT ![s] = Tail(@)]
    /\ UNCHANGED <<calls, subs, idx, state, cancelled, sent, from, missed, raced>>

\* The loop of Subscribe takes the next event from the channel ...
Take(s) ==
    /\ state[s] = "open" /\ sending[s] = <<>> /\ queue[s] # <<>>
    /\ sending' = [sending EXCEPT ![s] = <<Head(queue[s])>>]
    /\ queue' = [queue EXCEPT ![s] = Tail(@)]
    /\ UNCHANGED <<calls, subs, idx, state, cancelled, sent, from, missed, raced>>

\* ... and Send returns when the client, at its own pace, has made room.
Send(s) ==
    /\ state[s] = "open" /\ sending[s] # <<>>
    /\ sent' = [sent EXCEPT ![s] = @ \o sending[s]]
    /\ sending' = [sending EXCEPT ![s] = <<>>]
    /\ UNCHANGED <<calls, subs, idx, state, cancelled, queue, from, missed, raced>>

\* The client cancels or its connection breaks.
Cancel(s) ==
    /\ state[s] = "open" /\ ~cancelled[s]
    /\ cancelled' = [cancelled EXCEPT ![s] = TRUE]
    /\ UNCHANGED <<calls, subs, idx, state, queue, sending, sent, from, missed, raced>>

\* Between two events the loop sees ctx.Done, inside Send it gets an error;
\* either way the handler returns and the deferred unsubscribe runs.
Leave(s) ==
    /\ state[s] = "open" /\ cancelled[s]
    /\ state' = [state EXCEPT ![s] = "done"]
    /\ subs' = IF idx[s] <= Len(subs) THEN [subs EXCEPT ![idx[s]] = Nobody] ELSE subs
    /\ UNCHANGED <<calls, idx, cancelled, queue, sending, sent, from, missed, raced>>

\* What the goroutine of a call does on its own once it holds the lock or
\* has released it.
Work(c) ==
    \/ Commit(c)
    \/ Abort(c)
    \/ \E e \in out[c] : StartEmit(c, e)
    \/ Callback(c)
    \/ Return(c)

FeedNext ==
    \/ \E c \in Client : Begin(c) \/ Refuse(c) \/ Work(c)
    \/ \E c \in Client, D \in SUBSET DocID : Call(c, D)
    \/ \E s \in Stream : Subscribe(s) \/ Take(s) \/ Send(s) \/ Cancel(s) \/ Leave(s)

FeedSpec == FeedInit /\ [][FeedNext]_feedVars

----------------------------------------------------------------------------
(* Properties.                                                             *)

FeedTypeOK ==
    /\ ver \in [DocID -> Nat]
    /\ writer \in Client \cup {NoClient}
    /\ pc \in [Client -> {"idle", "called", "tx", "emit"}]
    /\ batch \in [Client -> SUBSET DocID]
    /\ out \in [Client -> SUBSET Event]
    /\ todo \in [Client -> Seq(Entry)]
    /\ subs \in Seq(Stream \cup {Nobody})
    /\ idx \in [Stream -> Nat]
    /\ state \in [Stream -> {"new", "open", "done"}]
    /\ cancelled \in [Stream -> BOOLEAN]
    /\ queue \in [Stream -> Seq(Event)]
    /\ \A s \in Stream : Len(queue[s]) <= QueueDepth
    /\ sending \in [Stream -> Seq(Event)]
    /\ sent \in [Stream -> Seq(Event)]
    /\ from \in [Stream -> [DocID -> Nat]]
    /\ missed \in [Stream -> SUBSET Event]
    /\ raced \in SUBSET DocID

Range(q) == {q[i] : i \in 1 .. Len(q)}

\* What a stream has got so far, in order: received, being sent, queued.
Got(s) == sent[s] \o sending[s] \o queue[s]

\* Subscribe and Emit: of the writes committed after an open stream was
\* registered, none that it wants is skipped: each is received, sent, queued,
\* still being emitted, or was dropped because the stream's queue was full.
NothingSkipped ==
    \A s \in Stream : state[s] = "open" =>
        \A d \in DocID : Wants(s, d) =>
            \A v \in from[s][d] + 1 .. ver[d] :
                [doc |-> d, ver |-> v] \in Range(Got(s)) \cup missed[s] \cup Underway

\* Emit and the callback: a stream gets an event once, only if its filter
\* lets it through, and only once the write is committed.
DeliveredOnce ==
    \A s \in Stream :
        LET g == Got(s) IN
        /\ \A i \in 1 .. Len(g) : Wants(s, g[i].doc) /\ g[i].ver <= ver[g[i].doc]
        /\ \A i, j \in 1 .. Len(g) : g[i] = g[j] => i = j

\* The events of a document reach every stream in commit order, unless two
\* calls were emitting events of it at the same time.
InCommitOrder ==
    \A s \in Stream :
        LET g == Got(s) IN
        \A i, j \in 1 .. Len(g) :
            i < j /\ g[i].doc = g[j].doc /\ g[i].doc \notin raced
                => g[i].ver < g[j].ver
============================================================================
