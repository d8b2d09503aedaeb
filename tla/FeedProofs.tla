----------------------------- MODULE FeedProofs -----------------------------
(***************************************************************************)
(* What holds of the event feed for every set of documents, writers and    *)
(* streams and every queue depth, and that the server process keeps to it. *)
(***************************************************************************)
EXTENDS Server, TLAPS

\* subs and idx: an open stream is registered, once, where idx says, and
\* nobody else is.
Registered ==
    /\ \A s \in Stream : state[s] = "open" => idx[s] \in 1 .. Len(subs) /\ subs[idx[s]] = s
    /\ \A i \in 1 .. Len(subs) :
          subs[i] # Nobody => idx[subs[i]] = i /\ state[subs[i]] = "open"

\* A call owes events only in its emission loop, and the write lock belongs
\* to the call inside its transaction.
CallShape ==
    \A c \in Client : /\ pc[c] # "emit" => out[c] = {} /\ todo[c] = <<>>
                      /\ pc[c] = "tx" => writer = c

\* A snapshot names a stream once, and an event under emission is in out no
\* longer.
OneEach ==
    \A c \in Client :
        /\ \A i, j \in 1 .. Len(todo[c]) :
              i # j /\ todo[c][i].to = todo[c][j].to => todo[c][i].to = Nobody
        /\ \A i \in 1 .. Len(todo[c]) : todo[c][i].ev \notin out[c]

\* No two calls owe the same event.
Apart == \A b, c \in Client : b # c => Pending(b) \cap Pending(c) = {}

\* Owed events are of committed writes, and of the latest write of their
\* document unless another call committed it meanwhile.
Latest ==
    \A c \in Client : \A e \in Pending(c) :
        e.ver <= ver[e.doc] /\ (e.doc \notin raced => e.ver = ver[e.doc])

\* What is still to be handed to a stream it has not got yet.
NotYet ==
    \A c \in Client, s \in Stream :
        /\ \A e \in out[c] : e \notin Range(Got(s))
        /\ \A i \in 1 .. Len(todo[c]) :
              todo[c][i].to = s => todo[c][i].ev \notin Range(Got(s))

\* NothingSkipped, with the events under emission told apart by stream.
Due(s, e) ==
    \E c \in Client : e \in out[c] \/ \E i \in 1 .. Len(todo[c]) : todo[c][i] = [to |-> s, ev |-> e]

Covered ==
    \A s \in Stream : state[s] = "open" =>
        \A d \in DocID : Wants(s, d) =>
            \A v \in from[s][d] + 1 .. ver[d] :
                \/ [doc |-> d, ver |-> v] \in Range(Got(s)) \cup missed[s]
                \/ Due(s, [doc |-> d, ver |-> v])

Emission ==
    /\ OneEach
    /\ Apart
    /\ Latest
    /\ NotYet
    /\ DeliveredOnce
    /\ InCommitOrder
    /\ Covered

FInv ==
    /\ FeedTypeOK
    /\ Registered
    /\ CallShape
    /\ Emission

----------------------------------------------------------------------------
(* Sequences.                                                              *)

\* Taking an event out of the channel into Send leaves the order of what the
\* stream has got.
LEMMA TakeKeeps ==
    ASSUME NEW S, NEW p \in Seq(S), NEW q \in Seq(S), q # <<>>
    PROVE  p \o <<>> \o q = p \o <<Head(q)>> \o Tail(q)
  OBVIOUS

LEMMA SendKeeps ==
    ASSUME NEW S, NEW p \in Seq(S), NEW m \in Seq(S), NEW q \in Seq(S)
    PROVE  p \o m \o q = (p \o m) \o <<>> \o q
  OBVIOUS

LEMMA QueueAppends ==
    ASSUME NEW S, NEW p \in Seq(S), NEW m \in Seq(S), NEW q \in Seq(S), NEW e \in S
    PROVE  p \o m \o Append(q, e) = Append(p \o m \o q, e)
  OBVIOUS

LEMMA EventAppends ==
    \A p, m, q \in Seq(Event) : \A e \in Event :
        p \o m \o Append(q, e) = Append(p \o m \o q, e)
  BY QueueAppends

LEMMA TailShifts ==
    ASSUME NEW S, NEW q \in Seq(S), q # <<>>
    PROVE  /\ Tail(q) \in Seq(S) /\ Head(q) = q[1] /\ 1 \in 1 .. Len(q)
           /\ Len(Tail(q)) = Len(q) - 1
           /\ \A i \in 1 .. Len(Tail(q)) : Tail(q)[i] = q[i + 1] /\ i + 1 \in 1 .. Len(q)
           /\ \A i \in 1 .. Len(q) : i # 1 => i - 1 \in 1 .. Len(Tail(q)) /\ q[i] = Tail(q)[i - 1]
  OBVIOUS

LEMMA OverwriteKeeps ==
    ASSUME NEW S, NEW q \in Seq(S), NEW v \in S, NEW k
    PROVE  /\ [q EXCEPT ![k] = v] \in Seq(S)
           /\ Len([q EXCEPT ![k] = v]) = Len(q)
           /\ \A i \in 1 .. Len(q) : [q EXCEPT ![k] = v][i] = IF i = k THEN v ELSE q[i]
  <1>1. q \in [1 .. Len(q) -> S] /\ Len(q) \in Nat
    OBVIOUS
  <1>2. [q EXCEPT ![k] = v] \in [1 .. Len(q) -> S]
    BY <1>1
  <1>3. [q EXCEPT ![k] = v] \in Seq(S)
    BY <1>1, <1>2
  <1> QED
    BY <1>1, <1>2, <1>3

----------------------------------------------------------------------------
(* The feed.                                                               *)

\* Got of every stream is a sequence of events.
LEMMA GotType ==
    ASSUME FeedTypeOK, NEW s \in Stream
    PROVE  Got(s) \in Seq(Event)
  BY DEF FeedTypeOK, Got

\* At the start nothing is owed and nobody has got anything.
LEMMA InitFInv == FeedInit => FInv
  <1> SUFFICES ASSUME FeedInit PROVE FInv
    OBVIOUS
  <1>1. FeedTypeOK
    BY FeedAssumption DEF FeedInit, FeedTypeOK, Event
  <1>2. \A c \in Client : Pending(c) = {}
    BY DEF FeedInit, Pending
  <1>3. \A s \in Stream : Got(s) = <<>> /\ Range(Got(s)) = {}
    BY DEF FeedInit, Got, Range
  <1>4. Registered /\ CallShape /\ OneEach
    BY DEF FeedInit, Registered, CallShape, OneEach
  <1>5. Apart /\ Latest
    BY <1>2 DEF Apart, Latest
  <1>6. NotYet
    BY <1>3 DEF NotYet
  <1>7. DeliveredOnce /\ InCommitOrder
    BY <1>3 DEF DeliveredOnce, InCommitOrder
  <1>8. Covered
    BY DEF FeedInit, Covered
  <1> QED
    BY <1>1, <1>4, <1>5, <1>6, <1>7, <1>8 DEF FInv, Emission

\* One step per action.
LEMMA TypeStep == FeedTypeOK /\ [FeedNext]_feedVars => FeedTypeOK'
  <1> SUFFICES ASSUME FeedTypeOK, [FeedNext]_feedVars PROVE FeedTypeOK'
    OBVIOUS
  <1> USE DEF FeedTypeOK, calls, streams
  <1>1. ASSUME NEW c \in Client, NEW D \in SUBSET DocID, Call(c, D) PROVE FeedTypeOK'
    BY <1>1 DEF Call
  <1>2. ASSUME NEW c \in Client, Begin(c) \/ Refuse(c) \/ Abort(c) \/ Return(c) PROVE FeedTypeOK'
    BY <1>2 DEF Begin, Refuse, Abort, Return
  <1>3. ASSUME NEW c \in Client, Commit(c) PROVE FeedTypeOK'
    <2>1. ver' \in [DocID -> Nat]
      BY <1>3 DEF Commit
    <2>2. {[doc |-> d, ver |-> ver[d] + 1] : d \in batch[c]} \in SUBSET Event
      BY DEF Event
    <2>3. out' \in [Client -> SUBSET Event]
      BY <1>3, <2>2 DEF Commit
    <2> QED
      BY <1>3, <2>1, <2>3 DEF Commit
  <1>4. ASSUME NEW c \in Client, NEW e \in out[c], StartEmit(c, e) PROVE FeedTypeOK'
    <2>1. e \in Event
      OBVIOUS
    <2>2. ASSUME NEW i \in 1 .. Len(subs)
          PROVE  [to |-> subs[i], ev |-> e] \in Entry
      BY <2>1 DEF Entry
    <2>3. [i \in 1 .. Len(subs) |-> [to |-> subs[i], ev |-> e]]
             \in Seq(Entry)
      BY <2>2
    <2>4. todo' \in [Client -> Seq(Entry)]
      BY <1>4, <2>3 DEF StartEmit
    <2>5. out' \in [Client -> SUBSET Event]
      BY <1>4 DEF StartEmit
    <2> QED
      BY <1>4, <2>4, <2>5 DEF StartEmit
  <1>5. ASSUME NEW c \in Client, Callback(c) PROVE FeedTypeOK'
    <2> DEFINE s == Head(todo[c]).to
               e == Head(todo[c]).ev
    <2>0. /\ Tail(todo[c]) \in Seq(Entry)
          /\ Head(todo[c]) = todo[c][1] /\ 1 \in 1 .. Len(todo[c])
      BY <1>5, TailShifts DEF Callback
    <2>1. todo' \in [Client -> Seq(Entry)]
      BY <1>5, <2>0 DEF Callback
    <2>2. Head(todo[c]) \in Entry
      BY <2>0
    <2>3. s \in Stream \cup {Nobody} /\ e \in Event
      BY <2>2 DEF Entry
    <2>4. CASE ~Hands(s, e)
      BY <1>5, <2>1, <2>4 DEF Callback
    <2>5. CASE Hands(s, e) /\ Len(queue[s]) < QueueDepth
      <3>1. s \in Stream /\ queue' = [queue EXCEPT ![s] = Append(@, e)] /\ missed' = missed
        BY <1>5, <2>3, <2>5 DEF Callback, Hands
      <3>2. Append(queue[s], e) \in Seq(Event) /\ Len(Append(queue[s], e)) <= QueueDepth
        BY <2>3, <2>5, <3>1, FeedAssumption
      <3>3. queue' \in [Stream -> Seq(Event)] /\ \A t \in Stream : Len(queue'[t]) <= QueueDepth
        BY <3>1, <3>2
      <3> HIDE DEF s, e
      <3> QED
        BY <1>5, <2>1, <3>1, <3>3 DEF Callback
    <2>6. CASE Hands(s, e) /\ ~(Len(queue[s]) < QueueDepth)
      <3>1. s \in Stream /\ missed' = [missed EXCEPT ![s] = @ \cup {e}] /\ queue' = queue
        BY <1>5, <2>3, <2>6 DEF Callback, Hands
      <3>2. missed' \in [Stream -> SUBSET Event]
        BY <2>3, <3>1
      <3> HIDE DEF s, e
      <3> QED
        BY <1>5, <2>1, <3>1, <3>2 DEF Callback
    <2> QED
      BY <2>4, <2>5, <2>6
  <1>6. ASSUME NEW s \in Stream, Subscribe(s) PROVE FeedTypeOK'
    <2>1. subs' \in Seq(Stream \cup {Nobody})
      BY <1>6 DEF Subscribe
    <2>2. idx' \in [Stream -> Nat] /\ from' \in [Stream -> [DocID -> Nat]]
      BY <1>6 DEF Subscribe
    <2> QED
      BY <1>6, <2>1, <2>2 DEF Subscribe
  <1>7. ASSUME NEW s \in Stream, Take(s) PROVE FeedTypeOK'
    <2>1. Head(queue[s]) \in Event /\ Tail(queue[s]) \in Seq(Event)
          /\ Len(Tail(queue[s])) <= Len(queue[s])
      BY <1>7, TailShifts DEF Take
    <2>2. <<Head(queue[s])>> \in Seq(Event)
      BY <2>1
    <2>3. sending' \in [Stream -> Seq(Event)]
      BY <1>7, <2>2 DEF Take
    <2>4. queue' \in [Stream -> Seq(Event)] /\ \A t \in Stream : Len(queue'[t]) <= QueueDepth
      BY <1>7, <2>1, FeedAssumption DEF Take
    <2> QED
      BY <1>7, <2>3, <2>4 DEF Take
  <1>8. ASSUME NEW s \in Stream, Send(s) PROVE FeedTypeOK'
    <2>1. sent[s] \o sending[s] \in Seq(Event) /\ <<>> \in Seq(Event)
      OBVIOUS
    <2>2. sent' \in [Stream -> Seq(Event)] /\ sending' \in [Stream -> Seq(Event)]
      BY <1>8, <2>1 DEF Send
    <2> QED
      BY <1>8, <2>2 DEF Send
  <1>9. ASSUME NEW s \in Stream, Cancel(s) PROVE FeedTypeOK'
    BY <1>9 DEF Cancel
  <1>11. ASSUME NEW s \in Stream, Leave(s) PROVE FeedTypeOK'
    <2>1. subs' \in Seq(Stream \cup {Nobody})
      BY <1>11, OverwriteKeeps DEF Leave
    <2> QED
      BY <1>11, <2>1 DEF Leave
  <1>10. CASE UNCHANGED feedVars
    BY <1>10 DEF feedVars
  <1> QED
    BY <1>1, <1>2, <1>3, <1>4, <1>5, <1>6, <1>7, <1>8, <1>9, <1>10, <1>11 DEF FeedNext, Work

\* Only Subscribe and Leave touch the subscriber list: the one appends, the
\* other clears the entry that idx names.
LEMMA RegisteredStep == FInv /\ [FeedNext]_feedVars => Registered'
  <1> SUFFICES ASSUME FInv, [FeedNext]_feedVars PROVE Registered'
    OBVIOUS
  <1>1. subs \in Seq(Stream \cup {Nobody}) /\ idx \in [Stream -> Nat]
        /\ state \in [Stream -> {"new", "open", "done"}] /\ Len(subs) \in Nat
    BY DEF FInv, FeedTypeOK
  <1>2. Registered
    BY DEF FInv
  <1>3. CASE UNCHANGED <<subs, idx, state>>
    BY <1>2, <1>3 DEF Registered
  <1>4. ASSUME NEW s \in Stream, Subscribe(s) PROVE Registered'
    <2>1. Len(subs') = Len(subs) + 1 /\ subs'[Len(subs) + 1] = s
          /\ \A i \in 1 .. Len(subs) : subs'[i] = subs[i]
      BY <1>1, <1>4 DEF Subscribe
    <2>2. state[s] = "new" /\ idx' = [idx EXCEPT ![s] = Len(subs) + 1]
          /\ state' = [state EXCEPT ![s] = "open"]
      BY <1>4 DEF Subscribe
    <2>3. \A i \in 1 .. Len(subs) : subs[i] \in Stream \cup {Nobody} /\ subs[i] # s
      BY <1>1, <1>2, <2>2, FeedAssumption DEF Registered
    <2>4. ASSUME NEW t \in Stream, state'[t] = "open"
          PROVE  idx'[t] \in 1 .. Len(subs') /\ subs'[idx'[t]] = t
      <3>1. CASE t = s
        BY <1>1, <2>1, <2>2, <3>1
      <3>2. CASE t # s
        BY <1>1, <1>2, <2>1, <2>2, <2>4, <3>2 DEF Registered
      <3> QED BY <3>1, <3>2
    <2>5. ASSUME NEW i \in 1 .. Len(subs'), subs'[i] # Nobody
          PROVE  idx'[subs'[i]] = i /\ state'[subs'[i]] = "open"
      <3>1. CASE i = Len(subs) + 1
        BY <1>1, <2>1, <2>2, <3>1
      <3>2. CASE i # Len(subs) + 1
        <4>1. i \in 1 .. Len(subs) /\ subs'[i] = subs[i] /\ subs[i] \in Stream /\ subs[i] # s
          BY <1>1, <2>1, <2>3, <2>5, <3>2
        <4> QED
          BY <1>1, <1>2, <2>2, <2>5, <4>1 DEF Registered
      <3> QED BY <3>1, <3>2
    <2> QED
      BY <2>4, <2>5 DEF Registered
  <1>5. ASSUME NEW s \in Stream, Leave(s) PROVE Registered'
    <2>1. state[s] = "open" /\ idx' = idx /\ state' = [state EXCEPT ![s] = "done"]
      BY <1>5 DEF Leave
    <2>2. idx[s] \in 1 .. Len(subs) /\ subs[idx[s]] = s
      BY <1>2, <2>1 DEF Registered
    <2>3. subs' = [subs EXCEPT ![idx[s]] = Nobody]
      BY <1>1, <1>5, <2>2 DEF Leave
    <2>4. Len(subs') = Len(subs)
          /\ \A i \in 1 .. Len(subs) : subs'[i] = IF i = idx[s] THEN Nobody ELSE subs[i]
      BY <1>1, <2>3, OverwriteKeeps
    <2>5. ASSUME NEW t \in Stream, state'[t] = "open"
          PROVE  idx'[t] \in 1 .. Len(subs') /\ subs'[idx'[t]] = t
      <3>1. t # s /\ state[t] = "open"
        BY <1>1, <2>1, <2>5
      <3>2. idx[t] \in 1 .. Len(subs) /\ subs[idx[t]] = t /\ idx[t] # idx[s]
        BY <1>2, <2>2, <3>1 DEF Registered
      <3> QED
        BY <2>1, <2>4, <3>2
    <2>6. ASSUME NEW i \in 1 .. Len(subs'), subs'[i] # Nobody
          PROVE  idx'[subs'[i]] = i /\ state'[subs'[i]] = "open"
      <3>1. i \in 1 .. Len(subs) /\ i # idx[s] /\ subs'[i] = subs[i] /\ subs[i] \in Stream
        BY <1>1, <2>4, <2>6
      <3>2. idx[subs[i]] = i /\ state[subs[i]] = "open" /\ subs[i] # s
        BY <1>2, <2>6, <3>1 DEF Registered
      <3> QED
        BY <1>1, <2>1, <3>1, <3>2
    <2> QED
      BY <2>5, <2>6 DEF Registered
  <1> QED
    BY <1>3, <1>4, <1>5
    DEF FeedNext, Work, feedVars, calls, streams, Call, Begin, Refuse, Commit, Abort,
        StartEmit, Callback, Return, Take, Send, Cancel

LEMMA CallShapeStep == FInv /\ [FeedNext]_feedVars => CallShape'
  <1> SUFFICES ASSUME FInv, [FeedNext]_feedVars PROVE CallShape'
    OBVIOUS
  <1> USE DEF CallShape
  <1>1. CallShape /\ pc \in [Client -> {"idle", "called", "tx", "emit"}]
        /\ out \in [Client -> SUBSET Event] /\ todo \in [Client -> Seq(Entry)]
    BY DEF FInv, FeedTypeOK
  <1>2. CASE UNCHANGED calls
    BY <1>1, <1>2 DEF calls
  <1>3. ASSUME NEW c \in Client, NEW D \in SUBSET DocID, Call(c, D) PROVE CallShape'
    BY <1>1, <1>3 DEF Call
  <1>4. ASSUME NEW c \in Client, Begin(c) PROVE CallShape'
    BY <1>1, <1>4, FeedAssumption DEF Begin
  <1>5. ASSUME NEW c \in Client, Refuse(c) \/ Abort(c) \/ Return(c) PROVE CallShape'
    BY <1>1, <1>5 DEF Refuse, Abort, Return
  <1>6. ASSUME NEW c \in Client, Commit(c) PROVE CallShape'
    BY <1>1, <1>6 DEF Commit
  <1>7. ASSUME NEW c \in Client, NEW e \in out[c], StartEmit(c, e) PROVE CallShape'
    BY <1>1, <1>7 DEF StartEmit
  <1>8. ASSUME NEW c \in Client, Callback(c) PROVE CallShape'
    BY <1>1, <1>8 DEF Callback
  <1> QED
    BY <1>2, <1>3, <1>4, <1>5, <1>6, <1>7, <1>8
    DEF FeedNext, Work, feedVars, Subscribe, Take, Send, Cancel, Leave

\* What a stream has got changes in no step but a callback.
LEMMA GotKept ==
    ASSUME FeedTypeOK, [FeedNext]_feedVars, \A c \in Client : ~Callback(c), NEW s \in Stream
    PROVE  Got(s)' = Got(s)
  <1>1. sent \in [Stream -> Seq(Event)] /\ sending \in [Stream -> Seq(Event)]
        /\ queue \in [Stream -> Seq(Event)]
    BY DEF FeedTypeOK
  <1>2. CASE UNCHANGED <<sent, sending, queue>>
    BY <1>2 DEF Got
  <1>3. ASSUME NEW t \in Stream, Take(t) PROVE Got(s)' = Got(s)
    <2>1. CASE t # s
      BY <1>1, <1>3, <2>1 DEF Take, Got
    <2>2. CASE t = s
      <3>1. sent'[s] = sent[s] /\ sending[s] = <<>> /\ sending'[s] = <<Head(queue[s])>>
            /\ queue[s] # <<>> /\ queue'[s] = Tail(queue[s])
        BY <1>1, <1>3, <2>2 DEF Take
      <3>0. sent[s] \in Seq(Event) /\ queue[s] \in Seq(Event) /\ queue[s] # <<>>
        BY <1>1, <3>1
      <3>2. sent[s] \o <<>> \o queue[s] = sent[s] \o <<Head(queue[s])>> \o Tail(queue[s])
        BY <3>0, TakeKeeps
      <3> QED
        BY <3>1, <3>2 DEF Got
    <2> QED
      BY <2>1, <2>2
  <1>4. ASSUME NEW t \in Stream, Send(t) PROVE Got(s)' = Got(s)
    <2>1. CASE t # s
      BY <1>1, <1>4, <2>1 DEF Send, Got
    <2>2. CASE t = s
      <3>1. sent'[s] = sent[s] \o sending[s] /\ sending'[s] = <<>> /\ queue'[s] = queue[s]
        BY <1>1, <1>4, <2>2 DEF Send
      <3>2. sent[s] \o sending[s] \o queue[s] = (sent[s] \o sending[s]) \o <<>> \o queue[s]
        BY <1>1, SendKeeps
      <3> QED
        BY <3>1, <3>2 DEF Got
    <2> QED
      BY <2>1, <2>2
  <1> QED
    BY <1>2, <1>3, <1>4
    DEF FeedNext, Work, feedVars, calls, streams, Call, Begin, Refuse, Commit, Abort,
        StartEmit, Return, Subscribe, Cancel, Leave

\* A step that changes neither what calls owe nor what streams have got.
LEMMA QuietStep ==
    ASSUME FInv, UNCHANGED <<ver, out, todo, from, missed, raced>>,
           \A s \in Stream : Got(s)' = Got(s),
           \A s \in Stream : state'[s] = "open" => state[s] = "open"
    PROVE  Emission'
  <1>1. OneEach' /\ Apart' /\ Latest'
    BY DEF FInv, Emission, OneEach, Apart, Latest, Pending
  <1>2. NotYet'
    BY DEF FInv, Emission, NotYet, Range
  <1>3. DeliveredOnce'
    BY DEF FInv, Emission, DeliveredOnce, Wants, HasPrefix
  <1>4. InCommitOrder'
    BY DEF FInv, Emission, InCommitOrder
  <1>5. Covered'
    BY DEF FInv, Emission, Covered, Due, Range, Wants, HasPrefix
  <1> QED
    BY <1>1, <1>2, <1>3, <1>4, <1>5 DEF Emission

\* What the invariant says of one stream.
LEMMA StreamFacts ==
    ASSUME FInv, NEW s \in Stream
    PROVE  /\ Got(s) \in Seq(Event)
           /\ \A i \in 1 .. Len(Got(s)) : Got(s)[i] \in Event
           /\ \A i \in 1 .. Len(Got(s)) : Wants(s, Got(s)[i].doc)
           /\ \A i \in 1 .. Len(Got(s)) : Got(s)[i].ver <= ver[Got(s)[i].doc]
           /\ \A i, j \in 1 .. Len(Got(s)) : Got(s)[i] = Got(s)[j] => i = j
           /\ \A i, j \in 1 .. Len(Got(s)) :
                 i < j /\ Got(s)[i].doc = Got(s)[j].doc /\ Got(s)[i].doc \notin raced
                     => Got(s)[i].ver < Got(s)[j].ver
  <1>1. Got(s) \in Seq(Event)
    BY GotType DEF FInv
  <1> QED
    BY <1>1 DEF FInv, Emission, DeliveredOnce, InCommitOrder

\* What the invariant says of the writing calls.
LEMMA CallFacts ==
    ASSUME FInv
    PROVE  /\ ver \in [DocID -> Nat]
           /\ out \in [Client -> SUBSET Event]
           /\ todo \in [Client -> Seq(Entry)]
           /\ \A b \in Client : Pending(b) \subseteq Event
           /\ \A b \in Client : out[b] \subseteq Pending(b)
           /\ \A b \in Client : \A i \in 1 .. Len(todo[b]) :
                 todo[b][i] \in Entry /\ todo[b][i].ev \in Pending(b)
           /\ \A b \in Client : \A e \in Pending(b) :
                 e.doc \in DocID /\ e.ver \in Nat /\ e.ver <= ver[e.doc]
  <1>1. ver \in [DocID -> Nat] /\ out \in [Client -> SUBSET Event]
        /\ todo \in [Client -> Seq(Entry)]
    BY DEF FInv, FeedTypeOK
  <1>2. ASSUME NEW b \in Client, NEW i \in 1 .. Len(todo[b])
        PROVE  todo[b][i] \in Entry /\ todo[b][i].ev \in Event /\ todo[b][i].ev \in Pending(b)
    <2>1. todo[b][i] \in Entry
      BY <1>1
    <2>2. todo[b][i].ev \in Event
      BY <2>1 DEF Entry
    <2> QED
      BY <2>1, <2>2 DEF Pending
  <1>3. \A b \in Client : out[b] \subseteq Event /\ out[b] \subseteq Pending(b)
    BY <1>1 DEF Pending
  <1>4. \A b \in Client : Pending(b) \subseteq Event
    BY <1>2, <1>3 DEF Pending
  <1>5. ASSUME NEW b \in Client, NEW e \in Pending(b)
        PROVE  e.doc \in DocID /\ e.ver \in Nat /\ e.ver <= ver[e.doc]
    <2>1. e \in Event
      BY <1>4
    <2> QED
      BY <2>1 DEF FInv, Emission, Latest, Event
  <1> QED
    BY <1>1, <1>2, <1>3, <1>4, <1>5

\* A commit owes events that nobody owes or has got: their versions are new.
LEMMA CommitStep ==
    ASSUME FInv, NEW c \in Client, Commit(c), \A s \in Stream : Got(s)' = Got(s)
    PROVE  Emission'
  <1> DEFINE New == {[doc |-> d, ver |-> ver[d] + 1] : d \in batch[c]}
  <1>1. /\ ver' = [d \in DocID |-> IF d \in batch[c] THEN ver[d] + 1 ELSE ver[d]]
        /\ out' = [out EXCEPT ![c] = @ \cup New]
        /\ raced' = raced \cup {d \in batch[c] :
                                 \E b \in Client \ {c} : \E e \in Pending(b) : e.doc = d}
        /\ todo' = todo /\ pc[c] = "tx"
        /\ state' = state /\ from' = from /\ missed' = missed
    BY DEF Commit, streams
  <1>2. /\ batch[c] \subseteq DocID
        /\ ver \in [DocID -> Nat] /\ out \in [Client -> SUBSET Event]
        /\ from \in [Stream -> [DocID -> Nat]]
    BY DEF FInv, FeedTypeOK
  <1>3. out[c] = {} /\ todo[c] = <<>>
    BY <1>1 DEF FInv, CallShape
  <1>4. out'[c] = New /\ \A b \in Client : b # c => out'[b] = out[b]
    BY <1>1, <1>2, <1>3
  <1>5. Pending(c)' = New /\ \A b \in Client : b # c => Pending(b)' = Pending(b)
    BY <1>1, <1>3, <1>4 DEF Pending
  <1>6. \A d \in DocID : ver[d] \in Nat /\ ver'[d] \in Nat /\ ver[d] <= ver'[d]
    BY <1>1, <1>2
  <1>7. \A e \in New : e.doc \in batch[c] /\ e.ver = ver[e.doc] + 1 /\ e.ver = ver'[e.doc]
    BY <1>1, <1>2
  <1>8. ASSUME NEW e, e.doc \in DocID, e.ver <= ver[e.doc] PROVE e \notin New
    BY <1>2, <1>6, <1>7, <1>8
  <1>9. ASSUME NEW s \in Stream, NEW i \in 1 .. Len(Got(s))
        PROVE  Got(s)[i].doc \in DocID /\ Got(s)[i].ver \in Nat /\ Got(s)[i] \notin New
    <2>1. Got(s)[i] \in Event /\ Got(s)[i].ver <= ver[Got(s)[i].doc]
      BY StreamFacts
    <2>2. Got(s)[i].doc \in DocID /\ Got(s)[i].ver \in Nat
      BY <2>1 DEF Event
    <2> QED
      BY <1>8, <2>1, <2>2
  <1>10. \A b \in Client : b # c => Pending(b) \cap New = {}
    BY <1>8, CallFacts
  <1> HIDE DEF New
  <1>11. OneEach'
    <2>1. OneEach
      BY DEF FInv, Emission
    <2>2. Len(todo[c]) = 0
      BY <1>3
    <2> QED
      BY <1>1, <1>4, <2>1, <2>2 DEF OneEach
  <1>12. Apart'
    <2>1. Apart
      BY DEF FInv, Emission
    <2> QED
      BY <1>5, <1>10, <2>1 DEF Apart
  <1>13. Latest'
    <2>1. ASSUME NEW b \in Client, NEW e \in Pending(b)'
          PROVE  e.ver <= ver'[e.doc] /\ (e.doc \notin raced' => e.ver = ver'[e.doc])
      <3>1. CASE b = c
        <4>1. e \in New
          BY <1>5, <3>1
        <4> QED
          BY <1>2, <1>6, <1>7, <4>1
      <3>2. CASE b # c
        <4>1. e \in Pending(b)
          BY <1>5, <3>2
        <4>2. e.doc \in DocID /\ e.ver \in Nat /\ e.ver <= ver[e.doc]
              /\ (e.doc \notin raced => e.ver = ver[e.doc])
          BY <4>1, CallFacts DEF FInv, Emission, Latest
        <4>3. e.doc \notin raced' => e.doc \notin batch[c] /\ e.doc \notin raced
          BY <1>1, <3>2, <4>1
        <4> QED
          BY <1>1, <1>6, <4>2, <4>3
      <3> QED
        BY <3>1, <3>2
    <2> QED
      BY <2>1 DEF Latest
  <1>14. NotYet'
    <2>1. NotYet
      BY DEF FInv, Emission
    <2> QED
      BY <1>1, <1>4, <1>9, <2>1 DEF NotYet, Range
  <1>15. DeliveredOnce'
    <2>1. ASSUME NEW s \in Stream
          PROVE  /\ \A i \in 1 .. Len(Got(s)) : Wants(s, Got(s)[i].doc)
                                                /\ Got(s)[i].ver <= ver'[Got(s)[i].doc]
                 /\ \A i, j \in 1 .. Len(Got(s)) : Got(s)[i] = Got(s)[j] => i = j
      BY <1>6, <1>9, StreamFacts
    <2> QED
      BY <2>1 DEF DeliveredOnce
  <1>16. InCommitOrder'
    BY <1>1 DEF FInv, Emission, InCommitOrder
  <1>17. Covered'
    <2>1. ASSUME NEW s \in Stream, state[s] = "open", NEW d \in DocID, Wants(s, d),
                 NEW v \in from[s][d] + 1 .. ver'[d]
          PROVE  \/ [doc |-> d, ver |-> v] \in Range(Got(s)) \cup missed[s]
                 \/ Due(s, [doc |-> d, ver |-> v])'
      <3>1. CASE v \in from[s][d] + 1 .. ver[d]
        <4>1. \/ [doc |-> d, ver |-> v] \in Range(Got(s)) \cup missed[s]
              \/ Due(s, [doc |-> d, ver |-> v])
          BY <2>1, <3>1 DEF FInv, Emission, Covered
        <4> QED
          BY <1>1, <1>3, <1>4, <4>1 DEF Due
      <3>2. CASE v \notin from[s][d] + 1 .. ver[d]
        <4>1. d \in batch[c] /\ v = ver[d] + 1
          BY <1>1, <1>2, <1>6, <3>2
        <4>2. [doc |-> d, ver |-> v] \in out'[c]
          BY <1>4, <4>1 DEF New
        <4> QED
          BY <4>2 DEF Due
      <3> QED
        BY <3>1, <3>2
    <2> QED
      BY <1>1, <2>1 DEF Covered, Wants, HasPrefix, Range
  <1> QED
    BY <1>11, <1>12, <1>13, <1>14, <1>15, <1>16, <1>17 DEF Emission

\* The snapshot of Emit has an entry for every open stream, and one only.
LEMMA StartEmitStep ==
    ASSUME FInv, NEW c \in Client, NEW e \in out[c], StartEmit(c, e),
           \A s \in Stream : Got(s)' = Got(s)
    PROVE  Emission'
  <1> DEFINE snap == [i \in 1 .. Len(subs) |-> [to |-> subs[i], ev |-> e]]
  <1>1. /\ out' = [out EXCEPT ![c] = @ \ {e}] /\ todo' = [todo EXCEPT ![c] = snap]
        /\ todo[c] = <<>>
        /\ ver' = ver /\ raced' = raced /\ state' = state /\ from' = from /\ missed' = missed
    BY DEF StartEmit, streams
  <1>2. /\ out \in [Client -> SUBSET Event] /\ todo \in [Client -> Seq(Entry)]
        /\ subs \in Seq(Stream \cup {Nobody}) /\ Len(subs) \in Nat
    BY DEF FInv, FeedTypeOK
  <1>3. /\ out'[c] = out[c] \ {e} /\ todo'[c] = snap
        /\ \A b \in Client : b # c => out'[b] = out[b] /\ todo'[b] = todo[b]
    BY <1>1, <1>2
  <1>4. Len(snap) = Len(subs) /\ \A i \in 1 .. Len(subs) : snap[i] = [to |-> subs[i], ev |-> e]
    BY <1>2
  <1>0. \A i \in 1 .. Len(snap) : i \in 1 .. Len(subs) /\ snap[i].to = subs[i] /\ snap[i].ev = e
    BY <1>4
  <1> HIDE DEF snap
  <1>5. /\ Pending(c)' \subseteq Pending(c)
        /\ \A b \in Client : b # c => Pending(b)' = Pending(b)
    <2>1. \A i \in 1 .. Len(todo'[c]) : todo'[c][i].ev = e
      BY <1>0, <1>3
    <2>2. Pending(c)' \subseteq out[c]
      BY <1>3, <2>1 DEF Pending
    <2>3. \A b \in Client : b # c => Pending(b)' = Pending(b)
      BY <1>3 DEF Pending
    <2> QED
      BY <2>2, <2>3 DEF Pending
  <1>6. OneEach'
    <2>1. \A i, j \in 1 .. Len(subs) : i # j /\ subs[i] = subs[j] => subs[i] = Nobody
      BY DEF FInv, Registered
    <2>2. OneEach
      BY DEF FInv, Emission
    <2>3. /\ \A i, j \in 1 .. Len(todo'[c]) :
                i # j /\ todo'[c][i].to = todo'[c][j].to => todo'[c][i].to = Nobody
          /\ \A i \in 1 .. Len(todo'[c]) : todo'[c][i].ev \notin out'[c]
      BY <1>0, <1>3, <2>1
    <2>4. ASSUME NEW b \in Client, b # c
          PROVE  /\ \A i, j \in 1 .. Len(todo'[b]) :
                       i # j /\ todo'[b][i].to = todo'[b][j].to => todo'[b][i].to = Nobody
                 /\ \A i \in 1 .. Len(todo'[b]) : todo'[b][i].ev \notin out'[b]
      BY <1>3, <2>2, <2>4 DEF OneEach
    <2> QED
      BY <2>3, <2>4 DEF OneEach
  <1>7. Apart'
    BY <1>5 DEF FInv, Emission, Apart
  <1>8. Latest'
    BY <1>1, <1>5 DEF FInv, Emission, Latest
  <1>9. NotYet'
    <2>1. NotYet
      BY DEF FInv, Emission
    <2>2. ASSUME NEW s \in Stream
          PROVE  /\ \A x \in out'[c] : x \notin Range(Got(s))
                 /\ \A i \in 1 .. Len(todo'[c]) : todo'[c][i].ev \notin Range(Got(s))
      BY <1>0, <1>3, <2>1 DEF NotYet
    <2>3. ASSUME NEW b \in Client, b # c, NEW s \in Stream
          PROVE  /\ \A x \in out'[b] : x \notin Range(Got(s))
                 /\ \A i \in 1 .. Len(todo'[b]) :
                       todo'[b][i].to = s => todo'[b][i].ev \notin Range(Got(s))
      BY <1>3, <2>1, <2>3 DEF NotYet
    <2> QED
      BY <2>2, <2>3 DEF NotYet, Range
  <1>10. DeliveredOnce' /\ InCommitOrder'
    BY <1>1 DEF FInv, Emission, DeliveredOnce, InCommitOrder
  <1>11. ASSUME NEW s \in Stream, state[s] = "open", NEW x, Due(s, x) PROVE Due(s, x)'
    <2>1. CASE x = e
      <3>1. idx[s] \in 1 .. Len(subs) /\ subs[idx[s]] = s
        BY <1>11 DEF FInv, Registered
      <3> QED
        BY <1>3, <1>4, <2>1, <3>1 DEF Due
    <2>2. CASE x # e
      <3>1. Len(todo[c]) = 0
        BY <1>1
      <3> QED
        BY <1>3, <1>11, <2>2, <3>1 DEF Due
    <2> QED
      BY <2>1, <2>2
  <1>12. Covered'
    <2>1. Covered
      BY DEF FInv, Emission
    <2> QED
      BY <1>1, <1>11, <2>1 DEF Covered, Range
  <1> QED
    BY <1>6, <1>7, <1>8, <1>9, <1>10, <1>12 DEF Emission

\* A callback hands its event to a stream that has not got it and that no
\* other callback is to give it to.
LEMMA CallbackStep ==
    ASSUME FInv, NEW c \in Client, Callback(c)
    PROVE  Emission'
  <1> DEFINE s == Head(todo[c]).to
             e == Head(todo[c]).ev
  <1>1. /\ todo[c] # <<>> /\ todo' = [todo EXCEPT ![c] = Tail(@)]
        /\ ver' = ver /\ out' = out /\ raced' = raced /\ state' = state /\ from' = from
        /\ sent' = sent /\ sending' = sending
    BY DEF Callback
  <1>2. /\ todo \in [Client -> Seq(Entry)] /\ out \in [Client -> SUBSET Event]
        /\ queue \in [Stream -> Seq(Event)] /\ sent \in [Stream -> Seq(Event)]
        /\ sending \in [Stream -> Seq(Event)] /\ missed \in [Stream -> SUBSET Event]
    BY DEF FInv, FeedTypeOK
  <1>3. /\ Head(todo[c]) = todo[c][1] /\ 1 \in 1 .. Len(todo[c])
        /\ Len(Tail(todo[c])) = Len(todo[c]) - 1 /\ Len(todo[c]) \in Nat
        /\ \A i \in 1 .. Len(Tail(todo[c])) :
              Tail(todo[c])[i] = todo[c][i + 1] /\ i + 1 \in 1 .. Len(todo[c])
        /\ \A i \in 1 .. Len(todo[c]) :
              i # 1 => i - 1 \in 1 .. Len(Tail(todo[c])) /\ todo[c][i] = Tail(todo[c])[i - 1]
    BY <1>1, <1>2, TailShifts
  <1>4. /\ todo'[c] = Tail(todo[c])
        /\ \A b \in Client : b # c => todo'[b] = todo[b]
    BY <1>1, <1>2
  <1>5. s = todo[c][1].to /\ e = todo[c][1].ev /\ s \in Stream \cup {Nobody} /\ e \in Event
        /\ todo[c][1] = [to |-> s, ev |-> e] /\ e \in Pending(c)
    <2>1. todo[c][1] \in Entry /\ todo[c][1].ev \in Pending(c)
      BY <1>3, CallFacts
    <2> QED
      BY <1>3, <2>1 DEF Entry
  <1>6. /\ \A b \in Client : Pending(b)' \subseteq Pending(b)
    <2>1. ASSUME NEW i \in 1 .. Len(todo'[c]) PROVE todo'[c][i].ev \in Pending(c)
      BY <1>3, <1>4, CallFacts
    <2> QED
      BY <1>1, <1>4, <2>1 DEF Pending
  <1>7. \/ ~Hands(s, e) /\ queue' = queue /\ missed' = missed
        \/ Hands(s, e) /\ queue' = [queue EXCEPT ![s] = Append(@, e)] /\ missed' = missed
        \/ Hands(s, e) /\ queue' = queue /\ missed' = [missed EXCEPT ![s] = @ \cup {e}]
    BY DEF Callback
  <1>8. Hands(s, e) => s \in Stream /\ Wants(s, e.doc)
    BY <1>5 DEF Hands
  <1> HIDE DEF s, e
  <1>9. OneEach'
    <2>1. OneEach
      BY DEF FInv, Emission
    <2>2. ASSUME NEW i \in 1 .. Len(todo'[c])
          PROVE  /\ todo'[c][i].ev \notin out'[c]
                 /\ \A j \in 1 .. Len(todo'[c]) :
                       i # j /\ todo'[c][i].to = todo'[c][j].to => todo'[c][i].to = Nobody
      BY <1>1, <1>3, <1>4, <2>1 DEF OneEach
    <2>3. ASSUME NEW b \in Client, b # c, NEW i \in 1 .. Len(todo'[b])
          PROVE  /\ todo'[b][i].ev \notin out'[b]
                 /\ \A j \in 1 .. Len(todo'[b]) :
                       i # j /\ todo'[b][i].to = todo'[b][j].to => todo'[b][i].to = Nobody
      BY <1>1, <1>4, <2>1, <2>3 DEF OneEach
    <2> QED
      BY <2>2, <2>3 DEF OneEach
  <1>10. Apart'
    BY <1>6 DEF FInv, Emission, Apart
  <1>11. Latest'
    BY <1>1, <1>6 DEF FInv, Emission, Latest
  <1>12. ASSUME NEW t \in Stream
         PROVE  \/ Got(t)' = Got(t)
                \/ t = s /\ Hands(s, e) /\ Got(t)' = Append(Got(t), e)
    <2>1. CASE queue' = queue
      BY <1>1, <2>1 DEF Got
    <2>2. CASE Hands(s, e) /\ queue' = [queue EXCEPT ![s] = Append(@, e)]
      <3>1. CASE t # s
        BY <1>1, <1>2, <2>2, <3>1 DEF Got
      <3>2. CASE t = s
        <4>1. queue'[t] = Append(queue[t], e) /\ sent'[t] = sent[t] /\ sending'[t] = sending[t]
          BY <1>1, <1>2, <2>2, <3>2
        <4>2. sent[t] \in Seq(Event) /\ sending[t] \in Seq(Event) /\ queue[t] \in Seq(Event)
          BY <1>2
        <4>0. e \in Event
          BY <1>5
        <4>3. sent[t] \o sending[t] \o Append(queue[t], e)
                 = Append(sent[t] \o sending[t] \o queue[t], e)
          BY <4>0, <4>2, EventAppends, Zenon
        <4> QED
          BY <2>2, <3>2, <4>1, <4>3 DEF Got
      <3> QED
        BY <3>1, <3>2
    <2> QED
      BY <1>7, <2>1, <2>2
  <1>13. Hands(s, e) => \A i \in 1 .. Len(Got(s)) : Got(s)[i] # e
    BY <1>3, <1>5, <1>8 DEF FInv, Emission, NotYet, Range
  <1>14. ASSUME NEW t \in Stream, Got(t)' = Append(Got(t), e)
         PROVE  /\ Len(Got(t)') = Len(Got(t)) + 1 /\ Len(Got(t)) \in Nat
                /\ Got(t)'[Len(Got(t)) + 1] = e
                /\ \A i \in 1 .. Len(Got(t)) : Got(t)'[i] = Got(t)[i]
                /\ \A i \in 1 .. Len(Got(t)') : i \in 1 .. Len(Got(t)) \/ i = Len(Got(t)) + 1
    <2>1. Got(t) \in Seq(Event)
      BY GotType DEF FInv
    <2> QED
      BY <1>5, <1>14, <2>1
  <1>15. NotYet'
    <2>1. ASSUME NEW b \in Client, NEW t \in Stream
          PROVE  /\ \A x \in out[b] : \A k \in 1 .. Len(Got(t)') : Got(t)'[k] # x
                 /\ \A i \in 1 .. Len(todo'[b]) : todo'[b][i].to = t =>
                       \A k \in 1 .. Len(Got(t)') : Got(t)'[k] # todo'[b][i].ev
      <3>1. /\ \A x \in out[b] : \A k \in 1 .. Len(Got(t)) : Got(t)[k] # x
            /\ \A i \in 1 .. Len(todo'[b]) : todo'[b][i].to = t =>
                  \A k \in 1 .. Len(Got(t)) : Got(t)[k] # todo'[b][i].ev
        <4>1. NotYet
          BY DEF FInv, Emission
        <4>2. CASE b = c
          <5>1. ASSUME NEW i \in 1 .. Len(todo'[c])
                PROVE  todo'[c][i] = todo[c][i + 1] /\ i + 1 \in 1 .. Len(todo[c])
            BY <1>3, <1>4
          <5>2. ASSUME NEW i \in 1 .. Len(todo[c]), todo[c][i].to = t
                PROVE  \A k \in 1 .. Len(Got(t)) : Got(t)[k] # todo[c][i].ev
            BY <4>1, <5>2 DEF NotYet, Range
          <5>3. \A x \in out[c] : \A k \in 1 .. Len(Got(t)) : Got(t)[k] # x
            BY <4>1 DEF NotYet, Range
          <5> QED
            BY <4>2, <5>1, <5>2, <5>3
        <4>3. CASE b # c
          BY <1>4, <4>1, <4>3 DEF NotYet, Range
        <4> QED
          BY <4>2, <4>3
      <3>2. CASE Got(t)' = Got(t)
        BY <3>1, <3>2
      <3>3. CASE t = s /\ Got(t)' = Append(Got(t), e)
        <4>1. e \notin out[b]
          <5>1. CASE b = c
            BY <1>3, <1>5, <5>1 DEF FInv, Emission, OneEach
          <5>2. CASE b # c
            BY <1>5, <5>2, CallFacts DEF FInv, Emission, Apart
          <5> QED
            BY <5>1, <5>2
        <4>2. \A i \in 1 .. Len(todo'[b]) : todo'[b][i].to = t => todo'[b][i].ev # e
          <5>1. CASE b = c
            <6>1. ASSUME NEW i \in 1 .. Len(todo[c]), i # 1, todo[c][i].to = s PROVE FALSE
              BY <1>3, <1>5, <3>3, <6>1, FeedAssumption DEF FInv, Emission, OneEach
            <6>2. ASSUME NEW i \in 1 .. Len(todo'[c])
                  PROVE  todo'[c][i] = todo[c][i + 1] /\ i + 1 \in 1 .. Len(todo[c]) /\ i + 1 # 1
              BY <1>3, <1>4
            <6> QED
              BY <3>3, <5>1, <6>1, <6>2
          <5>2. CASE b # c
            BY <1>4, <1>5, <5>2, CallFacts DEF FInv, Emission, Apart
          <5> QED
            BY <5>1, <5>2
        <4> QED
          BY <1>14, <3>1, <3>3, <4>1, <4>2
      <3> QED
        BY <1>12, <3>2, <3>3
    <2> QED
      BY <1>1, <2>1 DEF NotYet, Range
  <1>16. ASSUME NEW t \in Stream
         PROVE  /\ \A i \in 1 .. Len(Got(t)') : Wants(t, Got(t)'[i].doc)
                                                /\ Got(t)'[i].ver <= ver[Got(t)'[i].doc]
                /\ \A i, j \in 1 .. Len(Got(t)') : Got(t)'[i] = Got(t)'[j] => i = j
                /\ \A i, j \in 1 .. Len(Got(t)') :
                      i < j /\ Got(t)'[i].doc = Got(t)'[j].doc /\ Got(t)'[i].doc \notin raced
                          => Got(t)'[i].ver < Got(t)'[j].ver
    <2>1. CASE Got(t)' = Got(t)
      BY <2>1, StreamFacts
    <2>2. CASE t = s /\ Hands(s, e) /\ Got(t)' = Append(Got(t), e)
      <3>1. e.doc \in DocID /\ e.ver \in Nat /\ e.ver <= ver[e.doc]
            /\ (e.doc \notin raced => e.ver = ver[e.doc])
        BY <1>5, CallFacts DEF FInv, Emission, Latest
      <3>2. ASSUME NEW i \in 1 .. Len(Got(t)), Got(t)[i].doc = e.doc, e.doc \notin raced
            PROVE  Got(t)[i].ver < e.ver
        <4>1. Got(t)[i] \in Event /\ Got(t)[i].ver <= ver[Got(t)[i].doc] /\ Got(t)[i] # e
          BY <1>13, <2>2, StreamFacts
        <4>2. Got(t)[i].ver # e.ver /\ Got(t)[i].ver \in Nat
          BY <1>5, <3>2, <4>1 DEF Event
        <4> QED
          BY <3>1, <3>2, <4>1, <4>2
      <3>3. /\ \A i \in 1 .. Len(Got(t)') : Wants(t, Got(t)'[i].doc)
                                            /\ Got(t)'[i].ver <= ver[Got(t)'[i].doc]
        BY <1>8, <1>14, <2>2, <3>1, StreamFacts
      <3>4. \A i, j \in 1 .. Len(Got(t)') : Got(t)'[i] = Got(t)'[j] => i = j
        BY <1>13, <1>14, <2>2, StreamFacts
      <3>5. ASSUME NEW i \in 1 .. Len(Got(t)'), NEW j \in 1 .. Len(Got(t)'),
                   i < j, Got(t)'[i].doc = Got(t)'[j].doc, Got(t)'[i].doc \notin raced
            PROVE  Got(t)'[i].ver < Got(t)'[j].ver
        <4>1. CASE j \in 1 .. Len(Got(t))
          <5>1. i \in 1 .. Len(Got(t)) /\ Got(t)'[i] = Got(t)[i] /\ Got(t)'[j] = Got(t)[j]
            BY <1>14, <2>2, <3>5, <4>1
          <5> QED
            BY <3>5, <4>1, <5>1, StreamFacts
        <4>2. CASE j = Len(Got(t)) + 1
          <5>1. i \in 1 .. Len(Got(t)) /\ Got(t)'[i] = Got(t)[i] /\ Got(t)'[j] = e
            BY <1>14, <2>2, <3>5, <4>2
          <5> QED
            BY <3>2, <3>5, <5>1
        <4> QED
          BY <1>14, <2>2, <4>1, <4>2
      <3> QED
        BY <3>3, <3>4, <3>5
    <2> QED
      BY <1>12, <2>1, <2>2
  <1>17. DeliveredOnce' /\ InCommitOrder'
    BY <1>1, <1>16 DEF DeliveredOnce, InCommitOrder
  <1>18. ASSUME NEW t \in Stream, NEW d \in DocID, NEW v, Wants(t, d),
                \/ [doc |-> d, ver |-> v] \in Range(Got(t)) \cup missed[t]
                \/ Due(t, [doc |-> d, ver |-> v])
         PROVE  \/ [doc |-> d, ver |-> v] \in Range(Got(t)') \cup missed'[t]
                \/ Due(t, [doc |-> d, ver |-> v])'
    <2> DEFINE x == [doc |-> d, ver |-> v]
    <2>0. x.doc = d
      OBVIOUS
    <2> HIDE DEF x
    <2>1. CASE x \in Range(Got(t))
      <3>1. x \in Range(Got(t)')
        BY <1>12, <1>14, <2>1 DEF Range
      <3> QED
        BY <3>1 DEF x
    <2>2. CASE x \in missed[t]
      BY <1>2, <1>7, <2>2 DEF x
    <2>3. CASE Due(t, x)
      <3>1. PICK b \in Client : x \in out[b] \/ \E i \in 1 .. Len(todo[b]) : todo[b][i] = [to |-> t, ev |-> x]
        BY <2>3 DEF Due
      <3>2. CASE x \in out[b]
        BY <1>1, <3>2 DEF Due, x
      <3>3. CASE b # c /\ \E i \in 1 .. Len(todo[b]) : todo[b][i] = [to |-> t, ev |-> x]
        BY <1>4, <3>3 DEF Due, x
      <3>4. CASE b = c /\ \E i \in 1 .. Len(todo[b]) : todo[b][i] = [to |-> t, ev |-> x]
        <4>1. PICK i \in 1 .. Len(todo[c]) : todo[c][i] = [to |-> t, ev |-> x]
          BY <3>4
        <4>2. CASE i # 1
          <5>1. i - 1 \in 1 .. Len(todo'[c]) /\ todo'[c][i - 1] = [to |-> t, ev |-> x]
            BY <1>3, <1>4, <4>1, <4>2
          <5> QED
            BY <5>1 DEF Due, x
        <4>3. CASE i = 1
          <5>1. t = s /\ x = e
            BY <1>5, <4>1, <4>3
          <5>2. Hands(s, e)
            BY <1>18, <2>0, <5>1, FeedAssumption DEF Hands
          <5>3. CASE queue' = queue /\ missed' = [missed EXCEPT ![s] = @ \cup {e}]
            BY <1>2, <5>1, <5>3 DEF x
          <5>4. CASE queue' = [queue EXCEPT ![s] = Append(@, e)]
            <6>1. queue'[t] = Append(queue[t], e) /\ queue[t] \in Seq(Event)
                  /\ sent'[t] = sent[t] /\ sending'[t] = sending[t]
              BY <1>1, <1>2, <5>1, <5>4
            <6>0. sent[t] \in Seq(Event) /\ sending[t] \in Seq(Event) /\ queue[t] \in Seq(Event)
                  /\ e \in Event
              BY <1>2, <1>5
            <6>4. sent[t] \o sending[t] \o Append(queue[t], e)
                     = Append(sent[t] \o sending[t] \o queue[t], e)
              BY <6>0, EventAppends, Zenon
            <6>2. Got(t)' = Append(Got(t), e)
              BY <6>1, <6>4 DEF Got
            <6>3. x \in Range(Got(t)')
              BY <1>14, <5>1, <6>2 DEF Range
            <6> QED
              BY <6>3 DEF x
          <5> QED
            BY <1>7, <5>2, <5>3, <5>4
        <4> QED
          BY <4>2, <4>3
      <3> QED
        BY <3>1, <3>2, <3>3, <3>4
    <2> QED
      BY <1>18, <2>1, <2>2, <2>3 DEF x
  <1>19. Covered'
    <2>1. Covered
      BY DEF FInv, Emission
    <2>2. ASSUME NEW t \in Stream, state[t] = "open", NEW d \in DocID, Wants(t, d),
                 NEW v \in from[t][d] + 1 .. ver[d]
          PROVE  \/ [doc |-> d, ver |-> v] \in Range(Got(t)') \cup missed'[t]
                 \/ Due(t, [doc |-> d, ver |-> v])'
      <3>1. \/ [doc |-> d, ver |-> v] \in Range(Got(t)) \cup missed[t]
            \/ Due(t, [doc |-> d, ver |-> v])
        BY <2>1, <2>2 DEF Covered
      <3> QED
        BY <1>18, <2>2, <3>1
    <2> QED
      BY <1>1, <2>2 DEF Covered
  <1> QED
    BY <1>9, <1>10, <1>11, <1>15, <1>17, <1>19 DEF Emission

\* A new stream is owed nothing of what is committed already.
LEMMA SubscribeStep ==
    ASSUME FInv, NEW s \in Stream, Subscribe(s), \A t \in Stream : Got(t)' = Got(t)
    PROVE  Emission'
  <1>1. /\ state' = [state EXCEPT ![s] = "open"] /\ from' = [from EXCEPT ![s] = ver]
        /\ ver' = ver /\ out' = out /\ todo' = todo /\ missed' = missed /\ raced' = raced
    BY DEF Subscribe, calls
  <1>2. /\ state \in [Stream -> {"new", "open", "done"}]
        /\ from \in [Stream -> [DocID -> Nat]] /\ ver \in [DocID -> Nat]
    BY DEF FInv, FeedTypeOK
  <1>3. OneEach' /\ Apart' /\ Latest'
    <2>1. \A b \in Client : Pending(b)' = Pending(b)
      BY <1>1 DEF Pending
    <2>2. OneEach'
      BY <1>1 DEF FInv, Emission, OneEach
    <2>3. Apart' /\ Latest'
      BY <1>1, <2>1 DEF FInv, Emission, Apart, Latest
    <2> QED
      BY <2>2, <2>3
  <1>4. NotYet' /\ DeliveredOnce' /\ InCommitOrder'
    BY <1>1 DEF FInv, Emission, NotYet, DeliveredOnce, InCommitOrder, Range
  <1>5. Covered'
    <2>1. \A d \in DocID : from'[s][d] + 1 .. ver'[d] = {}
      BY <1>1, <1>2
    <2>2. \A t \in Stream : t # s => state'[t] = state[t] /\ from'[t] = from[t]
      BY <1>1, <1>2
    <2>3. Covered
      BY DEF FInv, Emission
    <2> QED
      BY <1>1, <2>1, <2>2, <2>3 DEF Covered, Due, Range
  <1> QED
    BY <1>3, <1>4, <1>5 DEF Emission

LEMMA FeedStep == FInv /\ [FeedNext]_feedVars => FInv'
  <1> SUFFICES ASSUME FInv, [FeedNext]_feedVars PROVE FInv'
    OBVIOUS
  <1>1. FeedTypeOK' /\ Registered' /\ CallShape'
    BY TypeStep, RegisteredStep, CallShapeStep DEF FInv
  <1> SUFFICES Emission'
    BY <1>1 DEF FInv
  <1>2. CASE \E c \in Client : Callback(c)
    BY <1>2, CallbackStep
  <1>3. CASE \A c \in Client : ~Callback(c)
    <2>1. \A s \in Stream : Got(s)' = Got(s)
      BY <1>3, GotKept DEF FInv
    <2>2. ASSUME NEW c \in Client, Commit(c) PROVE Emission'
      BY <2>1, <2>2, CommitStep
    <2>3. ASSUME NEW c \in Client, NEW e \in out[c], StartEmit(c, e) PROVE Emission'
      BY <2>1, <2>3, StartEmitStep
    <2>4. ASSUME NEW s \in Stream, Subscribe(s) PROVE Emission'
      BY <2>1, <2>4, SubscribeStep
    <2>5. CASE /\ UNCHANGED <<ver, out, todo, from, missed, raced>>
               /\ \A s \in Stream : state'[s] = "open" => state[s] = "open"
      BY <2>1, <2>5, QuietStep
    <2>6. ASSUME NEW s \in Stream, Leave(s)
          PROVE  /\ UNCHANGED <<ver, out, todo, from, missed, raced>>
                 /\ \A t \in Stream : state'[t] = "open" => state[t] = "open"
      <3>1. state \in [Stream -> {"new", "open", "done"}]
        BY DEF FInv, FeedTypeOK
      <3> QED
        BY <2>6, <3>1 DEF Leave, calls
    <2> QED
      BY <1>3, <2>2, <2>3, <2>4, <2>5, <2>6
      DEF FeedNext, Work, feedVars, calls, streams, Call, Begin, Refuse, Abort, Return,
          Take, Send, Cancel
  <1> QED
    BY <1>2, <1>3

\* EventEmitter and Subscribe: FInv holds in every state of the feed.
THEOREM FeedInvariance == FeedSpec => []FInv
  BY InitFInv, FeedStep, PTL DEF FeedSpec

\* The queue of a stream never exceeds subscribeQueueDepth, and every other
\* part of the state has its type.
THEOREM FeedTyping == FeedSpec => []FeedTypeOK
  <1>1. FInv => FeedTypeOK
    BY DEF FInv
  <1> QED
    BY <1>1, FeedInvariance, PTL

LEMMA CoveredSkipsNothing == FInv => NothingSkipped
  <1> SUFFICES ASSUME FInv, NEW s \in Stream, state[s] = "open", NEW d \in DocID, Wants(s, d),
                      NEW v \in from[s][d] + 1 .. ver[d]
               PROVE  [doc |-> d, ver |-> v] \in Range(Got(s)) \cup missed[s] \cup Underway
    BY DEF NothingSkipped
  <1> DEFINE e == [doc |-> d, ver |-> v]
  <1>1. e \in Range(Got(s)) \cup missed[s] \/ Due(s, e)
    BY DEF FInv, Emission, Covered
  <1> HIDE DEF e
  <1>2. ASSUME Due(s, e) PROVE e \in Underway
    <2>1. PICK c \in Client : e \in out[c] \/ \E i \in 1 .. Len(todo[c]) : todo[c][i] = [to |-> s, ev |-> e]
      BY <1>2 DEF Due
    <2>2. e \in Pending(c)
      BY <2>1, CallFacts
    <2> QED
      BY <2>2 DEF Underway
  <1> QED
    BY <1>1, <1>2 DEF e

\* Emit and Subscribe: a write committed after an open stream was registered
\* is never skipped by it, except for want of room in its queue.
THEOREM StreamsMissNothing == FeedSpec => []NothingSkipped
  BY CoveredSkipsNothing, FeedInvariance, PTL

\* Emit and the callback: no stream gets an event twice, unfiltered or before
\* its commit.
THEOREM EventsComeOnce == FeedSpec => []DeliveredOnce
  <1>1. FInv => DeliveredOnce
    BY DEF FInv, Emission
  <1> QED
    BY <1>1, FeedInvariance, PTL

\* The emission loop: the events of a document arrive in commit order unless
\* two calls emit events of it at the same time.
THEOREM EventsComeInOrder == FeedSpec => []InCommitOrder
  <1>1. FInv => InCommitOrder
    BY DEF FInv, Emission
  <1> QED
    BY <1>1, FeedInvariance, PTL

----------------------------------------------------------------------------
(* The server process.                                                     *)

\* Every step of the process is one of the feed or leaves it alone.
LEMMA ServerStepIsFeedStep == [ServerNext]_serverVars => [FeedNext]_feedVars
  BY DEF ServerNext, serverVars, Main, Listen, StartHTTP, Stop, Drained, ShutdownDone, Close,
         Exit, BindHTTP, Signal, Enter, Lock, Reject, Run, Open, Forward, Receive, Hangup, FeedNext

\* main: the server process implements the event feed, whatever it accepts
\* and whenever it is stopped.
THEOREM ServerIsFeed == ServerSpec => FeedSpec
  <1>1. ServerInit => FeedInit
    BY DEF ServerInit
  <1> QED
    BY <1>1, ServerStepIsFeedStep, PTL DEF ServerSpec, FeedSpec

\* The order of the shutdown: listeners close before main waits, and main
\* goes on when there is nothing left to wait for.
Shutdown ==
    /\ phase = "drain" => accepting \cap {"unix", "tcp"} = {}
    /\ phase \in {"httpstop", "closing", "closed", "exited"} =>
          /\ accepting = {}
          /\ \A c \in Client : Via[c] = "grpc" => pc[c] = "idle"
          /\ \A s \in Stream : state[s] # "open"
    /\ ClosedQuiet

SInv == FInv /\ ServerTypeOK /\ Shutdown

LEMMA InitSInv == ServerInit => SInv
  BY InitFInv DEF ServerInit, SInv, FInv, ServerTypeOK, Shutdown, ClosedQuiet

LEMMA ServerTypeStep == SInv /\ [ServerNext]_serverVars => ServerTypeOK'
  <1> SUFFICES ASSUME SInv, [ServerNext]_serverVars PROVE ServerTypeOK'
    OBVIOUS
  <1>1. FeedTypeOK'
    BY ServerStepIsFeedStep, TypeStep DEF SInv, FInv
  <1>2. ServerTypeOK
    BY DEF SInv
  <1>3. CASE UNCHANGED life
    BY <1>1, <1>2, <1>3 DEF ServerTypeOK, life
  <1>4. CASE Main
    BY <1>1, <1>2, <1>4
    DEF Main, Listen, StartHTTP, Stop, Drained, ShutdownDone, Close, Exit, ServerTypeOK
  <1>5. CASE BindHTTP \/ Signal
    BY <1>1, <1>2, <1>5 DEF BindHTTP, Signal, ServerTypeOK
  <1> QED
    BY <1>3, <1>4, <1>5
    DEF ServerNext, serverVars, Enter, Lock, Reject, Run, Open, Forward, Receive, Hangup

LEMMA ShutdownStep == SInv /\ [ServerNext]_serverVars => Shutdown'
  <1> SUFFICES ASSUME SInv, [ServerNext]_serverVars PROVE Shutdown'
    OBVIOUS
  <1> USE DEF Shutdown, ClosedQuiet
  <1>1. Shutdown /\ ServerTypeOK /\ CallShape
        /\ pc \in [Client -> {"idle", "called", "tx", "emit"}]
        /\ state \in [Stream -> {"new", "open", "done"}]
    BY DEF SInv, FInv, FeedTypeOK
  <1>2. CASE Main
    <2>1. UNCHANGED <<pc, state>>
      BY <1>2 DEF Main, Listen, StartHTTP, Stop, Drained, ShutdownDone, Close, Exit,
                  feedVars, calls, streams
    <2>2. CASE Close
      BY <1>1, <2>1, <2>2, FeedAssumption DEF Close, CallShape
    <2>3. CASE ~Close
      BY <1>1, <1>2, <2>1, <2>3
      DEF Main, Listen, StartHTTP, Stop, Drained, ShutdownDone, Exit
    <2> QED
      BY <2>2, <2>3
  <1>3. CASE BindHTTP \/ Signal
    BY <1>1, <1>3 DEF BindHTTP, Signal, feedVars, calls, streams
  <1>4. ASSUME NEW c \in Client, Enter(c) \/ Lock(c) \/ Reject(c) \/ Run(c) PROVE Shutdown'
    <2>1. UNCHANGED <<life, state>> /\ ~Ended
          /\ \A b \in Client : b # c => pc'[b] = pc[b]
      BY <1>1, <1>4 DEF Enter, Lock, Reject, Run, Call, Begin, Refuse, Work, Commit, Abort,
                        StartEmit, Callback, Return, streams, Closed, Ended
    <2>2. pc[c] = "idle" => pc'[c] = "idle" \/ Reachable(c)
      BY <1>4 DEF Enter, Lock, Reject, Run, Begin, Refuse, Work, Commit, Abort,
                  StartEmit, Callback, Return
    <2>3. pc'[c] = "tx" => pc[c] = "tx" \/ ~Closed
      BY <1>1, <1>4 DEF Enter, Lock, Reject, Run, Call, Refuse, Work, Commit, Abort,
                        StartEmit, Callback, Return
    <2> QED
      BY <1>1, <2>1, <2>2, <2>3 DEF life, Reachable, Closed
  <1>5. ASSUME NEW s \in Stream, Open(s) \/ Forward(s) \/ Receive(s) \/ Hangup(s) PROVE Shutdown'
    <2>1. UNCHANGED <<life, pc>>
          /\ \A t \in Stream : state'[t] = "open" => state[t] = "open" \/ accepting # {}
      BY <1>1, <1>5 DEF Open, Forward, Receive, Hangup, Subscribe, Take, Leave, Send, Cancel, calls
    <2> QED
      BY <1>1, <2>1 DEF life
  <1>6. CASE UNCHANGED serverVars
    BY <1>1, <1>6 DEF serverVars, feedVars, calls, streams, life
  <1> QED
    BY <1>2, <1>3, <1>4, <1>5, <1>6 DEF ServerNext

LEMMA ServerInvariance == ServerSpec => []SInv
  <1>1. SInv /\ [ServerNext]_serverVars => SInv'
    BY ServerTypeStep, ShutdownStep, ServerStepIsFeedStep, FeedStep DEF SInv
  <1> QED
    BY <1>1, InitSInv, PTL DEF ServerSpec

\* main: its phases and listeners have their types, and the feed has.
THEOREM ServerTyping == ServerSpec => []ServerTypeOK
  <1>1. SInv => ServerTypeOK
    BY DEF SInv
  <1> QED
    BY <1>1, ServerInvariance, PTL

\* GracefulStop before store.Close: no gRPC call or stream is cut off.
THEOREM ShutdownIsGraceful == ServerSpec => []NoCallCut
  <1>1. SInv => NoCallCut
    BY DEF SInv, FInv, Shutdown, CallShape, NoCallCut, Pending
  <1> QED
    BY <1>1, ServerInvariance, PTL

\* store.Close waits for the write lock: no transaction outlives it.
THEOREM CloseIsQuiet == ServerSpec => []ClosedQuiet
  <1>1. SInv => ClosedQuiet
    BY DEF SInv, Shutdown
  <1> QED
    BY <1>1, ServerInvariance, PTL
=============================================================================
