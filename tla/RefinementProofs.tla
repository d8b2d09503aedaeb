-------------------------- MODULE RefinementProofs --------------------------
(***************************************************************************)
(* DocStore implements AtomicStore: transactions with working copies, one  *)
(* document at a time, look atomic to callers and subscribers.             *)
(***************************************************************************)
EXTENDS DocStoreProofs

\* No two events of a sequence are about the same document.
Distinct(s) == \A i, j \in 1 .. Len(s) : s[i].doc = s[j].doc => i = j

\* The documents whose write the open transaction has done and announced.
Announced ==
    {e \in DocID : /\ e \notin todo /\ writes[e] # Keep
                   /\ ~(writes[e] = Absent /\ Atomic!Prior(db.docs[e]) = Absent)}

\* The working copy is the committed documents overwritten with what has been
\* written so far, and the collected events are the ones owed for that.
Progress ==
    /\ todo \subseteq Written(writes)
    /\ writer # NoClient =>
          /\ work.docs = [d \in DocID |-> IF d \in todo \/ writes[d] = Keep
                                          THEN db.docs[d] ELSE writes[d]]
          /\ EventSet(evs) = {Atomic!EventFor(db.docs[d], writes[d], d) : d \in Announced}
    /\ Distinct(evs)
    /\ \A c \in Client : Distinct(out[c])

----------------------------------------------------------------------------
\* Emission removes one event from the set of those still to be emitted.
LEMMA TailEvents ==
    ASSUME NEW s \in Seq(Event), s # <<>>, Distinct(s)
    PROVE  /\ Distinct(Tail(s))
           /\ s[1] \in EventSet(s)
           /\ EventSet(Tail(s)) = EventSet(s) \ {s[1]}
<1>1. Len(s) \in Nat /\ Len(s) >= 1 /\ Len(Tail(s)) = Len(s) - 1
  OBVIOUS
<1>2. \A i \in 1 .. Len(Tail(s)) : Tail(s)[i] = s[i + 1]
  OBVIOUS
<1>3. Distinct(Tail(s))
  <2>1. ASSUME NEW i \in 1 .. Len(Tail(s)), NEW j \in 1 .. Len(Tail(s)),
               Tail(s)[i].doc = Tail(s)[j].doc
        PROVE  i = j
    <3>1. i + 1 \in 1 .. Len(s) /\ j + 1 \in 1 .. Len(s)
      BY <1>1
    <3>2. s[i + 1].doc = s[j + 1].doc
      BY <1>2, <2>1
    <3>3. i + 1 = j + 1
      BY <3>1, <3>2 DEF Distinct
    <3>. QED BY <3>3
  <2>. QED BY <2>1 DEF Distinct
<1>4. s[1] \in EventSet(s)
  BY <1>1 DEF EventSet
<1>5. ASSUME NEW x \in EventSet(Tail(s)) PROVE x \in EventSet(s) \ {s[1]}
  <2>1. PICK i \in 1 .. Len(Tail(s)) : x = Tail(s)[i]
    BY DEF EventSet
  <2>2. i + 1 \in 1 .. Len(s) /\ 1 \in 1 .. Len(s) /\ i + 1 # 1 /\ x = s[i + 1]
    BY <1>1, <1>2, <2>1
  <2>3. s[i + 1].doc # s[1].doc
    BY <2>2 DEF Distinct
  <2>. QED BY <2>2, <2>3 DEF EventSet
<1>6. ASSUME NEW x \in EventSet(s) \ {s[1]} PROVE x \in EventSet(Tail(s))
  <2>1. PICK i \in 1 .. Len(s) : x = s[i]
    BY DEF EventSet
  <2>2. i # 1
    BY <2>1
  <2>3. i - 1 \in 1 .. Len(Tail(s)) /\ (i - 1) + 1 = i
    BY <1>1, <2>2
  <2>4. x = Tail(s)[i - 1]
    BY <1>2, <2>1, <2>3
  <2>. QED BY <2>3, <2>4 DEF EventSet
<1>. QED BY <1>3, <1>4, <1>5, <1>6

\* Collecting an event about a new document adds it to the set.
LEMMA AppendEvents ==
    ASSUME NEW s \in Seq(Event), NEW e \in Event, Distinct(s),
           \A x \in EventSet(s) : x.doc # e.doc
    PROVE  /\ Distinct(Append(s, e))
           /\ EventSet(Append(s, e)) = EventSet(s) \cup {e}
<1> DEFINE t == Append(s, e)
<1>1. Len(s) \in Nat /\ Len(t) = Len(s) + 1 /\ t[Len(t)] = e
  OBVIOUS
<1>2. \A i \in 1 .. Len(s) : t[i] = s[i] /\ s[i] \in EventSet(s)
  BY DEF EventSet
<1>3. \A i \in 1 .. Len(t) : i \in 1 .. Len(s) \/ i = Len(t)
  BY <1>1
<1>4. \A i \in 1 .. Len(s) : i \in 1 .. Len(t)
  BY <1>1
<1>. HIDE DEF t
<1>5. Distinct(t)
  <2>1. ASSUME NEW i \in 1 .. Len(t), NEW j \in 1 .. Len(t), t[i].doc = t[j].doc
        PROVE  i = j
    <3>1. CASE i \in 1 .. Len(s) /\ j \in 1 .. Len(s)
      BY <1>2, <2>1, <3>1 DEF Distinct
    <3>2. CASE i \in 1 .. Len(s) /\ j = Len(t)
      BY <1>1, <1>2, <2>1, <3>2
    <3>3. CASE i = Len(t) /\ j \in 1 .. Len(s)
      BY <1>1, <1>2, <2>1, <3>3
    <3>. QED BY <1>3, <3>1, <3>2, <3>3
  <2>. QED BY <2>1 DEF Distinct
<1>6. EventSet(t) = EventSet(s) \cup {e}
  <2>1. ASSUME NEW x \in EventSet(t) PROVE x \in EventSet(s) \cup {e}
    BY <1>1, <1>2, <1>3 DEF EventSet
  <2>2. ASSUME NEW x \in EventSet(s) PROVE x \in EventSet(t)
    BY <1>2, <1>4 DEF EventSet
  <2>3. e \in EventSet(t)
    BY <1>1 DEF EventSet
  <2>. QED BY <2>1, <2>2, <2>3
<1>. QED BY <1>5, <1>6 DEF t

\* An empty event queue announces nothing.
LEMMA NoEvents == Distinct(<<>>) /\ EventSet(<<>>) = {}
<1>1. Len(<<>>) = 0 /\ 1 .. 0 = {}
  OBVIOUS
<1>. QED BY <1>1 DEF Distinct, EventSet

\* An empty sequence is the only one without events.
LEMMA EventsExist ==
    ASSUME NEW s \in Seq(Event)
    PROVE  EventSet(s) = {} <=> s = <<>>
<1>1. ASSUME s # <<>> PROVE s[1] \in EventSet(s)
  BY <1>1 DEF EventSet
<1>. QED BY <1>1, NoEvents

\* A put reports what the abstract store owes for it, and a delete too.
LEMMA EventsAgree ==
    ASSUME NEW b, NEW d \in DocID
    PROVE  /\ Atomic!Prior(b.docs[d]) = oldDoc(b, d)
           /\ \A new \in Content :
                 putEvent(b, d, new) = Atomic!EventFor(b.docs[d], new, d)
           /\ EventSet(deleteEvents(b, d)) =
                 IF oldDoc(b, d) = Absent THEN {}
                 ELSE {Atomic!EventFor(b.docs[d], Absent, d)}
           /\ Distinct(deleteEvents(b, d))
           /\ \A new : Atomic!EventFor(b.docs[d], new, d).doc = d
<1>1. Atomic!Prior(b.docs[d]) = oldDoc(b, d)
  BY DEF Atomic!Prior, oldDoc, Decoded
<1>2. ASSUME NEW new \in Content
      PROVE  putEvent(b, d, new) = Atomic!EventFor(b.docs[d], new, d)
  BY <1>1, ContentAssumption DEF putEvent, Atomic!EventFor
<1>3. CASE oldDoc(b, d) = Absent
  BY <1>1, <1>2, <1>3, NoEvents DEF deleteEvents, Atomic!EventFor
<1>4. CASE oldDoc(b, d) # Absent
  <2> DEFINE e == [kind |-> "Retract", doc |-> d, old |-> oldDoc(b, d), new |-> Absent]
  <2>1. deleteEvents(b, d) = <<e>>
    BY <1>4 DEF deleteEvents
  <2>2. Atomic!EventFor(b.docs[d], Absent, d) = e
    BY <1>1 DEF Atomic!EventFor
  <2>. HIDE DEF e
  <2>3. EventSet(<<e>>) = {e} /\ Distinct(<<e>>)
    BY DEF EventSet, Distinct
  <2>4. \A new : Atomic!EventFor(b.docs[d], new, d).doc = d
    BY DEF Atomic!EventFor
  <2>. QED BY <1>1, <1>2, <1>4, <2>1, <2>2, <2>3, <2>4
<1>. QED BY <1>3, <1>4

----------------------------------------------------------------------------
\* A freshly opened store has no call under way.
LEMMA InitProgress == Init => Progress
<1>. SUFFICES ASSUME Init PROVE Progress
  OBVIOUS
<1>. QED BY NoEvents DEF Init, Progress

\* Every step keeps the working copy and the events in step with the writes.
LEMMA NextProgress == Inv /\ Progress /\ [Next]_vars => Progress'
<1>. SUFFICES ASSUME Inv, Progress, [Next]_vars PROVE Progress'
  OBVIOUS
<1>0. /\ TypeOK /\ db.docs \in [DocID -> Stored] /\ work.docs \in [DocID -> Stored]
      /\ Keep \notin Stored /\ Absent \in Stored /\ Content \subseteq Stored
  BY PartTypes, ClientAssumption DEF Inv, TypeOK, Stored
<1>1. ASSUME NEW c \in Client, BeginPut(c) PROVE Progress'
  <2>1. PICK w \in [DocID -> Content \cup {Keep}] : writes' = w /\ todo' = Written(w)
    BY <1>1 DEF BeginPut
  <2>2. work' = db /\ evs' = <<>> /\ db' = db /\ out' = out
    BY <1>1 DEF BeginPut
  <2>3. Announced' = {}
    BY <2>1 DEF Announced, Written
  <2>4. work'.docs = [d \in DocID |-> IF d \in todo' \/ writes'[d] = Keep
                                      THEN db'.docs[d] ELSE writes'[d]]
    BY <1>0, <2>1, <2>2 DEF Written
  <2>. QED BY <2>1, <2>2, <2>3, <2>4, NoEvents DEF Progress
<1>2. ASSUME NEW d \in DocID, PutDoc(d) PROVE Progress'
  <2> DEFINE e == putEvent(work, d, writes[d])
  <2>1. /\ d \in todo /\ writes[d] \in Content
        /\ ~putFails(work, d, writes[d]) /\ work' \in putInTx(work, d, writes[d])
        /\ db' = db /\ writer' = writer /\ writes' = writes /\ out' = out
        /\ todo' = todo \ {d} /\ evs' = Append(evs, e)
    BY <1>2 DEF PutDoc, Inv, TxShape
  <2>2. writer # NoClient
    BY <2>1 DEF Inv, TxShape
  <2>3. work'.docs = [work.docs EXCEPT ![d] = writes[d]] /\ work.docs[d] = db.docs[d]
    BY <2>1, <2>2, PutPreserves DEF Inv, Progress
  <2>4. work'.docs = [x \in DocID |-> IF x \in todo' \/ writes'[x] = Keep
                                      THEN db'.docs[x] ELSE writes'[x]]
    BY <1>0, <2>1, <2>2, <2>3, ClientAssumption DEF Progress
  <2>5. e = Atomic!EventFor(db.docs[d], writes[d], d) /\ e \in Event /\ e.doc = d
    <3>1. work \in BucketsType
      BY <1>0 DEF TypeOK
    <3>2. e \in Event
      BY <2>1, <3>1, EventTypes
    <3>3. e = Atomic!EventFor(work.docs[d], writes[d], d)
      BY <2>1, EventsAgree
    <3>4. e.doc = d
      BY DEF putEvent
    <3>. QED BY <2>3, <3>2, <3>3, <3>4
  <2>. HIDE DEF e
  <2>6. Announced' = Announced \cup {d} /\ d \notin Announced
    BY <1>0, <2>1, ContentAssumption DEF Announced
  <2>7. \A x \in Announced : x \in DocID
    BY DEF Announced
  <2>8. \A x \in EventSet(evs) : x.doc # e.doc
    <3>1. ASSUME NEW x \in EventSet(evs) PROVE x.doc # d
      <4>1. PICK y \in Announced : x = Atomic!EventFor(db.docs[y], writes[y], y)
        BY <2>2 DEF Progress
      <4>2. x.doc = y
        BY <2>7, <4>1, EventsAgree
      <4>. QED BY <2>6, <4>2
    <3>. QED BY <2>5, <3>1
  <2>9. Distinct(evs') /\ EventSet(evs') = EventSet(evs) \cup {e}
    BY <1>0, <2>1, <2>5, <2>8, AppendEvents DEF TypeOK, Progress
  <2>10. EventSet(evs') =
           {Atomic!EventFor(db'.docs[x], writes'[x], x) : x \in Announced'}
    BY <2>1, <2>2, <2>5, <2>6, <2>9 DEF Progress
  <2>. QED BY <2>1, <2>4, <2>9, <2>10 DEF Progress, Written
<1>3. ASSUME Rollback PROVE Progress'
  BY <1>3, NoEvents DEF Rollback, Progress
<1>4. ASSUME NEW c \in Client, NEW d \in DocID, BeginDelete(c, d) PROVE Progress'
  <2>1. /\ writer' = c /\ writes' = [NoWrites EXCEPT ![d] = Absent]
        /\ work' \in deleteInTx(db, d) /\ todo' = {} /\ evs' = deleteEvents(db, d)
        /\ db' = db /\ out' = out
    BY <1>4 DEF BeginDelete
  <2>2. writes'[d] = Absent /\ \A x \in DocID \ {d} : writes'[x] = Keep
    BY <2>1 DEF NoWrites
  <2>3. work'.docs = [db.docs EXCEPT ![d] = Absent]
    BY <2>1, DeletePreserves DEF Inv
  <2>4. work'.docs = [x \in DocID |-> IF x \in todo' \/ writes'[x] = Keep
                                      THEN db'.docs[x] ELSE writes'[x]]
    BY <1>0, <2>1, <2>2, <2>3
  <2>5. Announced' = IF oldDoc(db, d) = Absent THEN {} ELSE {d}
    <3>1. Atomic!Prior(db.docs[d]) = oldDoc(db, d)
      BY EventsAgree
    <3>. QED BY <1>0, <2>1, <2>2, <3>1 DEF Announced
  <2>6. EventSet(evs') =
           {Atomic!EventFor(db'.docs[x], writes'[x], x) : x \in Announced'}
    BY <2>1, <2>2, <2>5, EventsAgree
  <2>. QED BY <2>1, <2>4, <2>6, EventsAgree DEF Progress
<1>5. ASSUME Commit PROVE Progress'
  <2>1. /\ out' = [out EXCEPT ![writer] = evs] /\ writer' = NoClient
        /\ evs' = <<>> /\ todo' = {}
    BY <1>5 DEF Commit
  <2>2. \A c \in Client : out'[c] = evs \/ out'[c] = out[c]
    BY <1>0, <2>1 DEF TypeOK
  <2>. QED BY <2>1, <2>2, NoEvents DEF Progress
<1>6. ASSUME NEW c \in Client, Emit(c) PROVE Progress'
  <2>1. /\ out[c] # <<>> /\ out' = [out EXCEPT ![c] = Tail(out[c])]
        /\ UNCHANGED <<db, writer, work, writes, todo, evs>>
    BY <1>6 DEF Emit
  <2>2. Distinct(Tail(out[c]))
    BY <1>0, <2>1, TailEvents DEF TypeOK, Progress
  <2>3. \A x \in Client : Distinct(out'[x])
    BY <1>0, <2>1, <2>2 DEF TypeOK, Progress
  <2>. QED BY <2>1, <2>3 DEF Progress, Announced
<1>7. ASSUME NEW c \in Client, NEW p \in Path, StatsView(c, p) PROVE Progress'
  BY <1>7 DEF StatsView, Progress, Announced
<1>8. ASSUME NEW c \in Client, StatsUpdate(c) PROVE Progress'
  <2>1. writer' = NoClient /\ writes' = writes /\ todo' = todo /\ evs' = evs /\ out' = out
    BY <1>8 DEF StatsUpdate
  <2>. QED BY <2>1 DEF Progress
<1>9. ASSUME Crash PROVE Progress'
  BY <1>9, NoEvents DEF Crash, Progress
<1>11. ASSUME NEW c \in Client, StatsFails(c) PROVE Progress'
  BY <1>11 DEF StatsFails, Progress, Announced
<1>10. ASSUME UNCHANGED vars PROVE Progress'
  BY <1>10 DEF vars, Progress, Announced
<1>. QED
  BY <1>1, <1>2, <1>3, <1>4, <1>5, <1>6, <1>7, <1>8, <1>9, <1>10, <1>11
  DEF Next, TxStep, PutDocFails, CancelBatch, CommitFails

\* Initial states of the store are initial states of the abstract one.
LEMMA InitRefines == Init => Atomic!Init
<1>. SUFFICES ASSUME Init PROVE Atomic!Init
  OBVIOUS
<1>1. db.docs = [d \in DocID |-> Absent]
  BY DEF Init, EmptyBuckets
<1>2. [c \in Client |-> IF writer = c THEN {writes} ELSE {}] = [c \in Client |-> {}]
  BY ClientAssumption DEF Init
<1>3. [c \in Client |-> EventSet(out[c])] = [c \in Client |-> {}]
  BY NoEvents DEF Init
<1>. QED BY <1>1, <1>2, <1>3 DEF Atomic!Init

\* Every step of the store is a step of the abstract one or leaves it alone.
LEMMA NextRefines ==
    Inv /\ Progress /\ [Next]_vars => [Atomic!Next]_(Atomic!vars)
<1>. SUFFICES ASSUME Inv, Progress, [Next]_vars
              PROVE  Atomic!Next \/ UNCHANGED Atomic!vars
  OBVIOUS
<1> DEFINE call == [c \in Client |-> IF writer = c THEN {writes} ELSE {}]
           owed == [c \in Client |-> EventSet(out[c])]
<1>0. TypeOK /\ Inv' /\ Progress'
  BY NextInv, NextProgress DEF Inv
<1>1. ASSUME NEW c \in Client, writer = NoClient, out[c] = <<>>, writer' = c,
             writes' \in Atomic!Writes, db' = db, out' = out
      PROVE  Atomic!Request(c)
  <2>1. call[c] = {} /\ owed[c] = {}
    BY <1>1, NoEvents, ClientAssumption
  <2>2. call' = [call EXCEPT ![c] = {writes'}]
    BY <1>1, ClientAssumption
  <2>. QED BY <1>1, <2>1, <2>2 DEF Atomic!Request
<1>2. ASSUME NEW c \in Client, BeginPut(c) PROVE Atomic!Request(c)
  BY <1>0, <1>1, <1>2 DEF BeginPut, Ready, Atomic!Writes, TypeOK
<1>3. ASSUME NEW c \in Client, NEW d \in DocID, BeginDelete(c, d)
      PROVE  Atomic!Request(c)
  <2>1. writes' \in Atomic!Writes
    BY <1>0 DEF Inv, TypeOK, Atomic!Writes
  <2>. QED BY <1>1, <1>3, <2>1 DEF BeginDelete, Ready
<1>4. ASSUME db'.docs = db.docs, writer' = writer, writer = NoClient \/ writes' = writes,
             out' = out
      PROVE  UNCHANGED Atomic!vars
  <2>1. call' = call
    BY <1>4, ClientAssumption
  <2>. QED BY <1>4, <2>1 DEF Atomic!vars
<1>5. ASSUME NEW c \in Client, writer = c, Rollback PROVE Atomic!Refuse(c)
  <2>1. writer' = NoClient /\ db' = db /\ out' = out
    BY <1>5 DEF Rollback
  <2>2. call[c] # {} /\ call' = [call EXCEPT ![c] = {}]
    BY <1>5, <2>1, ClientAssumption
  <2>. QED BY <2>1, <2>2 DEF Atomic!Refuse
<1>6. ASSUME NEW c \in Client, writer = c, Commit PROVE Atomic!Apply(c)
  <2>1. /\ db' = work /\ out' = [out EXCEPT ![c] = evs]
        /\ writer' = NoClient /\ todo = {} /\ writer # NoClient
    BY <1>0, <1>6 DEF Commit, TypeOK
  <2>2. call[c] = {writes} /\ call' = [call EXCEPT ![c] = {}]
    BY <1>6, <2>1, ClientAssumption
  <2>3. work.docs = Atomic!Applied(db.docs, writes)
    BY <2>1, ClientAssumption DEF Progress, Atomic!Applied
  <2>4. EventSet(evs) = Atomic!EventsFor(db.docs, writes)
    <3>1. EventSet(evs) = {Atomic!EventFor(db.docs[d], writes[d], d) : d \in Announced}
      BY <2>1, ClientAssumption DEF Progress
    <3>2. Announced = {e \in DocID : writes[e] # Keep /\ ~(writes[e] = Absent
                                        /\ Atomic!Prior(db.docs[e]) = Absent)}
      BY <2>1 DEF Announced
    <3>. QED BY <3>1, <3>2 DEF Atomic!EventsFor
  <2>5. owed' = [owed EXCEPT ![c] = Atomic!EventsFor(db.docs, writes)]
    BY <1>0, <2>1, <2>4 DEF TypeOK
  <2>. QED BY <2>1, <2>2, <2>3, <2>5 DEF Atomic!Apply
<1>7. ASSUME NEW c \in Client, Emit(c) PROVE Atomic!Deliver(c)
  <2>1. /\ out[c] # <<>> /\ out' = [out EXCEPT ![c] = Tail(out[c])]
        /\ db' = db /\ writer' = writer /\ writes' = writes
    BY <1>7 DEF Emit
  <2>2. /\ out[c][1] \in EventSet(out[c])
        /\ EventSet(Tail(out[c])) = EventSet(out[c]) \ {out[c][1]}
    BY <1>0, <2>1, TailEvents DEF TypeOK, Progress
  <2>3. owed' = [owed EXCEPT ![c] = owed[c] \ {out[c][1]}]
    BY <1>0, <2>1, <2>2 DEF TypeOK
  <2>4. out[c][1] \in owed[c] /\ call' = call
    BY <2>1, <2>2
  <2>. QED BY <2>1, <2>3, <2>4 DEF Atomic!Deliver
<1>8. ASSUME Crash PROVE Atomic!Crash
  <2>1. db' = db /\ writer' = NoClient /\ out' = [c \in Client |-> <<>>]
    BY <1>8 DEF Crash
  <2>2. call' = [c \in Client |-> {}]
    BY <2>1, ClientAssumption
  <2>3. owed' = [c \in Client |-> {}]
    BY <2>1, NoEvents
  <2>. QED BY <2>1, <2>2, <2>3 DEF Atomic!Crash
<1>9. ASSUME NEW d \in DocID, PutDoc(d) PROVE UNCHANGED Atomic!vars
  BY <1>4, <1>9 DEF PutDoc
<1>10. ASSUME NEW c \in Client, NEW p \in Path, StatsView(c, p)
       PROVE  UNCHANGED Atomic!vars
  BY <1>4, <1>10 DEF StatsView
<1>11. ASSUME NEW c \in Client, StatsUpdate(c) PROVE UNCHANGED Atomic!vars
  <2>1. PICK p \in asking[c] :
           db' = [db EXCEPT !.stat = [@ EXCEPT ![p] = statsRecompute(db.num, p)]]
    BY <1>11 DEF StatsUpdate
  <2>2. p \in Path
    BY <1>0 DEF TypeOK
  <2>3. db'.docs = db.docs
    BY <2>1, <2>2, RecomputePreserves DEF Inv
  <2>4. writer' = writer /\ writes' = writes /\ out' = out
    BY <1>11 DEF StatsUpdate
  <2>. QED BY <1>4, <2>3, <2>4
<1>16. ASSUME NEW c \in Client, StatsFails(c) PROVE UNCHANGED Atomic!vars
  BY <1>4, <1>16 DEF StatsFails
<1>12. ASSUME UNCHANGED vars PROVE UNCHANGED Atomic!vars
  BY <1>4, <1>12 DEF vars
<1>13. todo # {} => writer # NoClient
  BY DEF Inv, TxShape
<1>14. ASSUME Rollback, writer # NoClient PROVE Atomic!Next
  <2>1. PICK c \in Client : writer = c
    BY <1>0, <1>14 DEF TypeOK
  <2>2. Atomic!Refuse(c)
    BY <1>5, <1>14, <2>1
  <2>. QED BY <2>2 DEF Atomic!Next
<1>15. ASSUME TxStep PROVE Atomic!Next \/ UNCHANGED Atomic!vars
  <2>1. ASSUME Commit PROVE Atomic!Next
    <3>1. PICK c \in Client : writer = c
      BY <1>0, <2>1 DEF Commit, TypeOK
    <3>2. Atomic!Apply(c)
      BY <1>6, <2>1, <3>1
    <3>. QED BY <3>2 DEF Atomic!Next
  <2>2. ASSUME NEW d \in DocID, PutDocFails(d) PROVE Atomic!Next
    BY <1>13, <1>14, <2>2 DEF PutDocFails
  <2>3. ASSUME CancelBatch \/ CommitFails PROVE Atomic!Next
    BY <1>13, <1>14, <2>3 DEF CancelBatch, CommitFails
  <2>. QED BY <1>9, <1>15, <2>1, <2>2, <2>3 DEF TxStep
<1>. QED
  BY <1>2, <1>3, <1>7, <1>8, <1>10, <1>11, <1>12, <1>15, <1>16 DEF Next, Atomic!Next

\* The store implements the atomic store: all or nothing for every batch,
\* and for every commit exactly the events of what it replaced.
THEOREM StoreIsAtomic == Spec => ImplementsAtomicStore
<1>1. Inv /\ Progress /\ [Next]_vars => Inv' /\ Progress'
  BY NextInv, NextProgress
<1>2. Spec => [](Inv /\ Progress)
  BY <1>1, InitInv, InitProgress, PTL DEF Spec
<1>. QED
  BY <1>2, InitRefines, NextRefines, PTL DEF Spec, ImplementsAtomicStore, Atomic!Spec
============================================================================
