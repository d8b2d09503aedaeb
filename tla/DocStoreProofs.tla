--------------------------- MODULE DocStoreProofs ---------------------------
(***************************************************************************)
(* The invariants of DocStore, for every corpus, number of clients and     *)
(* documents, id space, depth cap and bound.                               *)
(***************************************************************************)
EXTENDS DocStore, IndexProofs

\* A free lock means no working copy; the documents still to be written have
\* bytes to write; the working copy only adds to the committed id map.
TxShape ==
    /\ writer = NoClient => work = db /\ todo = {}
    /\ \A d \in todo : writes[d] \in Content
    /\ IdsGrow(db, work)

\* Consistency of the committed buckets is not inductive by itself: a commit
\* installs the working copy, so that has to be consistent at every step.
Inv ==
    /\ TypeOK
    /\ BucketsOK(db)
    /\ BucketsOK(work)
    /\ TxShape

----------------------------------------------------------------------------
\* A step that leaves the id map alone takes no assignment back.
LEMMA IdsGrowReflexive ==
    ASSUME NEW b
    PROVE  IdsGrow(b, b)
BY DEF IdsGrow

\* What Put and Delete queue for emission are well-formed MutationEvents.
LEMMA EventTypes ==
    ASSUME NEW b \in BucketsType, NEW d \in DocID
    PROVE  /\ \A new \in Content : putEvent(b, d, new) \in Event
           /\ deleteEvents(b, d) \in Seq(Event)
<1>1. oldDoc(b, d) \in Stored
  BY PartTypes, NothingToExtract DEF oldDoc
<1>2. ASSUME NEW new \in Content PROVE putEvent(b, d, new) \in Event
  BY <1>1 DEF putEvent, Event, Stored
<1>3. [kind |-> "Retract", doc |-> d, old |-> oldDoc(b, d), new |-> Absent] \in Event
  BY <1>1 DEF Event, Stored
<1>. QED BY <1>2, <1>3 DEF deleteEvents

\* The initial state satisfies the invariant.
LEMMA InitInv == Init => Inv
<1>. SUFFICES ASSUME Init PROVE Inv
  OBVIOUS
<1>1. BucketsOK(db) /\ BucketsOK(work) /\ db \in BucketsType /\ work \in BucketsType
  BY EmptyConsistent DEF Init, BucketsOK
<1>2. TypeOK
  BY <1>1 DEF Init, TypeOK, NoWrites
<1>3. TxShape
  BY IdsGrowReflexive DEF Init, TxShape
<1>. QED BY <1>1, <1>2, <1>3 DEF Inv

\* Abandoning the transaction, or the process, keeps the invariant.
LEMMA AbandonInv ==
    ASSUME Inv, db' = db, work' = db, writer' = NoClient, writes' = NoWrites,
           todo' = {}, evs' = <<>>, out' \in [Client -> Seq(Event)],
           asking' \in [Client -> SUBSET Path]
    PROVE  Inv'
<1>1. TypeOK'
  BY DEF Inv, TypeOK, NoWrites
<1>2. TxShape'
  BY IdsGrowReflexive DEF TxShape
<1>. QED BY <1>1, <1>2 DEF Inv

\* Every step keeps the invariant.
LEMMA NextInv == Inv /\ [Next]_vars => Inv'
<1>. SUFFICES ASSUME Inv, [Next]_vars PROVE Inv'
  OBVIOUS
<1>. USE DEF Inv
<1>1. ASSUME NEW c \in Client, BeginPut(c) PROVE Inv'
  <2>1. PICK w \in [DocID -> Content \cup {Keep}] : writes' = w /\ todo' = Written(w)
    BY <1>1 DEF BeginPut
  <2>2. /\ writer' = c /\ work' = db /\ evs' = <<>>
        /\ db' = db /\ out' = out /\ asking' = asking
    BY <1>1 DEF BeginPut
  <2>3. TypeOK'
    BY <2>1, <2>2 DEF TypeOK, Written
  <2>4. TxShape'
    BY <2>1, <2>2, ClientAssumption, IdsGrowReflexive DEF TxShape, Written
  <2>. QED BY <2>2, <2>3, <2>4
<1>2. ASSUME NEW d \in DocID, PutDoc(d) PROVE Inv'
  <2>1. /\ d \in todo /\ writes[d] \in Content
        /\ ~putFails(work, d, writes[d]) /\ work' \in putInTx(work, d, writes[d])
        /\ db' = db /\ writer' = writer /\ writes' = writes
        /\ out' = out /\ asking' = asking
        /\ todo' = todo \ {d} /\ evs' = Append(evs, putEvent(work, d, writes[d]))
    BY <1>2 DEF PutDoc, TxShape
  <2>2. BucketsOK(work') /\ IdsGrow(work, work')
    BY <2>1, PutPreserves
  <2>3. putEvent(work, d, writes[d]) \in Event
    BY <2>1, EventTypes DEF TypeOK
  <2>4. TypeOK'
    BY <2>1, <2>2, <2>3 DEF TypeOK, BucketsOK
  <2>5. IdsGrow(db', work')
    BY <2>1, <2>2, PartTypes, IdSpaceAssumption DEF TxShape, IdsGrow, TypeOK, Id
  <2>6. TxShape'
    BY <2>1, <2>5 DEF TxShape
  <2>. QED BY <2>1, <2>2, <2>4, <2>6
<1>3. ASSUME Rollback PROVE Inv'
  BY <1>3, AbandonInv DEF Rollback, TypeOK
<1>4. ASSUME NEW c \in Client, NEW d \in DocID, BeginDelete(c, d) PROVE Inv'
  <2>1. /\ writer' = c /\ writes' = [NoWrites EXCEPT ![d] = Absent]
        /\ work' \in deleteInTx(db, d) /\ todo' = {} /\ evs' = deleteEvents(db, d)
        /\ db' = db /\ out' = out /\ asking' = asking
    BY <1>4 DEF BeginDelete
  <2>2. BucketsOK(work') /\ IdsGrow(db, work')
    BY <2>1, DeletePreserves
  <2>3. deleteEvents(db, d) \in Seq(Event)
    BY EventTypes DEF TypeOK
  <2>4. TypeOK'
    BY <2>1, <2>2, <2>3 DEF TypeOK, BucketsOK, NoWrites
  <2>5. TxShape'
    BY <2>1, <2>2, ClientAssumption DEF TxShape
  <2>. QED BY <2>1, <2>2, <2>4, <2>5
<1>5. ASSUME Commit PROVE Inv'
  <2>1. /\ db' = work /\ out' = [out EXCEPT ![writer] = evs]
        /\ writer' = NoClient /\ writes' = NoWrites /\ evs' = <<>>
        /\ work' = work /\ todo' = todo /\ asking' = asking /\ todo = {}
    BY <1>5 DEF Commit
  <2>2. TypeOK'
    <3>1. out' \in [Client -> Seq(Event)]
      BY <2>1 DEF TypeOK
    <3>. QED BY <2>1, <3>1 DEF TypeOK, NoWrites
  <2>3. TxShape'
    BY <2>1, IdsGrowReflexive DEF TxShape
  <2>. QED BY <2>1, <2>2, <2>3
<1>6. ASSUME NEW c \in Client, Emit(c) PROVE Inv'
  <2>1. /\ out[c] # <<>> /\ out' = [out EXCEPT ![c] = Tail(out[c])]
        /\ UNCHANGED <<db, writer, work, writes, todo, evs, asking>>
    BY <1>6 DEF Emit
  <2>2. TypeOK'
    BY <2>1 DEF TypeOK
  <2>. QED BY <2>1, <2>2 DEF TxShape
<1>7. ASSUME NEW c \in Client, NEW p \in Path, StatsView(c, p) PROVE Inv'
  BY <1>7 DEF StatsView, TypeOK, TxShape
<1>8. ASSUME NEW c \in Client, StatsUpdate(c) PROVE Inv'
  <2>1. PICK p \in asking[c] :
           db' = [db EXCEPT !.stat = [@ EXCEPT ![p] = statsRecompute(db.num, p)]]
    BY <1>8 DEF StatsUpdate
  <2>2. /\ work' = db' /\ asking' = [asking EXCEPT ![c] = {}] /\ writer = NoClient
        /\ UNCHANGED <<writer, writes, todo, evs, out>>
    BY <1>8 DEF StatsUpdate
  <2>3. p \in Path
    BY DEF TypeOK
  <2>4. BucketsOK(db')
    BY <2>1, <2>3, RecomputePreserves
  <2>5. TypeOK'
    BY <2>2, <2>4 DEF TypeOK, BucketsOK
  <2>6. TxShape'
    BY <2>2, IdsGrowReflexive DEF TxShape
  <2>. QED BY <2>2, <2>4, <2>5, <2>6
<1>9. ASSUME Crash PROVE Inv'
  BY <1>9, AbandonInv DEF Crash
<1>11. ASSUME NEW c \in Client, StatsFails(c) PROVE Inv'
  BY <1>11 DEF StatsFails, TypeOK, TxShape
<1>10. ASSUME UNCHANGED vars PROVE Inv'
  BY <1>10 DEF vars, TypeOK, TxShape
<1>. QED
  BY <1>1, <1>2, <1>3, <1>4, <1>5, <1>6, <1>7, <1>8, <1>9, <1>10, <1>11
  DEF Next, TxStep, PutDocFails, CancelBatch, CommitFails

\* The inductive invariant holds in every reachable state of the store.
THEOREM Invariance == Spec => []Inv
BY InitInv, NextInv, PTL DEF Spec

----------------------------------------------------------------------------
(* The latest time of a cell.                                              *)

\* The times at which document e is recorded in the cell with key k.
CellTimes(docs, e, k) == {g.at : g \in {h \in temporalFields(docs[e]) : absenceCellKey(h) = k}}

\* CellExact in terms of the times.
LEMMA CellExactMeans ==
    ASSUME NEW abs, NEW docs, NEW f
    PROVE  LET k == absenceCellKey(f) IN
           CellExact(abs, docs, f) <=>
              /\ (\A e \in DocID : CellTimes(docs, e, k) = {}) => abs[k].doc = Absent
              /\ \A e \in DocID : \A t \in CellTimes(docs, e, k) :
                    /\ abs[k].doc # Absent
                    /\ abs[k].at \in CellTimes(docs, abs[k].doc, k)
                    /\ t <= abs[k].at
BY DEF CellExact, CellTimes

\* A cell that is exact stays exact when one document is written in a way the
\* absence index follows.
LEMMA AbsenceFollows ==
    ASSUME NEW abs \in AbsenceType, NEW temp \in TemporalType,
           NEW docs \in [DocID -> Stored], NEW d \in DocID, NEW new \in Stored,
           TemporalExact(temp, [docs EXCEPT ![d] = new]),
           \A g \in TemporalFields : g.at > 0,
           NEW f \in TemporalFields, Unshared(f), CellExact(abs, docs, f),
           Followed(docs[d], new),
           NEW abs2 \in updateAbsenceIndex(abs, temp, d, Decoded(docs[d]), new)
    PROVE  CellExact(abs2, [docs EXCEPT ![d] = new], f)
<1> DEFINE docs2 == [docs EXCEPT ![d] = new]
           k == absenceCellKey(f)
           a == abs[k]
           Old(e) == CellTimes(docs, e, k)
           New(e) == CellTimes(docs2, e, k)
           log(g) == temporalRead(temp, g.item, {g.type})
<1>1. \A c \in Stored : \A g \in temporalFields(c) :
        /\ g = [item |-> g.item, type |-> g.type, at |-> g.at]
        /\ g \in TemporalFields /\ absenceCellKey(g) \in Cell
        /\ g.item \in Item /\ g.type \in RecordType /\ g.at \in At /\ g.at \in Int
  <2>1. temporalFields(Absent) = {}
    BY NothingToExtract
  <2>. QED
    BY <2>1, TimesAreIntegers
    DEF Stored, Item, RecordType, At, TemporalFields, Cell, temporalFields, ParseTemporal
<1>2. k \in Cell /\ docs2 \in [DocID -> Stored]
  BY DEF Cell
<1>3. \A e \in DocID : /\ Old(e) \in SUBSET Int /\ New(e) \in SUBSET Int
                       /\ e # d => New(e) = Old(e)
  BY <1>1, <1>2 DEF CellTimes
<1>4. New(d) = {g.at : g \in {h \in temporalFields(new) : absenceCellKey(h) = k}}
  BY DEF CellTimes
<1>5. Old(d) = {g.at : g \in {h \in temporalFields(docs[d]) : absenceCellKey(h) = k}}
  BY DEF CellTimes
<1>6. /\ (\A e \in DocID : Old(e) = {}) => a.doc = Absent
      /\ \A e \in DocID : \A t \in Old(e) : a.doc # Absent /\ a.at \in Old(a.doc) /\ t <= a.at
  BY CellExactMeans
<1>7. a.at \in Int /\ a.doc \in DocID \cup {Absent}
  BY <1>2 DEF AbsenceType
<1>8. Absent \notin DocID
  BY ContentAssumption
<1>9. SUFFICES /\ (\A e \in DocID : New(e) = {}) => abs2[k].doc = Absent
               /\ \A e \in DocID : \A t \in New(e) :
                    /\ abs2[k].doc # Absent /\ abs2[k].at \in New(abs2[k].doc)
                    /\ t <= abs2[k].at
  BY CellExactMeans
<1>. HIDE DEF Old, New, k, docs2
<1>10. CASE abs2[k] = a /\ New(d) = Old(d)
  <2>1. \A e \in DocID : New(e) = Old(e)
    BY <1>3, <1>10
  <2>. HIDE DEF a
  <2>. QED BY <1>6, <1>7, <1>8, <1>10, <2>1
<1>11. ASSUME temporalFields(new) = {} PROVE New(d) = {}
  BY <1>4, <1>11
<1>12. CASE abs2 = abs /\ temporalFields(new) = {}
            /\ (new \in {Absent, EmptyDoc} => temporalFields(docs[d]) = {})
  <2>1. temporalFields(docs[d]) = {}
    BY <1>12 DEF Followed
  <2>2. New(d) = Old(d)
    BY <1>4, <1>5, <1>12, <2>1
  <2>. QED BY <1>10, <1>12, <2>2
<1>13. ASSUME NEW g \in temporalFields(new),
              abs2 = [abs EXCEPT ![absenceCellKey(g)] =
                         absenceRecord(abs[absenceCellKey(g)], d, g.at)]
       PROVE  /\ (\A e \in DocID : New(e) = {}) => abs2[k].doc = Absent
              /\ \A e \in DocID : \A t \in New(e) :
                    /\ abs2[k].doc # Absent /\ abs2[k].at \in New(abs2[k].doc)
                    /\ t <= abs2[k].at
  <2>1. /\ absenceCellKey(g) \in Cell /\ g.at \in Int
        /\ \A h \in temporalFields(new) : h = g
    BY <1>1, FieldsUnique
  <2>2. new \notin {Absent, EmptyDoc}
    BY <1>13, NothingToExtract DEF Stored, Decoded
  <2>3. \A h \in temporalFields(docs[d]) : h.item = g.item /\ h.type = g.type /\ g.at >= h.at
    BY <2>1, <2>2 DEF Followed
  <2>4. \A h \in temporalFields(docs[d]) : absenceCellKey(h) = absenceCellKey(g)
    BY <2>3 DEF absenceCellKey
  <2>5. CASE absenceCellKey(g) # k
    <3>1. abs2[k] = a
      BY <1>2, <1>13, <2>1, <2>5 DEF AbsenceType
    <3>2. New(d) = Old(d)
      BY <1>4, <1>5, <2>1, <2>4, <2>5
    <3>. QED BY <1>10, <3>1, <3>2
  <2>6. CASE absenceCellKey(g) = k
    <3>1. New(d) = {g.at}
      BY <1>4, <2>1, <2>6
    <3>2. \A t \in Old(d) : t <= g.at
      BY <1>1, <1>5, <2>3
    <3>3. abs2[k] = absenceRecord(a, d, g.at)
      BY <1>2, <1>13, <2>6 DEF AbsenceType
    <3>. HIDE DEF a
    <3>4. CASE a.doc # Absent /\ g.at <= a.at /\ a.doc # d
      <4>1. abs2[k] = a /\ a.doc \in DocID /\ New(a.doc) = Old(a.doc)
        BY <1>3, <1>7, <3>3, <3>4 DEF absenceRecord
      <4>2. a.at \in Old(a.doc)
        BY <1>6, <1>7, <3>4
      <4>3. \A e \in DocID : \A t \in New(e) : t <= a.at
        BY <1>3, <1>6, <3>1, <3>4
      <4>. QED BY <3>4, <4>1, <4>2, <4>3
    <3>5. CASE ~(a.doc # Absent /\ g.at <= a.at /\ a.doc # d)
      <4>1. abs2[k].at = g.at /\ abs2[k].doc = d
        BY <3>3, <3>5 DEF absenceRecord
      <4>2. ASSUME NEW e \in DocID, NEW t \in New(e) PROVE t <= g.at
        <5>1. CASE e = d
          BY <2>1, <3>1, <5>1
        <5>2. CASE e # d
          <6>1. t \in Old(e) /\ t \in Int
            BY <1>3, <5>2
          <6>2. a.doc # Absent /\ t <= a.at /\ a.at \in Old(a.doc)
            BY <1>6, <6>1
          <6>3. a.at <= g.at
            BY <1>7, <2>1, <3>2, <3>5, <6>2
          <6>. QED BY <1>7, <2>1, <6>1, <6>2, <6>3
        <5>. QED BY <5>1, <5>2
      <4>. QED BY <1>8, <3>1, <4>1, <4>2
    <3>. QED BY <3>4, <3>5
  <2>. QED BY <2>5, <2>6
<1>14. ASSUME temporalFields(new) = {}, NEW g \in temporalFields(docs[d]),
              NEW x \in absenceRetract(abs[absenceCellKey(g)], d, log(g)),
              abs2 = [abs EXCEPT ![absenceCellKey(g)] = x]
       PROVE  /\ (\A e \in DocID : New(e) = {}) => abs2[k].doc = Absent
              /\ \A e \in DocID : \A t \in New(e) :
                    /\ abs2[k].doc # Absent /\ abs2[k].at \in New(abs2[k].doc)
                    /\ t <= abs2[k].at
  <2>1. /\ absenceCellKey(g) \in Cell /\ g.at \in Int /\ g \in TemporalFields
        /\ g.item \in Item /\ \A h \in temporalFields(docs[d]) : h = g
    BY <1>1, FieldsUnique
  <2>2. New(d) = {}
    BY <1>11, <1>14
  <2>3. CASE absenceCellKey(g) # k
    <3>1. abs2[k] = a
      BY <1>2, <1>14, <2>1, <2>3 DEF AbsenceType
    <3>2. New(d) = Old(d)
      BY <1>5, <2>1, <2>2, <2>3
    <3>. QED BY <1>10, <3>1, <3>2
  <2>4. CASE absenceCellKey(g) = k
    <3>1. Old(d) = {g.at} /\ g.item = f.item /\ g.type = f.type
      BY <1>5, <2>1, <2>4 DEF Unshared, k
    <3>2. abs2[k] = x
      BY <1>2, <1>14, <2>4 DEF AbsenceType
    <3>3. CASE a.doc # d
      <4>1. x = a
        BY <1>14, <2>4, <3>3 DEF absenceRetract
      <4>. HIDE DEF a
      <4>2. a.doc \in DocID /\ a.doc # Absent /\ a.at \in New(a.doc)
        BY <1>3, <1>6, <1>7, <1>8, <3>1, <3>3
      <4>3. \A e \in DocID : \A t \in New(e) : t <= a.at
        BY <1>3, <1>6, <2>2
      <4>. QED BY <3>2, <4>1, <4>2, <4>3
    <3>4. CASE a.doc = d
      <4> DEFINE rest == filterOutDocID(log(g), d)
      <4>1. x \in newMax(rest)
        BY <1>14, <2>4, <3>4 DEF absenceRetract
      <4>2. ASSUME NEW e \in DocID, NEW t \in New(e)
            PROVE  [at |-> t, type |-> f.type, doc |-> e] \in rest
        <5>1. PICK h \in temporalFields(docs2[e]) : h.at = t /\ absenceCellKey(h) = k
          BY DEF New, CellTimes
        <5>2. /\ h = [item |-> h.item, type |-> h.type, at |-> t]
              /\ h \in TemporalFields /\ h.type \in RecordType /\ t \in At
          BY <1>1, <1>2, <5>1
        <5>3. h.item = f.item /\ h.type = f.type
          BY <5>1, <5>2 DEF Unshared, k
        <5>4. e # d
          BY <2>2
        <5> DEFINE n == [at |-> t, type |-> f.type, doc |-> e]
        <5>5. n \in TemporalEntry
          BY <5>2, <5>3 DEF TemporalEntry
        <5>6. n \in temp[g.item]
          BY <2>1, <3>1, <5>1, <5>2, <5>3, <5>5 DEF TemporalExact, docs2
        <5>. QED BY <3>1, <5>4, <5>6 DEF filterOutDocID, temporalRead
      <4>3. ASSUME NEW n \in rest
            PROVE  n.doc \in DocID /\ n.at \in New(n.doc) /\ n.at > 0 /\ n.at \in Int
        <5>1. n \in temp[g.item] /\ n.type = f.type /\ n \in TemporalEntry
          BY <2>1, <3>1 DEF filterOutDocID, temporalRead, TemporalType
        <5>2. n.doc \in DocID
          BY <5>1 DEF TemporalEntry
        <5> DEFINE h == [item |-> g.item, type |-> f.type, at |-> n.at]
        <5>3. h \in temporalFields(docs2[n.doc])
          BY <2>1, <5>1 DEF TemporalExact, docs2
        <5>4. h \in TemporalFields /\ h.at \in Int
          BY <1>1, <1>2, <5>2, <5>3
        <5>5. absenceCellKey(h) = k
          BY <3>1 DEF absenceCellKey, k
        <5>. QED BY <5>2, <5>3, <5>4, <5>5 DEF New, CellTimes
      <4>. HIDE DEF rest
      <4>4. {n \in rest : n.at > 0} = rest
        BY <4>3
      <4>5. CASE rest = {}
        <5>1. x.doc = Absent
          BY <4>1, <4>4, <4>5 DEF newMax, NoEntry
        <5>. QED BY <3>2, <4>2, <4>5, <5>1
      <4>6. CASE rest # {}
        <5>1. PICK n \in rest : /\ \A m \in rest : m.at <= n.at
                                /\ x = [at |-> n.at, doc |-> n.doc]
          BY <4>1, <4>4, <4>6 DEF newMax
        <5>2. ASSUME NEW e \in DocID, NEW t \in New(e) PROVE t <= n.at
          BY <4>2, <5>1
        <5>. QED BY <1>8, <3>2, <4>3, <5>1, <5>2
      <4>. QED BY <4>5, <4>6
    <3>. QED BY <3>3, <3>4
  <2>. QED BY <2>3, <2>4
<1>15. AbsenceStep(abs, abs2, temp, d, docs[d], new)
  BY AbsenceCases
<1>. QED BY <1>12, <1>13, <1>14, <1>15 DEF AbsenceStep

\* The step from buckets b to b2 keeps the cells exact, if it is made of
\* writes that the absence index follows.
SeenFollows(b, b2) ==
    (\A g \in TemporalFields : g.at > 0) =>
        \A f \in TemporalFields :
            /\ Unshared(f)
            /\ CellExact(b.abs, b.docs, f)
            /\ \A d \in DocID : Followed(b.docs[d], b2.docs[d])
            => CellExact(b2.abs, b2.docs, f)

\* Writing back the same document is followed.
LEMMA FollowedReflexive ==
    ASSUME NEW c \in Stored
    PROVE  Followed(c, c)
<1>1. \A g \in temporalFields(c) : g.at \in Int
  BY NothingToExtract, TimesAreIntegers DEF Stored, temporalFields, TemporalFields, At
<1>. QED BY <1>1 DEF Followed

\* Steps that touch neither documents nor cells keep the cells.
LEMMA SeenSame ==
    ASSUME NEW b, NEW b2, b2.docs = b.docs, b2.abs = b.abs
    PROVE  SeenFollows(b, b2)
BY DEF SeenFollows

\* One more document written: what the transaction has followed so far it
\* still follows.  The document written is as the transaction found it.
LEMMA SeenWrite ==
    ASSUME NEW b, BucketsOK(b), NEW w, BucketsOK(w), NEW w2, BucketsOK(w2),
           NEW d \in DocID, w.docs[d] = b.docs[d], NEW new \in Stored,
           w2.docs = [w.docs EXCEPT ![d] = new],
           w2.abs \in updateAbsenceIndex(w.abs, w2.temp, d, Decoded(w.docs[d]), new),
           SeenFollows(b, w)
    PROVE  SeenFollows(b, w2)
<1>. SUFFICES ASSUME \A g \in TemporalFields : g.at > 0, NEW f \in TemporalFields,
                     Unshared(f), CellExact(b.abs, b.docs, f),
                     \A e \in DocID : Followed(b.docs[e], w2.docs[e])
              PROVE  CellExact(w2.abs, w2.docs, f)
  BY DEF SeenFollows
<1>1. /\ b.docs \in [DocID -> Stored] /\ w.docs \in [DocID -> Stored]
      /\ w.abs \in AbsenceType /\ w2.temp \in TemporalType
  BY PartTypes DEF BucketsOK
<1>2. \A e \in DocID : Followed(b.docs[e], w.docs[e])
  BY <1>1, FollowedReflexive
<1>3. CellExact(w.abs, w.docs, f)
  BY <1>2 DEF SeenFollows
<1>4. Followed(w.docs[d], new)
  BY <1>1
<1>5. TemporalExact(w2.temp, [w.docs EXCEPT ![d] = new])
  BY DEF BucketsOK
<1>. QED BY <1>1, <1>3, <1>4, <1>5, AbsenceFollows

\* A put hands the temporal index it has updated to the absence index.
LEMMA PutSeen ==
    ASSUME NEW b, NEW d \in DocID, NEW new, NEW b2 \in putInTx(b, d, new)
    PROVE  b2.abs \in updateAbsenceIndex(b.abs, b2.temp, d, Decoded(b.docs[d]), new)
BY DEF putInTx, Reindexed, oldDoc

\* So does a delete; without a prior document there is nothing to retract.
LEMMA DeleteSeen ==
    ASSUME NEW b, BucketsOK(b), NEW d \in DocID, NEW b2 \in deleteInTx(b, d)
    PROVE  /\ b2.docs = [b.docs EXCEPT ![d] = Absent]
           /\ b2.abs \in updateAbsenceIndex(b.abs, b2.temp, d, Decoded(b.docs[d]), Absent)
<1>1. CASE oldDoc(b, d) = Absent \/ idmapLookup(b.ids, d) = 0
  <2>1. b2.docs = [b.docs EXCEPT ![d] = Absent] /\ b2.abs = b.abs
    BY <1>1 DEF deleteInTx
  <2>2. Decoded(b.docs[d]) = Absent
    BY <1>1 DEF oldDoc, idmapLookup, BucketsOK, MetaOK, Decoded
  <2>3. temporalFields(Absent) = {}
    BY NothingToExtract
  <2>4. updateAbsenceIndex(b.abs, b2.temp, d, Absent, Absent) = {b.abs}
    BY <2>3 DEF updateAbsenceIndex
  <2>. QED BY <2>1, <2>2, <2>4
<1>2. CASE ~(oldDoc(b, d) = Absent \/ idmapLookup(b.ids, d) = 0)
  BY <1>2 DEF deleteInTx, Reindexed, oldDoc
<1>. QED BY <1>1, <1>2

\* The open transaction has not touched the documents it has still to write,
\* and has followed so far.
SeenInv ==
    /\ \A d \in todo : work.docs[d] = db.docs[d]
    /\ SeenFollows(db, work)

\* The open transaction keeps the cells as it goes.
LEMMA SeenInvariance == Spec => []SeenInv
<1>1. Init => SeenInv
  BY SeenSame DEF Init, SeenInv
<1>2. Inv /\ Inv' /\ SeenInv /\ [Next]_vars => SeenInv'
  <2>. SUFFICES ASSUME Inv, Inv', SeenInv, [Next]_vars PROVE SeenInv'
    OBVIOUS
  <2>1. ASSUME db' = db, work' = db PROVE SeenInv'
    BY <2>1, SeenSame DEF SeenInv
  <2>2. ASSUME db' = db, work' = work, todo' = todo PROVE SeenInv'
    BY <2>2 DEF SeenInv
  <2>3. ASSUME NEW d \in DocID, PutDoc(d) PROVE SeenInv'
    <3>1. /\ d \in todo /\ writes[d] \in Content /\ ~putFails(work, d, writes[d])
          /\ work' \in putInTx(work, d, writes[d]) /\ db' = db /\ todo' = todo \ {d}
      BY <2>3 DEF PutDoc, Inv, TxShape
    <3>2. work'.docs = [work.docs EXCEPT ![d] = writes[d]]
      BY <3>1, PutPreserves DEF Inv
    <3>3. work'.abs \in
             updateAbsenceIndex(work.abs, work'.temp, d, Decoded(work.docs[d]), writes[d])
      BY <3>1, PutSeen
    <3>4. work.docs[d] = db.docs[d] /\ writes[d] \in Stored
      BY <3>1 DEF SeenInv, Stored
    <3>5. SeenFollows(db, work')
      BY <3>2, <3>3, <3>4, SeenWrite DEF Inv, SeenInv
    <3>6. \A e \in todo' : work'.docs[e] = db.docs[e]
      BY <3>1, <3>2, PartTypes DEF SeenInv, Inv, TypeOK
    <3>. QED BY <3>1, <3>5, <3>6 DEF SeenInv
  <2>4. ASSUME NEW c \in Client, NEW d \in DocID, BeginDelete(c, d) PROVE SeenInv'
    <3>1. work' \in deleteInTx(db, d) /\ todo' = {} /\ db' = db
      BY <2>4 DEF BeginDelete
    <3>2. /\ work'.docs = [db.docs EXCEPT ![d] = Absent]
          /\ work'.abs \in
                updateAbsenceIndex(db.abs, work'.temp, d, Decoded(db.docs[d]), Absent)
      BY <3>1, DeleteSeen DEF Inv
    <3>3. SeenFollows(db, work')
      BY <3>2, SeenSame, SeenWrite DEF Inv, Stored
    <3>. QED BY <3>1, <3>3 DEF SeenInv
  <2>5. ASSUME Commit PROVE SeenInv'
    BY <2>5, SeenSame DEF Commit, SeenInv
  <2>6. ASSUME NEW c \in Client, StatsUpdate(c) PROVE SeenInv'
    BY <2>6, SeenSame DEF StatsUpdate, SeenInv
  <2>. QED
    BY <2>1, <2>2, <2>3, <2>4, <2>5, <2>6
    DEF Next, TxStep, BeginPut, PutDocFails, CancelBatch, CommitFails, Rollback,
        Emit, StatsView, StatsFails, Crash, vars
<1>. QED BY <1>1, <1>2, Invariance, PTL DEF Spec

----------------------------------------------------------------------------
\* Every variable keeps its type.
THEOREM Typing == Spec => []TypeOK
<1>1. Inv => TypeOK
  BY DEF Inv
<1>. QED BY <1>1, Invariance, PTL

\* The two directions of the id map stay inverse to each other, and no id is
\* handed out twice (idmapAssign), up to and past exhaustion of the id space.
THEOREM IdMapStaysConsistent == Spec => []IdMapConsistent
<1>1. Inv => IdMapConsistent
  BY DEF Inv, BucketsOK, IdMapConsistent
<1>. QED BY <1>1, Invariance, PTL

\* Documents, metadata and the id map stay in step (putInTxEvents, Delete).
THEOREM MetaStaysInStep == Spec => []DocsHaveMeta
<1>1. Inv => DocsHaveMeta
  BY DEF Inv, BucketsOK, MetaOK, DocsHaveMeta
<1>. QED BY <1>1, Invariance, PTL

\* updateInvertedIndex posts every term for exactly the documents with it.
THEOREM InvertedStaysExact == Spec => []InvertedConsistent
<1>1. Inv => InvertedConsistent
  BY DEF Inv, BucketsOK, InvertedConsistent
<1>. QED BY <1>1, Invariance, PTL

\* updateNumericIndex holds exactly the numbers of the stored documents.
THEOREM NumericStaysExact == Spec => []NumericConsistent
<1>1. Inv => NumericConsistent
  BY DEF Inv, BucketsOK, NumericConsistent
<1>. QED BY <1>1, Invariance, PTL

\* updateTemporalIndex logs exactly the dated documents, under their item.
THEOREM TemporalStaysExact == Spec => []TemporalConsistent
<1>1. Inv => TemporalConsistent
  BY DEF Inv, BucketsOK, TemporalConsistent
<1>. QED BY <1>1, Invariance, PTL

\* updateGroupByIndex keeps bitmaps and counters of all groups exact.
THEOREM GroupsStayExact == Spec => []GroupsConsistent
<1>1. Inv => GroupsConsistent
  BY DEF Inv, BucketsOK, GroupsConsistent
<1>. QED BY <1>1, Invariance, PTL

\* A group's last-seen time never falls behind a member (groupByAdd).
THEOREM GroupLastSeenCovers == Spec => []GroupLastSeen
<1>1. Inv => GroupLastSeen
  BY DEF Inv, BucketsOK, GroupLastSeen
<1>. QED BY <1>1, Invariance, PTL

\* Ancestor chains and descendant bitmaps stay two views of one relation,
\* without self-ancestors and within the depth cap (updateClosureIndex).
THEOREM ClosureStaysConsistent == Spec => []ClosureConsistent
<1>1. Inv => ClosureConsistent
  BY DEF Inv, BucketsOK, ClosureConsistent
<1>. QED BY <1>1, Invariance, PTL

\* An aggregate that is not stale agrees with the numeric index, as long as
\* no stored document has two numbers under the attribute (updateStatsIndex,
\* statsRead).
THEOREM StatsStayExact == Spec => []StatsConsistent
<1>1. Inv => StatsConsistent
  BY DEF Inv, BucketsOK, StatsConsistent
<1>. QED BY <1>1, Invariance, PTL

\* LastSeen has an entry for every item and type with a stored record dated
\* after the epoch (updateAbsenceIndex).
THEOREM LastSeenStaysKnown == Spec => []LastSeenKnown
<1>1. Inv => LastSeenKnown
  BY DEF Inv, BucketsOK, LastSeenKnown
<1>. QED BY <1>1, Invariance, PTL

\* No step of any client, crash included, changes or frees an internal id
\* that was committed (idmap.go: assignments are append-only).
THEOREM IdsStayAssigned == Spec => IdsNeverReassigned
<1> DEFINE Kept ==
        /\ \A d \in DocID : db.ids.fwd[d] # 0 => db'.ids.fwd[d] = db.ids.fwd[d]
        /\ \A i \in Id : db.ids.rev[i] # Absent => db'.ids.rev[i] = db.ids.rev[i]
<1>1. Inv /\ [Next]_vars => [Kept]_vars
  <2>. SUFFICES ASSUME Inv, Next PROVE IdsGrow(db, db')
    BY DEF IdsGrow
  <2>1. ASSUME Commit PROVE IdsGrow(db, db')
    BY <2>1 DEF Commit, Inv, TxShape
  <2>2. ASSUME NEW c \in Client, StatsUpdate(c) PROVE IdsGrow(db, db')
    <3>1. PICK p \in asking[c] :
             db' = [db EXCEPT !.stat = [@ EXCEPT ![p] = statsRecompute(db.num, p)]]
      BY <2>2 DEF StatsUpdate
    <3>2. p \in Path
      BY DEF Inv, TypeOK
    <3>. QED BY <3>1, <3>2, RecomputePreserves DEF Inv
  <2>3. ASSUME db' = db PROVE IdsGrow(db, db')
    BY <2>3, IdsGrowReflexive
  <2>. QED
    BY <2>1, <2>2, <2>3
    DEF Next, TxStep, BeginPut, PutDoc, PutDocFails, CancelBatch, CommitFails, Rollback,
        BeginDelete, Emit, StatsView, StatsFails, Crash
<1>. QED BY <1>1, Invariance, PTL DEF Spec, IdsNeverReassigned

\* A commit made of writes the absence index follows keeps LastSeen at the
\* latest time of the stored records and its owner right, whatever batches,
\* rollbacks and crashes came before (absenceRecord, absenceRetract).
THEOREM LastSeenStaysFollowed == Spec => LastSeenFollows
<1>1. Inv /\ SeenInv /\ [Next]_vars => [SeenFollows(db, db')]_db
  <2>. SUFFICES ASSUME Inv, SeenInv, Next, db' # db PROVE SeenFollows(db, db')
    BY DEF vars
  <2>1. ASSUME Commit PROVE SeenFollows(db, db')
    BY <2>1 DEF Commit, SeenInv
  <2>2. ASSUME NEW c \in Client, StatsUpdate(c) PROVE SeenFollows(db, db')
    <3>1. db'.docs = db.docs /\ db'.abs = db.abs
      BY <2>2, PartTypes DEF StatsUpdate, Inv, TypeOK, BucketsType
    <3>. QED BY <3>1, SeenSame
  <2>. QED
    BY <2>1, <2>2
    DEF Next, TxStep, BeginPut, PutDoc, PutDocFails, CancelBatch, CommitFails, Rollback,
        BeginDelete, Emit, StatsView, StatsFails, Crash
<1>. QED BY <1>1, Invariance, SeenInvariance, PTL DEF Spec, LastSeenFollows, SeenFollows
============================================================================
