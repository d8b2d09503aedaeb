----------------------------- MODULE IndexHooks -----------------------------
(***************************************************************************)
(* The buckets of one entity and what a write transaction does to them:    *)
(* putInTxEvents and the body of Delete (bboltstore/store.go) with the     *)
(* index maintenance they call (bboltstore/indexhooks.go).  The buckets of *)
(* different entities are disjoint, so one entity is enough.               *)
(***************************************************************************)
EXTENDS InvertedIndex, StatsIndex, GroupByIndex, ClosureIndex, AbsenceIndex

CONSTANT MaxKeySize     \* longest key bbolt accepts (32768 bytes in the code)

ASSUME KeySizeAssumption == MaxKeySize \in Nat

\* meta is docMeta.Version (0: no entry); the two timestamps of docMeta are
\* written and never read.
BucketsType ==
    [docs : [DocID -> Content \cup {Absent}], meta : [DocID -> Nat],
     ids : IdMapType, inv : InvertedType, num : NumericType, temp : TemporalType,
     gby : GroupType, clo : ClosureType, stat : StatsType, abs : AbsenceType]

EmptyBuckets ==
    [docs |-> [d \in DocID |-> Absent], meta |-> [d \in DocID |-> 0],
     ids |-> EmptyIdMap, inv |-> EmptyInverted, num |-> EmptyNumeric,
     temp |-> EmptyTemporal, gby |-> EmptyGroups, clo |-> EmptyClosure,
     stat |-> EmptyStats, abs |-> EmptyAbsence]

\* snappy.Decode returns a nil slice for an encoded empty document, and the
\* code tests the decoded slice: an empty prior document counts as none.
Decoded(c) == IF c = EmptyDoc THEN Absent ELSE c
oldDoc(b, d) == Decoded(b.docs[d])

\* bbolt refuses an empty key, which statsStore uses for an attribute "", and
\* a key that is too long: a term, a group or a cell of the document.
bboltRefuses(c) ==
    \/ \E n \in Numerics(c) : n[1] = <<>>
    \/ \E k \in Terms(c) \cup Groups(c) \cup {absenceCellKey(f) : f \in temporalFields(c)} :
          Len(k) > MaxKeySize

\* The buckets after the index maintenance for document d with internal id
\* ids.fwd[d] whose content goes from old to new (Absent: no bytes).
Reindexed(b, docs, meta, ids, d, old, new) ==
    LET id == ids.fwd[d]
        temp == updateTemporalIndex(b.temp, d, old, new)
    IN  {[docs |-> docs, meta |-> meta, ids |-> ids,
          inv  |-> updateInvertedIndex(b.inv, id, Terms(old), Terms(new)),
          num  |-> updateNumericIndex(b.num, id, Numerics(old), Numerics(new)),
          temp |-> temp,
          gby  |-> updateGroupByIndex(b.gby, id, old, new),
          clo  |-> updateClosureIndex(b.clo, d, id, old, new),
          stat |-> updateStatsIndex(b.stat, old, x[1]),
          abs  |-> x[2]] :
            x \in NewByPath(new) \X updateAbsenceIndex(b.abs, temp, d, old, new)}

\* putInTxEvents returns an error (and the transaction is rolled back).
putFails(b, d, new) ==
    \/ idmapExhausted(b.ids, d)
    \/ updateClosureFails(b.clo, d, idmapAssign(b.ids, d).fwd[d], oldDoc(b, d), new)
    \/ bboltRefuses(new)

putInTx(b, d, new) ==
    Reindexed(b, [b.docs EXCEPT ![d] = new], [b.meta EXCEPT ![d] = @ + 1],
              idmapAssign(b.ids, d), d, oldDoc(b, d), new)

\* Wrong variants: Delete forgets the metadata; Delete hands the id back when
\* it was the last one assigned.
deleteInTxKeepsMeta(b, d) ==
    IF oldDoc(b, d) = Absent \/ idmapLookup(b.ids, d) = 0 THEN {b}
    ELSE Reindexed(b, [b.docs EXCEPT ![d] = Absent], b.meta, b.ids, d,
                   oldDoc(b, d), Absent)

deleteInTxReusesId(b, d) ==
    LET docs == [b.docs EXCEPT ![d] = Absent]
        meta == [b.meta EXCEPT ![d] = 0]
        last == (b.ids.next - 1) % IdSpace
        free(m) == [fwd |-> [m.fwd EXCEPT ![d] = 0],
                    rev |-> [m.rev EXCEPT ![last] = Absent], next |-> last]
    IN  {[x EXCEPT !.ids = IF @.fwd[d] # 0 /\ @.fwd[d] = last THEN free(@) ELSE @] :
            x \in IF oldDoc(b, d) = Absent \/ idmapLookup(b.ids, d) = 0
                  THEN {[b EXCEPT !.docs = docs, !.meta = meta]}
                  ELSE Reindexed(b, docs, meta, b.ids, d, oldDoc(b, d), Absent)}

\* Without a prior document only the two Delete calls happen.
deleteInTx(b, d) ==
    LET docs == [b.docs EXCEPT ![d] = Absent]
        meta == [b.meta EXCEPT ![d] = 0]
    IN  IF oldDoc(b, d) = Absent \/ idmapLookup(b.ids, d) = 0
        THEN {[docs |-> docs, meta |-> meta, ids |-> b.ids, inv |-> b.inv,
               num |-> b.num, temp |-> b.temp, gby |-> b.gby, clo |-> b.clo,
               stat |-> b.stat, abs |-> b.abs]}
        ELSE Reindexed(b, docs, meta, b.ids, d, oldDoc(b, d), Absent)

\* MutationEvent: kind, document, bytes before and after.
Event == [kind : {"Assert", "Change", "Retract"}, doc : DocID,
          old : Content \cup {Absent}, new : Content \cup {Absent}]

putEvent(b, d, new) ==
    [kind |-> IF oldDoc(b, d) = Absent THEN "Assert" ELSE "Change",
     doc |-> d, old |-> oldDoc(b, d), new |-> new]

deleteEvents(b, d) ==
    IF oldDoc(b, d) = Absent THEN <<>>
    ELSE <<[kind |-> "Retract", doc |-> d, old |-> oldDoc(b, d), new |-> Absent]>>
============================================================================
