---------------------------- MODULE AbsenceIndex ----------------------------
(***************************************************************************)
(* bboltstore/absence.go: (item, record type) -> latest timestamp and the  *)
(* document that owns it.  The key is item|type.  doc = Absent: no entry.  *)
(***************************************************************************)
EXTENDS TemporalIndex

absenceCellKey(f) == f.item \o <<"|">> \o f.type

Cell == {absenceCellKey(f) : f \in TemporalFields}

AbsenceType == [Cell -> [at : Int, doc : DocID \cup {Absent}]]

NoEntry == [at |-> 0, doc |-> Absent]
EmptyAbsence == [k \in Cell |-> NoEntry]

\* Wrong variant: the latest write wins, not the latest timestamp.
absenceRecordLastWritten(a, d, at) == [at |-> at, doc |-> d]

absenceRecord(a, d, at) ==
    IF a.doc # Absent /\ at <= a.at /\ a.doc # d THEN a
    ELSE [at |-> at, doc |-> d]

\* The entries the recomputation may keep: the newest of the log of the
\* deleted document's item and type.  A log without a positive timestamp
\* leaves newMax at its zero value, and the cell is deleted.
newMax(log) ==
    LET positive == {e \in log : e.at > 0}
        newest   == {e \in positive : \A f \in positive : f.at <= e.at}
    IN  IF positive = {} THEN {NoEntry}
        ELSE {[at |-> e.at, doc |-> e.doc] : e \in newest}

\* Wrong variant: the owner's removal deletes the cell.
absenceRetractDeletes(a, d, log) == IF a.doc # d THEN {a} ELSE {NoEntry}

absenceRetract(a, d, log) ==
    IF a.doc # d THEN {a} ELSE newMax(filterOutDocID(log, d))

\* The possible indexes after a put (new # Absent) or a delete.  temp is the
\* temporal index as already updated for the same document.  A prior
\* document is retracted only when there are no new bytes.
updateAbsenceIndex(abs, temp, d, old, new) ==
    LET gone == IF new \in {Absent, EmptyDoc} THEN temporalFields(old) ELSE {}
        seen == temporalFields(new)
        retract(f) == absenceRetract(abs[absenceCellKey(f)], d,
                                     temporalRead(temp, f.item, {f.type}))
    IN  IF gone = {} /\ seen = {} THEN {abs}
        ELSE {[abs EXCEPT ![absenceCellKey(f)] =
                   absenceRecord(abs[absenceCellKey(f)], d, f.at)] : f \in seen}
             \cup UNION {{[abs EXCEPT ![absenceCellKey(f)] = a] : a \in retract(f)} :
                            f \in gone}

absenceLookup(abs, f) == abs[absenceCellKey(f)]

\* No other (item, type) pair of the entity shares this one's key.
Unshared(f) ==
    \A g \in TemporalFields :
        absenceCellKey(g) = absenceCellKey(f) => g.item = f.item /\ g.type = f.type

\* The cell holds the latest timestamp of its stored documents and names one
\* that has it; no document, no entry.
CellExact(abs, docs, f) ==
    LET k    == absenceCellKey(f)
        at(e) == {g.at : g \in {h \in temporalFields(docs[e]) : absenceCellKey(h) = k}}
        all  == UNION {at(e) : e \in DocID}
    IN  IF all = {} THEN abs[k].doc = Absent
        ELSE /\ abs[k].doc # Absent
             /\ abs[k].at \in at(abs[k].doc)
             /\ \A t \in all : t <= abs[k].at

\* A cell with a stored document dated after the epoch always has an entry.
LastSeenPresent(abs, docs) ==
    \A d \in DocID : \A f \in temporalFields(docs[d]) :
        f.at > 0 /\ Unshared(f) => abs[absenceCellKey(f)].doc # Absent
============================================================================
