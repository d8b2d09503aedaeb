--------------------------- MODULE TemporalIndex ---------------------------
(***************************************************************************)
(* bboltstore/temporal.go: per item, the log of timestamped documents.     *)
(* The code keeps the log sorted by at with an unstable sort, so the order *)
(* of equal timestamps is not determined: a log is the set of its entries. *)
(***************************************************************************)
EXTENDS Documents

TemporalEntry == [at : At, type : RecordType, doc : DocID]
TemporalType == [Item -> SUBSET TemporalEntry]
EmptyTemporal == [i \in Item |-> {}]

filterOutDocID(log, d) == {e \in log : e.doc # d}

\* Wrong variant: the add replaces the entry, so nothing is removed first.
temporalRemoveNothing(temp, d, fields) == temp

\* fields is temporalFields of a document: {} or a singleton.
temporalRemove(temp, d, fields) ==
    [i \in Item |-> IF \E f \in fields : f.item = i
                    THEN filterOutDocID(temp[i], d) ELSE temp[i]]

temporalAdd(temp, d, fields) ==
    [i \in Item |->
        LET mine == {f \in fields : f.item = i} IN
        IF mine = {} THEN temp[i]
        ELSE filterOutDocID(temp[i], d)
                \cup {[at |-> f.at, type |-> f.type, doc |-> d] : f \in mine}]

updateTemporalIndex(temp, d, old, new) ==
    temporalAdd(temporalRemove(temp, d, temporalFields(old)),
                d, temporalFields(new))

\* Wrong variant: an empty list of types lets nothing through.
temporalReadListed(temp, item, types) == {e \in temp[item] : e.type \in types}

temporalRead(temp, item, types) ==
    {e \in temp[item] : types = {} \/ e.type \in types}

\* The log of an item lists exactly the stored documents about it.
TemporalExact(temp, docs) ==
    \A i \in Item : \A e \in TemporalEntry :
        e \in temp[i] <=>
            [item |-> i, type |-> e.type, at |-> e.at] \in temporalFields(docs[e.doc])
============================================================================
