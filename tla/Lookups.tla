------------------------------ MODULE Lookups ------------------------------
(***************************************************************************)
(* bboltstore/lookup.go: the index reads that answer with documents.  Each *)
(* takes a bitmap of internal ids in one read transaction and resolves the *)
(* ids to document ids in a second one (materializeDocIDSet); writers      *)
(* commit in between.  A commit is one step here: DocStore models what     *)
(* happens inside a write transaction.                                     *)
(***************************************************************************)
EXTENDS IndexHooks

CONSTANTS
    Request,    \* the reads clients ask for
    MaxWrites   \* bound: commits in a behaviour

ASSUME ReadsAssumption ==
    /\ MaxWrites \in Nat
    /\ Request # {}
    /\ \A r \in Request :
          /\ r.op \in {"Lookup", "LookupPrefix", "LookupNumericRange", "Descendants", "GroupCount"}
          /\ r.op = "LookupNumericRange" => r.minExclusive \in BOOLEAN /\ r.maxExclusive \in BOOLEAN

VARIABLES
    db,         \* the buckets
    writes,     \* commits so far
    stage,      \* of the read: "idle", "view1", "view2", "done", "failed"
    req,        \* what is read (meaningless while idle)
    bits,       \* the bitmap taken in the first transaction
    count,      \* GroupCount: the counter read along with the bitmap
    answer,     \* the DocIDSet
    matched     \* history: documents that matched in the first transaction

lookupVars == <<db, writes, stage, req, bits, count, answer, matched>>
reader == <<stage, req, bits, count, answer, matched>>

StartsWith(t, p) == Len(p) <= Len(t) /\ SubSeq(t, 1, Len(p)) = p

\* A cursor from the first term >= prefix while the prefix fits.
invIndexLookupPrefix(inv, p) == UNION {inv[t] : t \in {u \in Term : StartsWith(u, p)}}

\* Keys that were never written have no entry.
groupByRead(gby, k) == IF k \in GroupKey THEN gby[k] ELSE NoGroup
closureReadDescendants(clo, x) == IF x \in Category THEN clo.desc[x] ELSE {}

\* The bitmap a request takes in the first transaction.
Bitmap(b, r) ==
    CASE r.op = "Lookup" -> IF r.term \in Term THEN invIndexLookup(b.inv, r.term) ELSE {}
      [] r.op = "LookupPrefix" -> invIndexLookupPrefix(b.inv, r.term)
      [] r.op = "LookupNumericRange" ->
            IF r.path \in Path
            THEN numIndexRange(b.num, r.path, r.min, r.max, r.minExclusive, r.maxExclusive)
            ELSE {}
      [] r.op = "Descendants" -> closureReadDescendants(b.clo, r.root)
      [] r.op = "GroupCount" -> groupByRead(b.gby, r.key).bits

\* What the request asks for, read off the documents themselves (for
\* Descendants: off the ancestor chains).
InRange(r, v) ==
    /\ IF r.minExclusive THEN r.min < v ELSE r.min <= v
    /\ IF r.maxExclusive THEN v < r.max ELSE v <= r.max

Asked(b, r, d) ==
    CASE r.op = "Lookup" -> r.term \in Terms(b.docs[d])
      [] r.op = "LookupPrefix" -> \E t \in Terms(b.docs[d]) : StartsWith(t, r.term)
      [] r.op = "LookupNumericRange" ->
            \E n \in Numerics(b.docs[d]) : n[1] = r.path /\ InRange(r, n[2])
      [] r.op = "Descendants" -> r.root \in Chained(b.clo.asc[d])
      [] r.op = "GroupCount" -> r.key \in Groups(b.docs[d])

LookupInit ==
    /\ db = EmptyBuckets
    /\ writes = 0
    /\ stage = "idle"
    /\ req = CHOOSE r \in Request : TRUE
    /\ bits = {}
    /\ count = 0
    /\ answer = {}
    /\ matched = {}

----------------------------------------------------------------------------
\* A committed Put (or one entry of a BatchPut), a committed Delete.
CommitPut(d, c) ==
    /\ writes < MaxWrites
    /\ ~putFails(db, d, c)
    /\ db' \in putInTx(db, d, c)
    /\ writes' = writes + 1
    /\ UNCHANGED reader

CommitDelete(d) ==
    /\ writes < MaxWrites
    /\ db' \in deleteInTx(db, d)
    /\ writes' = writes + 1
    /\ UNCHANGED reader

Write == \E d \in DocID : CommitDelete(d) \/ \E c \in Content : CommitPut(d, c)

\* A read of r begins.
Ask(r) ==
    /\ stage \in {"idle", "done", "failed"}
    /\ req' = r
    /\ stage' = "view1"
    /\ answer' = {}
    /\ UNCHANGED <<db, writes, bits, count, matched>>

\* The first read transaction.  An empty bitmap (and a zero counter, which
\* comes with one) is answered without a second.
View1 ==
    /\ stage = "view1"
    /\ bits' = Bitmap(db, req)
    /\ count' = IF req.op = "GroupCount" THEN groupByRead(db.gby, req.key).count ELSE 0
    /\ matched' = {d \in DocID : Asked(db, req, d)}
    /\ stage' = IF bits' = {} THEN "done" ELSE "view2"
    /\ UNCHANGED <<db, writes, req, answer>>

\* materializeDocIDSet: an id without a reverse entry is an error.
View2 ==
    /\ stage = "view2"
    /\ IF \E i \in bits : idmapReverse(db.ids, i) = Absent
       THEN stage' = "failed" /\ UNCHANGED answer
       ELSE /\ answer' = {idmapReverse(db.ids, i) : i \in bits}
            /\ stage' = "done"
    /\ UNCHANGED <<db, writes, req, bits, count, matched>>

LookupNext == Write \/ View1 \/ View2 \/ \E r \in Request : Ask(r)

LookupSpec == LookupInit /\ [][LookupNext]_lookupVars

----------------------------------------------------------------------------
\* materializeDocIDSet runs in a later transaction than the bitmap was read
\* in: whatever is committed in between, no id of the bitmap is an orphan.
NoOrphan == stage # "failed"

\* Lookup, LookupPrefix, LookupNumericRange, Descendants, GroupCount: the
\* answer is exactly the set of documents that matched at one moment of the
\* call, and GroupCount counts as many as it lists.
AnswerExact ==
    stage = "done" =>
        /\ answer = matched
        /\ req.op = "GroupCount" => count = Cardinality(answer)
============================================================================
