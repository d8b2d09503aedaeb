--------------------------- MODULE InvertedIndex ---------------------------
(***************************************************************************)
(* bboltstore/invindex.go: term -> bitmap of internal ids.  A term whose   *)
(* bitmap is empty has no entry, which reads back as the empty bitmap.     *)
(***************************************************************************)
EXTENDS IdMap

InvertedType == [Term -> SUBSET Id]
EmptyInverted == [t \in Term |-> {}]

\* One term's bitmap.
invIndexAdd(bm, id) == bm \cup {id}
invIndexRemove(bm, id) == bm \ {id}
invIndexLookup(inv, t) == inv[t]

\* Wrong variant: terms the document no longer has stay posted.
updateInvertedIndexAddsOnly(inv, id, oldTerms, newTerms) ==
    [t \in Term |-> IF t \in newTerms THEN invIndexAdd(inv[t], id) ELSE inv[t]]

\* diffSortedTerms gives the terms to remove and to add; no term is in both,
\* so the order of the two loops does not matter.
updateInvertedIndex(inv, id, oldTerms, newTerms) ==
    LET removed == oldTerms \ newTerms
        added   == newTerms \ oldTerms
    IN  [t \in Term |->
            IF t \in removed THEN invIndexRemove(inv[t], id)
            ELSE IF t \in added THEN invIndexAdd(inv[t], id)
            ELSE inv[t]]

\* Every term is posted for exactly the stored documents that contain it.
InvertedExact(inv, fwd, docs) ==
    \A t \in Term : inv[t] = {fwd[d] : d \in {e \in DocID : t \in Terms(docs[e])}}
============================================================================
