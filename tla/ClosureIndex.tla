---------------------------- MODULE ClosureIndex ----------------------------
(***************************************************************************)
(* bboltstore/closure.go: asc[d] is the ancestor chain written when d was  *)
(* last put (<<>> when there is no entry), desc[x] the bitmap of documents *)
(* that have x in their chain.                                             *)
(***************************************************************************)
EXTENDS IdMap, Sequences

CONSTANT closureMaxDepth    \* 256 in the code

ASSUME DepthAssumption == closureMaxDepth \in Nat \ {0}

ClosureType ==
    [asc : [DocID -> Seq(Category)], desc : [Category -> SUBSET Id]]

EmptyClosure ==
    [asc |-> [d \in DocID |-> <<>>], desc |-> [x \in Category |-> {}]]

Chained(s) == {s[i] : i \in 1 .. Len(s)}

closureBuildAncestors(clo, p) ==
    IF p \in DocID THEN <<p>> \o clo.asc[p] ELSE <<p>>

\* The two errors that abort the put: chain too deep, document in its chain.
closureAddFails(clo, d, p) ==
    LET chain == closureBuildAncestors(clo, p)
    IN  \/ Len(chain) > closureMaxDepth
        \/ d \in Chained(chain)

closureAdd(clo, d, p, id) ==
    LET chain == closureBuildAncestors(clo, p)
    IN  [asc  |-> [clo.asc EXCEPT ![d] = chain],
         desc |-> [x \in Category |-> IF x \in Chained(chain)
                                      THEN clo.desc[x] \cup {id} ELSE clo.desc[x]]]

\* Wrong variant: the ancestors keep the document as a descendant.
closureRemoveChainOnly(clo, d, id) ==
    [asc |-> [clo.asc EXCEPT ![d] = <<>>], desc |-> clo.desc]

closureRemove(clo, d, id) ==
    [asc  |-> [clo.asc EXCEPT ![d] = <<>>],
     desc |-> [x \in Category |-> IF x \in Chained(clo.asc[d])
                                  THEN clo.desc[x] \ {id} ELSE clo.desc[x]]]

closureCleared(clo, d, id, old) ==
    IF closureParent(old) = {} THEN clo ELSE closureRemove(clo, d, id)

updateClosureFails(clo, d, id, old, new) ==
    \E p \in closureParent(new) :
        closureAddFails(closureCleared(clo, d, id, old), d, p)

updateClosureIndex(clo, d, id, old, new) ==
    LET cleared == closureCleared(clo, d, id, old)
    IN  IF closureParent(new) = {} THEN cleared
        ELSE closureAdd(cleared, d, CHOOSE p \in closureParent(new) : TRUE, id)

\* asc and desc are two views of one relation; a chain starts at the parent
\* the stored document names, never contains the document itself, and is
\* never deeper than the cap.
ClosureOK(clo, fwd, docs) ==
    /\ \A x \in Category :
          clo.desc[x] = {fwd[d] : d \in {e \in DocID : x \in Chained(clo.asc[e])}}
    /\ \A d \in DocID :
          /\ d \notin Chained(clo.asc[d])
          /\ Len(clo.asc[d]) <= closureMaxDepth
          /\ clo.asc[d] = <<>> <=> closureParent(docs[d]) = {}
          /\ clo.asc[d] # <<>> => clo.asc[d][1] \in closureParent(docs[d])
============================================================================
