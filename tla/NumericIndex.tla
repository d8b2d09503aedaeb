---------------------------- MODULE NumericIndex ----------------------------
(***************************************************************************)
(* bboltstore/numidx.go: per attribute, the set of (value, internal id)    *)
(* keys in numeric order.  Values are finite: the extractor never yields   *)
(* NaN or an infinity.                                                     *)
(***************************************************************************)
EXTENDS IdMap

NumericType == [Path -> SUBSET (Value \X Id)]
EmptyNumeric == [p \in Path |-> {}]

\* Wrong variant: the old document's numbers stay indexed.
updateNumericIndexAddsOnly(num, id, oldNums, newNums) ==
    [p \in Path |-> num[p] \cup {<<n[2], id>> : n \in {m \in newNums : m[1] = p}}]

\* Remove every pair of the old document, then add every pair of the new one.
updateNumericIndex(num, id, oldNums, newNums) ==
    [p \in Path |->
        (num[p] \ {<<n[2], id>> : n \in {m \in oldNums : m[1] = p}})
            \cup {<<n[2], id>> : n \in {m \in newNums : m[1] = p}}]

numIndexRange(num, p, min, max, minExclusive, maxExclusive) ==
    {e[2] : e \in {x \in num[p] :
                     /\ min <= x[1] /\ x[1] <= max
                     /\ ~(minExclusive /\ x[1] = min)
                     /\ ~(maxExclusive /\ x[1] = max)}}

\* A pair is indexed exactly when a stored document has that number there.
NumericExact(num, fwd, docs) ==
    \A p \in Path : \A v \in Value, i \in Id :
        <<v, i>> \in num[p] <=>
            \E d \in DocID : <<p, v>> \in Numerics(docs[d]) /\ fwd[d] = i
============================================================================
