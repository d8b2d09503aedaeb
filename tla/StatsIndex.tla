----------------------------- MODULE StatsIndex -----------------------------
(***************************************************************************)
(* bboltstore/stats.go: a running aggregate per numeric attribute.  Count, *)
(* mean, M2, min and max are functions of the multiset of values added, so *)
(* an aggregate is that multiset (vals) and the stale flag; a missing      *)
(* entry decodes to the zero value NoStats.                                *)
(***************************************************************************)
EXTENDS NumericIndex, FiniteSets

StatsType == [Path -> [vals : [Value -> Nat], stale : BOOLEAN]]

NoStats == [vals |-> [v \in Value |-> 0], stale |-> FALSE]
EmptyStats == [p \in Path |-> NoStats]

statsWelfordAdd(s, x) ==
    [vals |-> [s.vals EXCEPT ![x] = @ + 1], stale |-> s.stale]

statsMarkStale(s) == [vals |-> s.vals, stale |-> TRUE]

\* A stale aggregate is left for the next read to recompute.
statsAddFresh(s, x) == IF s.stale THEN s ELSE statsWelfordAdd(s, x)

\* Rebuild from the numeric index: one addition per (value, id) key.
statsRecompute(num, p) ==
    [vals  |-> [v \in Value |-> Cardinality({i \in Id : <<v, i>> \in num[p]})],
     stale |-> FALSE]

\* newByPath keeps the last number of each path; which one that is depends
\* on the order in which Go ranges over the maps of the document.
NewByPath(new) ==
    {f \in [{n[1] : n \in Numerics(new)} -> Value] :
        \A p \in DOMAIN f : <<p, f[p]>> \in Numerics(new)}

\* Wrong variant: only an attribute the document loses goes stale.
updateStatsIndexIfLost(stat, old, newByPath) ==
    [p \in Path |->
        IF p \in DOMAIN newByPath THEN statsAddFresh(stat[p], newByPath[p])
        ELSE IF NumericsAt(old, p) # {} THEN statsMarkStale(stat[p])
        ELSE stat[p]]

updateStatsIndex(stat, old, newByPath) ==
    [p \in Path |->
        IF NumericsAt(old, p) # {} THEN statsMarkStale(stat[p])
        ELSE IF p \in DOMAIN newByPath THEN statsAddFresh(stat[p], newByPath[p])
        ELSE stat[p]]

\* A document with two different numbers under one attribute.
MultiValued(c, p) == \E v, w \in NumericsAt(c, p) : v # w

\* A fresh aggregate counts what the numeric index holds, as long as no
\* stored document has several numbers under the attribute.
StatsExact(stat, num, docs) ==
    \A p \in Path :
        \/ stat[p].stale
        \/ \E d \in DocID : MultiValued(docs[d], p)
        \/ stat[p].vals = statsRecompute(num, p).vals
============================================================================
