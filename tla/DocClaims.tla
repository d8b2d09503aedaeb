----------------------------- MODULE DocClaims -----------------------------
(***************************************************************************)
(* What a comment of the repository says about the indexes and the code    *)
(* does not keep in every state.                                           *)
(***************************************************************************)
EXTENDS DocStore

\* stats.go: "correct under arbitrary writes": an aggregate that is not stale
\* is the one a recomputation would give.
StatsAlwaysExact ==
    \A p \in Path : db.stat[p].stale \/ db.stat[p] = statsRecompute(db.num, p)
============================================================================
