------------------------------- MODULE IdMap -------------------------------
(***************************************************************************)
(* bboltstore/idmap.go: the append-only map between document ids and the   *)
(* uint32 identifiers that the bitmaps of the other indexes hold.  A map   *)
(* is [fwd, rev, next]; id 0 is never assigned and stands for "no entry".  *)
(***************************************************************************)
EXTENDS Documents

CONSTANT IdSpace    \* 2^32 in the code

ASSUME IdSpaceAssumption == IdSpace \in Nat /\ IdSpace > 1

Id == 1 .. (IdSpace - 1)

IdMapType ==
    [fwd : [DocID -> Id \cup {0}], rev : [Id -> DocID \cup {Absent}],
     next : Id \cup {0}]

EmptyIdMap ==
    [fwd |-> [d \in DocID |-> 0], rev |-> [i \in Id |-> Absent], next |-> 1]

\* The counter has wrapped to 0: a new id is refused.
idmapExhausted(m, d) == m.fwd[d] = 0 /\ m.next = 0

\* Wrong variants: the counter is not a uint32; the reverse entry is forgotten.
idmapAssignUnbounded(m, d) ==
    IF m.fwd[d] # 0 THEN m
    ELSE [fwd  |-> [m.fwd EXCEPT ![d] = m.next],
          rev  |-> [i \in DOMAIN m.rev \cup {m.next} |-> IF i = m.next THEN d ELSE m.rev[i]],
          next |-> m.next + 1]

idmapAssignForwardOnly(m, d) ==
    IF m.fwd[d] # 0 THEN m
    ELSE [fwd  |-> [m.fwd EXCEPT ![d] = m.next], rev  |-> m.rev,
          next |-> (m.next + 1) % IdSpace]

\* The map after idmapAssign; the assigned id is its fwd[d].
idmapAssign(m, d) ==
    IF m.fwd[d] # 0 THEN m
    ELSE [fwd  |-> [m.fwd EXCEPT ![d] = m.next],
          rev  |-> [m.rev EXCEPT ![m.next] = d],
          next |-> (m.next + 1) % IdSpace]

idmapLookup(m, d) == m.fwd[d]
idmapReverse(m, i) == m.rev[i]

\* fwd and rev are inverse to each other, and exactly the ids below the
\* counter have been handed out (all of them once it has wrapped).
IdMapOK(m) ==
    /\ \A d \in DocID : m.fwd[d] # 0 => m.rev[m.fwd[d]] = d
    /\ \A i \in Id : m.rev[i] # Absent => m.fwd[m.rev[i]] = i
    /\ \A i \in Id : m.rev[i] # Absent <=> m.next = 0 \/ i < m.next
============================================================================
