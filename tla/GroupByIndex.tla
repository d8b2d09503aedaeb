---------------------------- MODULE GroupByIndex ----------------------------
(***************************************************************************)
(* bboltstore/groupby.go: (item, attribute, value) -> counter, first and   *)
(* last timestamp, and bitmap of members.  A missing key decodes to the    *)
(* zero value NoGroup.  The key is item|attr|value, so triples that differ *)
(* can share one.                                                          *)
(***************************************************************************)
EXTENDS IdMap, FiniteSets

groupByKey(f) == f.item \o <<"|">> \o f.attr \o <<"|">> \o f.value

GroupKey == {groupByKey(f) : f \in GroupByFields}
GroupsOf == [c \in Content |-> {groupByKey(f) : f \in groupByFields(c)}]
Groups(c) == IF c \in Content THEN GroupsOf[c] ELSE {}

GroupType ==
    [GroupKey -> [count : Nat, first : Int, last : Int, bits : SUBSET Id]]

NoGroup == [count |-> 0, first |-> 0, last |-> 0, bits |-> {}]
EmptyGroups == [k \in GroupKey |-> NoGroup]

\* The document's timestamp, 0 when it has no temporal fields.
groupByAt(c) ==
    IF temporalFields(c) = {} THEN 0 ELSE (CHOOSE f \in temporalFields(c) : TRUE).at

\* Wrong variants: the last time seen is the last time written; a group is
\* not deleted with its last member.
groupByAddLastWritten(g, id, at) ==
    [count |-> IF id \in g.bits THEN g.count ELSE g.count + 1,
     first |-> IF g.first = 0 \/ at < g.first THEN at ELSE g.first,
     last  |-> at,
     bits  |-> g.bits \cup {id}]

groupByRemoveKeepsEmpty(g, id) ==
    IF id \notin g.bits THEN g
    ELSE [count |-> g.count - 1, first |-> g.first, last |-> g.last,
          bits |-> g.bits \ {id}]

groupByAdd(g, id, at) ==
    [count |-> IF id \in g.bits THEN g.count ELSE g.count + 1,
     first |-> IF g.first = 0 \/ at < g.first THEN at ELSE g.first,
     last  |-> IF at > g.last THEN at ELSE g.last,
     bits  |-> g.bits \cup {id}]

groupByRemove(g, id) ==
    IF id \notin g.bits THEN g
    ELSE IF g.count - 1 <= 0 \/ g.bits \ {id} = {} THEN NoGroup
    ELSE [count |-> g.count - 1, first |-> g.first, last |-> g.last,
          bits |-> g.bits \ {id}]

updateGroupByIndex(gby, id, old, new) ==
    [k \in GroupKey |->
        LET g == IF k \in Groups(old) THEN groupByRemove(gby[k], id) ELSE gby[k]
        IN  IF k \in Groups(new) THEN groupByAdd(g, id, groupByAt(new)) ELSE g]

GroupMembers(k, docs) == {d \in DocID : k \in Groups(docs[d])}

\* A group's bitmap is exactly its members and its counter their number; a
\* group nobody belongs to has no entry left behind.
GroupsExact(gby, fwd, docs) ==
    \A k \in GroupKey :
        /\ gby[k].bits = {fwd[d] : d \in GroupMembers(k, docs)}
        /\ gby[k].count = Cardinality(gby[k].bits)
        /\ gby[k].bits = {} => gby[k] = NoGroup

\* No member's timestamp lies after the group's last-seen time.
LastSeenCovers(gby, docs) ==
    \A k \in GroupKey : \A d \in GroupMembers(k, docs) :
        groupByAt(docs[d]) <= gby[k].last
============================================================================
