---------------------------- MODULE IndexProofs ----------------------------
(***************************************************************************)
(* Lemmas about the operators of the index modules: what one document's    *)
(* re-indexing preserves, for every corpus, id space and depth cap.        *)
(***************************************************************************)
EXTENDS IndexHooks, FiniteSetTheorems, TLAPS

Stored == Content \cup {Absent}

\* The documents other than d keep their ids, d keeps its id if it is stored,
\* and no other stored document has the id under which d is (re)indexed.
IdsKept(fwd, fwd2, docs, d) ==
    /\ fwd2[d] \in Id
    /\ docs[d] # Absent => fwd2[d] = fwd[d]
    /\ \A e \in DocID \ {d} : docs[e] # Absent => fwd2[e] = fwd[e] /\ fwd2[e] # fwd2[d]

----------------------------------------------------------------------------
\* Nothing is extracted from a nil document or from an empty one, so testing
\* the decoded slice for nil changes nothing for the indexes.
LEMMA NothingToExtract ==
    /\ Terms(Absent) = {} /\ Numerics(Absent) = {} /\ temporalFields(Absent) = {}
    /\ groupByFields(Absent) = {} /\ closureParent(Absent) = {}
    /\ Groups(Absent) = {}
    /\ \A c \in Stored :
          /\ Decoded(c) \in Stored
          /\ Terms(Decoded(c)) = Terms(c)
          /\ Numerics(Decoded(c)) = Numerics(c)
          /\ temporalFields(Decoded(c)) = temporalFields(c)
          /\ groupByFields(Decoded(c)) = groupByFields(c)
          /\ Groups(Decoded(c)) = Groups(c)
          /\ closureParent(Decoded(c)) = closureParent(c)
<1>1. /\ Terms(Absent) = {} /\ Numerics(Absent) = {} /\ temporalFields(Absent) = {}
      /\ groupByFields(Absent) = {} /\ closureParent(Absent) = {}
      /\ Groups(Absent) = {}
  BY ContentAssumption
  DEF Terms, Numerics, temporalFields, groupByFields, closureParent, Groups
<1>2. ASSUME EmptyDoc \in Content
      PROVE  /\ Terms(EmptyDoc) = {} /\ Numerics(EmptyDoc) = {}
             /\ temporalFields(EmptyDoc) = {} /\ groupByFields(EmptyDoc) = {}
             /\ closureParent(EmptyDoc) = {} /\ Groups(EmptyDoc) = {}
  <2>1. Leaves[EmptyDoc] = {}
    BY <1>2, ContentAssumption
  <2>2. \A k : Top(EmptyDoc, k) = {} /\ TopStr(EmptyDoc, k) = {}
    BY <2>1 DEF Top, TopStr
  <2>3. Terms(EmptyDoc) = {}
    BY <1>2, <2>1 DEF Terms, ExtractTerms
  <2>4. Numerics(EmptyDoc) = {}
    BY <1>2, <2>1 DEF Numerics, ExtractNumerics
  <2>5. temporalFields(EmptyDoc) = {}
    BY <1>2, <2>2 DEF temporalFields, ParseTemporal
  <2>6. groupByFields(EmptyDoc) = {}
    BY <1>2, <2>2 DEF groupByFields, ParseGroupBy
  <2>7. closureParent(EmptyDoc) = {}
    BY <1>2, <2>2 DEF closureParent, ParseParent
  <2>8. Groups(EmptyDoc) = {}
    BY <1>2, <2>6 DEF Groups, GroupsOf
  <2>. QED BY <2>3, <2>4, <2>5, <2>6, <2>7, <2>8
<1>. QED BY <1>1, <1>2 DEF Decoded, Stored

\* Assigning an id keeps the map consistent and changes no id handed out.
LEMMA IdMapAssign ==
    ASSUME NEW m \in IdMapType, NEW d \in DocID, IdMapOK(m), ~idmapExhausted(m, d)
    PROVE  LET n == idmapAssign(m, d) IN
           /\ n \in IdMapType
           /\ IdMapOK(n)
           /\ n.fwd[d] \in Id
           /\ \A e \in DocID : m.fwd[e] # 0 => n.fwd[e] = m.fwd[e]
           /\ \A i \in Id : m.rev[i] # Absent => n.rev[i] = m.rev[i]
<1> DEFINE n == idmapAssign(m, d)
<1>1. CASE m.fwd[d] # 0
  BY <1>1 DEF idmapAssign, IdMapType
<1>2. CASE m.fwd[d] = 0
  <2>1. m.next \in Id /\ 0 \notin Id
    BY <1>2 DEF idmapExhausted, IdMapType, Id
  <2>2. n = [fwd |-> [m.fwd EXCEPT ![d] = m.next], rev |-> [m.rev EXCEPT ![m.next] = d],
             next |-> (m.next + 1) % IdSpace]
    BY <1>2 DEF idmapAssign
  <2>3. n.next = IF m.next = IdSpace - 1 THEN 0 ELSE m.next + 1
    BY <2>1, <2>2, IdSpaceAssumption DEF Id
  <2>4. n \in IdMapType
    BY <2>1, <2>2, <2>3, IdSpaceAssumption DEF IdMapType, Id
  <2>5. m.rev[m.next] = Absent
    BY <2>1 DEF IdMapOK, Id
  <2>6. n.fwd = [m.fwd EXCEPT ![d] = m.next] /\ n.rev = [m.rev EXCEPT ![m.next] = d]
    BY <2>2
  <2>7. /\ m.fwd \in [DocID -> Id \cup {0}] /\ m.rev \in [Id -> DocID \cup {Absent}]
        /\ m.next \in Id \cup {0}
    BY DEF IdMapType
  <2>8. IdMapOK(n)
    <3>1. \A e \in DocID : n.fwd[e] # 0 => n.rev[n.fwd[e]] = e
      BY <1>2, <2>1, <2>5, <2>6, <2>7, ContentAssumption DEF IdMapOK
    <3>2. \A i \in Id : n.rev[i] # Absent => n.fwd[n.rev[i]] = i
      BY <1>2, <2>1, <2>5, <2>6, <2>7, ContentAssumption DEF IdMapOK
    <3>3. \A i \in Id : n.rev[i] # Absent <=> n.next = 0 \/ i < n.next
      BY <2>1, <2>3, <2>6, <2>7, ContentAssumption, IdSpaceAssumption DEF IdMapOK, Id
    <3>. QED BY <3>1, <3>2, <3>3 DEF IdMapOK
  <2>. QED BY <1>2, <2>1, <2>4, <2>5, <2>6, <2>7, <2>8
<1>. QED BY <1>1, <1>2

----------------------------------------------------------------------------
\* Re-indexing one document's terms keeps every posting list exact.
LEMMA InvertedUpdate ==
    ASSUME NEW inv \in InvertedType, NEW docs \in [DocID -> Stored],
           NEW fwd \in [DocID -> Id \cup {0}], NEW fwd2 \in [DocID -> Id \cup {0}],
           NEW d \in DocID, NEW new \in Stored,
           InvertedExact(inv, fwd, docs), IdsKept(fwd, fwd2, docs, d)
    PROVE  LET inv2 == updateInvertedIndex(inv, fwd2[d], Terms(Decoded(docs[d])), Terms(new))
           IN  /\ inv2 \in InvertedType
               /\ InvertedExact(inv2, fwd2, [docs EXCEPT ![d] = new])
<1> DEFINE inv2 == updateInvertedIndex(inv, fwd2[d], Terms(Decoded(docs[d])), Terms(new))
           docs2 == [docs EXCEPT ![d] = new]
<1>1. Terms(Decoded(docs[d])) = Terms(docs[d]) /\ Terms(Absent) = {}
  BY NothingToExtract
<1>2. fwd2[d] \in Id
  BY DEF IdsKept
<1>3. inv2 \in InvertedType
  BY <1>2 DEF updateInvertedIndex, invIndexAdd, invIndexRemove, InvertedType
<1>4. ASSUME NEW t \in Term
      PROVE  inv2[t] = {fwd2[e] : e \in {x \in DocID : t \in Terms(docs2[x])}}
  <2>1. inv2[t] = IF t \in Terms(docs[d]) /\ t \notin Terms(new) THEN inv[t] \ {fwd2[d]}
                  ELSE IF t \in Terms(new) /\ t \notin Terms(docs[d])
                       THEN inv[t] \cup {fwd2[d]} ELSE inv[t]
    BY <1>1 DEF updateInvertedIndex, invIndexAdd, invIndexRemove, InvertedType
  <2>2. inv[t] = {fwd[e] : e \in {x \in DocID : t \in Terms(docs[x])}}
    BY DEF InvertedExact
  <2>3. \A e \in DocID \ {d} :
            /\ docs2[e] = docs[e]
            /\ t \in Terms(docs[e]) => fwd2[e] = fwd[e] /\ fwd2[e] # fwd2[d]
    BY <1>1 DEF IdsKept
  <2>4. docs2[d] = new
    OBVIOUS
  <2>5. t \in Terms(docs[d]) => fwd2[d] = fwd[d]
    BY <1>1 DEF IdsKept
  <2>. HIDE DEF inv2, docs2
  <2>. QED BY <2>1, <2>2, <2>3, <2>4, <2>5
<1>. QED BY <1>3, <1>4 DEF InvertedExact

\* Re-indexing one document's numbers keeps every attribute's keys exact.
LEMMA NumericUpdate ==
    ASSUME NEW num \in NumericType, NEW docs \in [DocID -> Stored],
           NEW fwd \in [DocID -> Id \cup {0}], NEW fwd2 \in [DocID -> Id \cup {0}],
           NEW d \in DocID, NEW new \in Stored,
           NumericExact(num, fwd, docs), IdsKept(fwd, fwd2, docs, d)
    PROVE  LET num2 == updateNumericIndex(num, fwd2[d], Numerics(Decoded(docs[d])),
                                          Numerics(new))
           IN  /\ num2 \in NumericType
               /\ NumericExact(num2, fwd2, [docs EXCEPT ![d] = new])
<1> DEFINE num2 == updateNumericIndex(num, fwd2[d], Numerics(Decoded(docs[d])), Numerics(new))
           docs2 == [docs EXCEPT ![d] = new]
<1>1. Numerics(Decoded(docs[d])) = Numerics(docs[d]) /\ Numerics(Absent) = {}
  BY NothingToExtract
<1>2. \A c \in Stored : \A n \in Numerics(c) : n = <<n[1], n[2]>> /\ n[1] \in Path /\ n[2] \in Value
  BY <1>1 DEF Stored, Path, Value, Numerics, ExtractNumerics
<1>3. fwd2[d] \in Id
  BY DEF IdsKept
<1>4. num2 \in NumericType
  BY <1>2, <1>3 DEF updateNumericIndex, NumericType
<1>5. ASSUME NEW p \in Path, NEW v \in Value, NEW i \in Id
      PROVE  <<v, i>> \in num2[p] <=>
               \E e \in DocID : <<p, v>> \in Numerics(docs2[e]) /\ fwd2[e] = i
  <2>1. <<v, i>> \in num[p] <=>
          \E e \in DocID : <<p, v>> \in Numerics(docs[e]) /\ fwd[e] = i
    BY DEF NumericExact
  <2>2. <<v, i>> \in num2[p] <=>
          \/ <<v, i>> \in num[p] /\ ~(<<p, v>> \in Numerics(docs[d]) /\ i = fwd2[d])
          \/ <<p, v>> \in Numerics(new) /\ i = fwd2[d]
    BY <1>1, <1>2 DEF updateNumericIndex
  <2>3. \A e \in DocID \ {d} :
            /\ docs2[e] = docs[e]
            /\ <<p, v>> \in Numerics(docs[e]) => fwd2[e] = fwd[e] /\ fwd2[e] # fwd2[d]
    BY <1>1 DEF IdsKept
  <2>4. docs2[d] = new
    OBVIOUS
  <2>5. <<p, v>> \in Numerics(docs[d]) => fwd2[d] = fwd[d]
    BY <1>1 DEF IdsKept
  <2>. HIDE DEF num2, docs2
  <2>. QED BY <2>1, <2>2, <2>3, <2>4, <2>5
<1>. QED BY <1>4, <1>5 DEF NumericExact

\* An item's log follows the one document that is rewritten.
LEMMA TemporalUpdate ==
    ASSUME NEW temp \in TemporalType, NEW docs \in [DocID -> Stored],
           NEW d \in DocID, NEW new \in Stored, TemporalExact(temp, docs)
    PROVE  LET temp2 == updateTemporalIndex(temp, d, Decoded(docs[d]), new)
           IN  /\ temp2 \in TemporalType
               /\ TemporalExact(temp2, [docs EXCEPT ![d] = new])
<1> DEFINE temp2 == updateTemporalIndex(temp, d, Decoded(docs[d]), new)
           docs2 == [docs EXCEPT ![d] = new]
<1>1. /\ temporalFields(Decoded(docs[d])) = temporalFields(docs[d])
      /\ temporalFields(Absent) = {}
  BY NothingToExtract
<1>2. \A c \in Stored : \A f \in temporalFields(c) :
        /\ f = [item |-> f.item, type |-> f.type, at |-> f.at]
        /\ f.item \in Item /\ f.type \in RecordType /\ f.at \in At
  BY <1>1 DEF Stored, Item, RecordType, At, TemporalFields, temporalFields, ParseTemporal
<1>3. \A i \in Item : temp2[i] \in SUBSET TemporalEntry
  BY <1>2 DEF updateTemporalIndex, temporalAdd, temporalRemove, filterOutDocID,
              TemporalType, TemporalEntry
<1>4. ASSUME NEW i \in Item, NEW e \in TemporalEntry
      PROVE  e \in temp2[i] <=>
                [item |-> i, type |-> e.type, at |-> e.at] \in temporalFields(docs2[e.doc])
  <2> DEFINE F == [item |-> i, type |-> e.type, at |-> e.at]
  <2>1. e \in temp[i] <=> F \in temporalFields(docs[e.doc])
    BY DEF TemporalExact
  <2>2. CASE e.doc # d
    BY <2>1, <2>2 DEF updateTemporalIndex, temporalAdd, temporalRemove, filterOutDocID,
                      TemporalEntry
  <2>3. CASE e.doc = d
    <3>1. docs2[e.doc] = new
      BY <2>3
    <3>2. e \notin temporalRemove(temp, d, temporalFields(docs[d]))[i]
      BY <2>1, <2>3 DEF temporalRemove, filterOutDocID
    <3>3. e = [at |-> e.at, type |-> e.type, doc |-> e.doc]
      BY DEF TemporalEntry
    <3>4. e \in temp2[i] <=> \E f \in temporalFields(new) :
             f.item = i /\ e = [at |-> f.at, type |-> f.type, doc |-> d]
      BY <1>1, <3>2 DEF updateTemporalIndex, temporalAdd, filterOutDocID
    <3>5. (\E f \in temporalFields(new) : f.item = i /\ e = [at |-> f.at, type |-> f.type, doc |-> d])
             <=> F \in temporalFields(new)
      BY <1>2, <2>3, <3>3
    <3>. QED BY <3>1, <3>4, <3>5
  <2>. QED BY <2>2, <2>3
<1>5. temp2 = [i \in Item |-> temp2[i]]
  BY DEF updateTemporalIndex, temporalAdd
<1>. QED BY <1>3, <1>4, <1>5 DEF TemporalExact, TemporalType

----------------------------------------------------------------------------
\* Sets of ids are finite.
LEMMA IdsFinite ==
    ASSUME NEW S \in SUBSET Id
    PROVE  IsFiniteSet(S) /\ Cardinality(S) \in Nat
<1>1. IsFiniteSet(Id)
  BY FS_Interval, IdSpaceAssumption DEF Id
<1>. QED BY <1>1, FS_Subset, FS_CardinalityType

\* Timestamps are integers.
LEMMA TimesAreIntegers ==
    /\ \A c \in Stored : \A f \in temporalFields(c) : f.at \in Int
    /\ At \subseteq Int
    /\ \A c \in Stored : groupByAt(c) \in Int
<1>1. ASSUME NEW c \in Content, NEW f \in ParseTemporal[c]
      PROVE  f.at \in Int
  <2>1. PICK v \in Top(c, AtKey) : v.kind # "bool" /\ v.num # NotATime /\ f.at = v.num
    BY <1>1 DEF ParseTemporal
  <2>2. IsScalar(v)
    BY LeavesAssumption DEF Top
  <2>. QED BY <2>1, <2>2 DEF IsScalar
<1>2. \A c \in Stored : \A f \in temporalFields(c) : f.at \in Int
  BY <1>1 DEF temporalFields
<1>3. At \subseteq Int
  BY <1>2 DEF At, TemporalFields, Stored
<1>4. \A c \in Stored : groupByAt(c) \in Int
  BY <1>2 DEF groupByAt
<1>. QED BY <1>2, <1>3, <1>4

\* A document has at most one record of temporal fields.
LEMMA FieldsUnique ==
    \A c \in Stored : \A f, g \in temporalFields(c) : f = g
<1>1. ASSUME NEW c \in Content, NEW k, NEW v \in Top(c, k), NEW w \in Top(c, k)
      PROVE  v = w
  <2>1. PICK l \in Leaves[c] : l.top /\ l.key = k /\ v = l.val
    BY DEF Top
  <2>2. PICK m \in Leaves[c] : m.top /\ m.key = k /\ w = m.val
    BY DEF Top
  <2>. QED BY <2>1, <2>2, LeavesAssumption
<1>2. ASSUME NEW c \in Content, NEW f \in ParseTemporal[c], NEW g \in ParseTemporal[c]
      PROVE  f = g
  <2>1. PICK i \in Top(c, ItemKey), t \in Top(c, TypeKey), v \in Top(c, AtKey) :
           f = [item |-> i.text, type |-> t.text, at |-> v.num]
    BY DEF ParseTemporal, TopStr
  <2>2. PICK j \in Top(c, ItemKey), u \in Top(c, TypeKey), w \in Top(c, AtKey) :
           g = [item |-> j.text, type |-> u.text, at |-> w.num]
    BY DEF ParseTemporal, TopStr
  <2>3. i = j /\ t = u /\ v = w
    BY <1>1
  <2>. QED BY <2>1, <2>2, <2>3
<1>. QED BY <1>2 DEF temporalFields

\* The facts about one group that hold between transactions.
GroupOK(g) ==
    /\ g \in [count : Nat, first : Int, last : Int, bits : SUBSET Id]
    /\ g.count = Cardinality(g.bits)
    /\ g.bits = {} => g = NoGroup

\* Removing a member keeps a group's counter equal to its size, and a group
\* that loses its last member disappears.
LEMMA GroupRemove ==
    ASSUME NEW g, GroupOK(g), NEW id \in Id
    PROVE  /\ GroupOK(groupByRemove(g, id))
           /\ groupByRemove(g, id).bits = g.bits \ {id}
           /\ \/ groupByRemove(g, id).last = g.last
              \/ groupByRemove(g, id).bits = {}
<1> DEFINE r == groupByRemove(g, id)
<1>1. IsFiniteSet(g.bits) /\ g.bits \in SUBSET Id /\ Cardinality(g.bits) \in Nat
  BY IdsFinite DEF GroupOK
<1>2. Cardinality({}) = 0 /\ NoGroup.bits = {} /\ GroupOK(NoGroup)
  BY FS_EmptySet DEF GroupOK, NoGroup
<1>3. /\ GroupOK(r) /\ r.bits = g.bits \ {id}
      /\ r.last = g.last \/ r.bits = {}
  <2>1. CASE id \notin g.bits
    BY <2>1 DEF groupByRemove
  <2>2. CASE id \in g.bits
    <3>1. IsFiniteSet(g.bits \ {id}) /\ Cardinality(g.bits \ {id}) = g.count - 1
      BY <1>1, <2>2, FS_RemoveElement DEF GroupOK
    <3>2. g.bits \ {id} = {} <=> g.count - 1 = 0
      BY <3>1, FS_EmptySet
    <3>3. g.count \in Nat /\ g.count - 1 \in Nat
      BY <3>1, FS_CardinalityType DEF GroupOK
    <3>4. CASE g.bits \ {id} = {}
      BY <1>2, <2>2, <3>4 DEF groupByRemove
    <3>5. CASE g.bits \ {id} # {}
      <4>1. r = [count |-> g.count - 1, first |-> g.first, last |-> g.last,
                 bits |-> g.bits \ {id}]
        BY <2>2, <3>2, <3>3, <3>5 DEF groupByRemove
      <4>. QED BY <3>1, <3>3, <3>5, <4>1 DEF GroupOK
    <3>. QED BY <3>4, <3>5
  <2>. QED BY <2>1, <2>2
<1>. QED BY <1>3

\* Adding a member, new or not, keeps the counter equal to the size.
LEMMA GroupAdd ==
    ASSUME NEW g, GroupOK(g), NEW id \in Id, NEW at \in Int
    PROVE  /\ GroupOK(groupByAdd(g, id, at))
           /\ groupByAdd(g, id, at).bits = g.bits \cup {id}
           /\ groupByAdd(g, id, at).last >= at
           /\ groupByAdd(g, id, at).last >= g.last
<1>1. IsFiniteSet(g.bits)
  BY IdsFinite DEF GroupOK
<1>2. Cardinality(g.bits \cup {id}) = IF id \in g.bits THEN g.count ELSE g.count + 1
  BY <1>1, FS_AddElement DEF GroupOK
<1>. QED BY <1>2 DEF GroupOK, groupByAdd

\* Re-grouping one document keeps every group exact, and its last-seen time
\* no earlier than any member's time.
LEMMA GroupUpdate ==
    ASSUME NEW gby \in GroupType, NEW docs \in [DocID -> Stored],
           NEW fwd \in [DocID -> Id \cup {0}], NEW fwd2 \in [DocID -> Id \cup {0}],
           NEW d \in DocID, NEW new \in Stored,
           GroupsExact(gby, fwd, docs), LastSeenCovers(gby, docs),
           IdsKept(fwd, fwd2, docs, d)
    PROVE  LET gby2 == updateGroupByIndex(gby, fwd2[d], Decoded(docs[d]), new)
               docs2 == [docs EXCEPT ![d] = new]
           IN  /\ gby2 \in GroupType
               /\ GroupsExact(gby2, fwd2, docs2)
               /\ LastSeenCovers(gby2, docs2)
<1> DEFINE gby2 == updateGroupByIndex(gby, fwd2[d], Decoded(docs[d]), new)
           docs2 == [docs EXCEPT ![d] = new]
           id == fwd2[d]
<1>1. Groups(Decoded(docs[d])) = Groups(docs[d]) /\ Groups(Absent) = {}
  BY NothingToExtract
<1>2. id \in Id
  BY DEF IdsKept
<1>3. groupByAt(new) \in Int
  BY TimesAreIntegers
<1>4. ASSUME NEW k \in GroupKey
      PROVE  /\ GroupOK(gby2[k])
             /\ gby2[k].bits = {fwd2[e] : e \in GroupMembers(k, docs2)}
             /\ \A e \in GroupMembers(k, docs2) : groupByAt(docs2[e]) <= gby2[k].last
  <2> DEFINE g == IF k \in Groups(docs[d]) THEN groupByRemove(gby[k], id) ELSE gby[k]
  <2>1. GroupOK(gby[k]) /\ gby[k].bits = {fwd[e] : e \in GroupMembers(k, docs)}
    BY DEF GroupOK, GroupsExact, GroupType
  <2>2. gby2[k] = IF k \in Groups(new) THEN groupByAdd(g, id, groupByAt(new)) ELSE g
    BY <1>1 DEF updateGroupByIndex
  <2>3. \A e \in DocID \ {d} :
            /\ docs2[e] = docs[e]
            /\ k \in Groups(docs[e]) => fwd2[e] = fwd[e] /\ fwd2[e] # fwd2[d]
    BY <1>1 DEF IdsKept
  <2>4. docs2[d] = new /\ (k \in Groups(docs[d]) => fwd2[d] = fwd[d])
    BY <1>1 DEF IdsKept
  <2>5. /\ GroupOK(g)
        /\ g.bits = {fwd2[e] : e \in GroupMembers(k, docs) \ {d}}
        /\ g.last = gby[k].last \/ g.bits = {}
    <3>1. CASE k \in Groups(docs[d])
      <4>1. g = groupByRemove(gby[k], id)
        BY <3>1
      <4>2. GroupOK(g) /\ g.bits = gby[k].bits \ {id} /\ (g.last = gby[k].last \/ g.bits = {})
        BY <1>2, <2>1, <4>1, GroupRemove
      <4>3. gby[k].bits \ {id} = {fwd2[e] : e \in GroupMembers(k, docs) \ {d}}
        BY <2>1, <2>3, <2>4, <3>1 DEF GroupMembers
      <4>. QED BY <4>2, <4>3
    <3>2. CASE k \notin Groups(docs[d])
      <4>1. d \notin GroupMembers(k, docs)
        BY <3>2 DEF GroupMembers
      <4>2. \A e \in GroupMembers(k, docs) : fwd2[e] = fwd[e]
        BY <2>3, <4>1 DEF GroupMembers
      <4>. QED BY <2>1, <3>2, <4>1, <4>2
    <3>. QED BY <3>1, <3>2
  <2>. HIDE DEF g
  <2>6. \A e \in DocID : e \in GroupMembers(k, docs2) <=>
            IF e = d THEN k \in Groups(new) ELSE e \in GroupMembers(k, docs)
    BY <2>3, <2>4 DEF GroupMembers
  <2>7. GroupMembers(k, docs) \subseteq DocID /\ GroupMembers(k, docs2) \subseteq DocID
    BY DEF GroupMembers
  <2>8. \A e \in GroupMembers(k, docs2) \ {d} : groupByAt(docs2[e]) <= g.last
    <3>. SUFFICES ASSUME NEW e \in GroupMembers(k, docs2) \ {d}
                  PROVE  groupByAt(docs2[e]) <= g.last
      OBVIOUS
    <3>1. e \in GroupMembers(k, docs) \ {d} /\ e \in DocID /\ docs2[e] = docs[e]
      BY <2>3, <2>6, <2>7
    <3>2. g.bits # {}
      BY <2>5, <3>1
    <3>. QED BY <2>5, <3>1, <3>2 DEF LastSeenCovers
  <2>. HIDE DEF gby2, docs2
  <2>9. CASE k \in Groups(new)
    <3>1. gby2[k] = groupByAdd(g, id, groupByAt(new))
      BY <2>2, <2>9
    <3>2. /\ GroupOK(gby2[k]) /\ gby2[k].bits = g.bits \cup {id}
          /\ gby2[k].last >= groupByAt(new) /\ gby2[k].last >= g.last
      <4> DEFINE a == groupByAdd(g, id, groupByAt(new))
      <4>1. /\ GroupOK(a) /\ a.bits = g.bits \cup {id}
            /\ a.last >= groupByAt(new) /\ a.last >= g.last
        BY <1>2, <1>3, <2>5, GroupAdd
      <4>. HIDE DEF a
      <4>. QED BY <3>1, <4>1 DEF a
    <3>3. GroupMembers(k, docs2) = (GroupMembers(k, docs) \ {d}) \cup {d}
      BY <2>6, <2>7, <2>9
    <3>4. gby2[k].bits = {fwd2[e] : e \in GroupMembers(k, docs2)}
      BY <2>5, <3>2, <3>3
    <3>5. ASSUME NEW e \in GroupMembers(k, docs2)
          PROVE  groupByAt(docs2[e]) <= gby2[k].last
      <4>1. g.last \in Int /\ gby2[k].last \in Int
        BY <2>5, <3>2 DEF GroupOK
      <4>2. CASE e = d
        BY <1>3, <2>4, <3>2, <4>1, <4>2
      <4>3. CASE e # d
        <5>1. groupByAt(docs2[e]) <= g.last
          BY <2>8, <4>3
        <5>2. docs2[e] \in Stored /\ groupByAt(docs2[e]) \in Int
          BY <2>3, <2>7, <4>3, TimesAreIntegers
        <5>. QED BY <3>2, <4>1, <5>1, <5>2
      <4>. QED BY <4>2, <4>3
    <3>. QED BY <3>2, <3>4, <3>5
  <2>10. CASE k \notin Groups(new)
    <3>1. gby2[k] = g
      BY <2>2, <2>10
    <3>2. GroupMembers(k, docs2) = GroupMembers(k, docs) \ {d}
      BY <2>6, <2>7, <2>10
    <3>. QED BY <2>5, <2>8, <3>1, <3>2
  <2>. QED BY <2>9, <2>10
<1>5. gby2 \in GroupType
  <2>1. gby2 = [k \in GroupKey |-> gby2[k]]
    BY DEF updateGroupByIndex
  <2>. HIDE DEF gby2
  <2>. QED BY <1>4, <2>1 DEF GroupType, GroupOK
<1>. HIDE DEF gby2, docs2
<1>6. GroupsExact(gby2, fwd2, docs2)
  BY <1>4 DEF GroupsExact, GroupOK
<1>7. LastSeenCovers(gby2, docs2)
  BY <1>4 DEF LastSeenCovers
<1>. QED BY <1>5, <1>6, <1>7 DEF gby2, docs2

----------------------------------------------------------------------------
\* The chain built for a parent: the parent, then the parent's own chain.
LEMMA BuildAncestors ==
    ASSUME NEW clo \in ClosureType, NEW p \in Category
    PROVE  LET chain == closureBuildAncestors(clo, p)
           IN  chain \in Seq(Category) /\ chain # <<>> /\ chain[1] = p
<1>1. ASSUME NEW s \in Seq(Category)
      PROVE  LET t == <<p>> \o s IN t \in Seq(Category) /\ t # <<>> /\ t[1] = p
  OBVIOUS
<1>. QED BY <1>1 DEF closureBuildAncestors, ClosureType

\* closureParent returns category ids only.
LEMMA ParentsAreCategories ==
    \A c \in Stored : closureParent(c) \subseteq Category
BY NothingToExtract DEF Stored, Category, closureParent

\* Members of a chain are categories.
LEMMA ChainedType ==
    ASSUME NEW s \in Seq(Category)
    PROVE  Chained(s) \subseteq Category /\ (s = <<>> => Chained(s) = {})
BY DEF Chained

\* Re-parenting one document keeps chains and descendant bitmaps two views
\* of one relation, free of self-ancestors and within the depth cap.
LEMMA ClosureUpdate ==
    ASSUME NEW clo \in ClosureType, NEW docs \in [DocID -> Stored],
           NEW fwd \in [DocID -> Id \cup {0}], NEW fwd2 \in [DocID -> Id \cup {0}],
           NEW d \in DocID, NEW new \in Stored,
           ClosureOK(clo, fwd, docs), IdsKept(fwd, fwd2, docs, d),
           ~updateClosureFails(clo, d, fwd2[d], Decoded(docs[d]), new)
    PROVE  LET clo2 == updateClosureIndex(clo, d, fwd2[d], Decoded(docs[d]), new)
           IN  /\ clo2 \in ClosureType
               /\ ClosureOK(clo2, fwd2, [docs EXCEPT ![d] = new])
<1> DEFINE id == fwd2[d]
           old == Decoded(docs[d])
           mid == closureCleared(clo, d, id, old)
           clo2 == updateClosureIndex(clo, d, id, old, new)
           docs2 == [docs EXCEPT ![d] = new]
<1>1. /\ closureParent(old) = closureParent(docs[d]) /\ closureParent(Absent) = {}
      /\ id \in Id
  BY NothingToExtract DEF IdsKept
<1>2. /\ clo.asc \in [DocID -> Seq(Category)]
      /\ clo.desc \in [Category -> SUBSET Id]
  BY DEF ClosureType
<1>3. \A e \in DocID : Chained(clo.asc[e]) # {} => docs[e] # Absent
  BY <1>1, <1>2, ChainedType DEF ClosureOK
<1>4. \A x \in Category : clo.desc[x] = {fwd[e] : e \in {y \in DocID : x \in Chained(clo.asc[y])}}
  BY DEF ClosureOK
<1>5. Chained(<<>>) = {}
  BY DEF Chained
<1>6. /\ mid.asc = [clo.asc EXCEPT ![d] = <<>>]
      /\ mid.desc \in [Category -> SUBSET Id]
      /\ \A x \in Category : mid.desc[x] =
            IF x \in Chained(clo.asc[d]) THEN clo.desc[x] \ {id} ELSE clo.desc[x]
      /\ mid \in ClosureType
  <2>1. CASE closureParent(docs[d]) = {}
    <3>1. mid = clo
      BY <1>1, <2>1 DEF closureCleared
    <3>2. clo.asc[d] = <<>>
      BY <2>1 DEF ClosureOK
    <3>. QED BY <1>2, <1>5, <3>1, <3>2
  <2>2. CASE closureParent(docs[d]) # {}
    <3>1. mid = closureRemove(clo, d, id)
      BY <1>1, <2>2 DEF closureCleared
    <3>. QED BY <1>2, <3>1 DEF closureRemove, ClosureType
  <2>. QED BY <2>1, <2>2
<1>. HIDE DEF mid
<1>7. ASSUME NEW x \in Category
      PROVE  mid.desc[x] = {fwd2[e] : e \in {y \in DocID \ {d} : x \in Chained(clo.asc[y])}}
  <2>1. \A e \in DocID \ {d} : x \in Chained(clo.asc[e]) => fwd2[e] = fwd[e] /\ fwd2[e] # id
    BY <1>3 DEF IdsKept
  <2>2. x \in Chained(clo.asc[d]) => fwd[d] = id
    BY <1>3 DEF IdsKept
  <2>3. clo.desc[x] = {fwd[e] : e \in {y \in DocID : x \in Chained(clo.asc[y])}}
    BY <1>4
  <2>4. mid.desc[x] = IF x \in Chained(clo.asc[d]) THEN clo.desc[x] \ {id} ELSE clo.desc[x]
    BY <1>6
  <2>. HIDE DEF id
  <2>. QED BY <2>1, <2>2, <2>3, <2>4
<1>8. CASE closureParent(new) = {}
  <2>1. clo2 = mid
    BY <1>8 DEF updateClosureIndex, mid
  <2>2. \A x \in Category : mid.desc[x] =
            {fwd2[e] : e \in {y \in DocID : x \in Chained(mid.asc[y])}}
    BY <1>2, <1>5, <1>6, <1>7
  <2>3. ASSUME NEW e \in DocID
        PROVE  /\ e \notin Chained(mid.asc[e])
               /\ Len(mid.asc[e]) <= closureMaxDepth
               /\ mid.asc[e] = <<>> <=> closureParent(docs2[e]) = {}
               /\ mid.asc[e] # <<>> => mid.asc[e][1] \in closureParent(docs2[e])
    <3>1. CASE e = d
      BY <1>2, <1>5, <1>6, <1>8, <3>1, DepthAssumption
    <3>2. CASE e # d
      BY <1>2, <1>6, <3>2 DEF ClosureOK
    <3>. QED BY <3>1, <3>2
  <2>4. ClosureOK(mid, fwd2, docs2)
    BY <2>2, <2>3 DEF ClosureOK
  <2>. QED BY <1>6, <2>1, <2>4
<1>9. CASE closureParent(new) # {}
  <2> DEFINE p == CHOOSE q \in closureParent(new) : TRUE
             chain == closureBuildAncestors(mid, p)
  <2>1. p \in closureParent(new) /\ p \in Category
    BY <1>9, ParentsAreCategories
  <2>2. clo2 = closureAdd(mid, d, p, id)
    BY <1>9 DEF updateClosureIndex, mid
  <2>3. ~closureAddFails(mid, d, p)
    BY <2>1 DEF updateClosureFails, mid
  <2>. HIDE DEF p
  <2>4. chain \in Seq(Category) /\ chain # <<>> /\ chain[1] = p
    BY <1>6, <2>1, BuildAncestors
  <2>5. Len(chain) <= closureMaxDepth /\ d \notin Chained(chain)
    BY <2>3, <2>4, DepthAssumption DEF closureAddFails
  <2>. HIDE DEF chain
  <2>6. /\ clo2.asc = [mid.asc EXCEPT ![d] = chain]
        /\ clo2.desc = [x \in Category |-> IF x \in Chained(chain)
                                           THEN mid.desc[x] \cup {id} ELSE mid.desc[x]]
        /\ clo2 = [asc |-> clo2.asc, desc |-> clo2.desc]
    BY <2>2 DEF closureAdd, chain
  <2>. HIDE DEF clo2
  <2>7. clo2 \in ClosureType
    BY <1>1, <1>2, <1>6, <2>4, <2>6 DEF ClosureType
  <2>8. \A e \in DocID : clo2.asc[e] = IF e = d THEN chain ELSE clo.asc[e]
    BY <1>2, <1>6, <2>6
  <2>9. ASSUME NEW x \in Category
        PROVE  clo2.desc[x] = {fwd2[e] : e \in {y \in DocID : x \in Chained(clo2.asc[y])}}
    <3>1. mid.desc[x] = {fwd2[e] : e \in {y \in DocID \ {d} : x \in Chained(clo2.asc[y])}}
      BY <1>7, <2>8
    <3>2. clo2.desc[x] = IF x \in Chained(clo2.asc[d])
                         THEN mid.desc[x] \cup {fwd2[d]} ELSE mid.desc[x]
      BY <2>6, <2>8
    <3>. QED BY <3>1, <3>2
  <2>10. ASSUME NEW e \in DocID
         PROVE  /\ e \notin Chained(clo2.asc[e])
                /\ Len(clo2.asc[e]) <= closureMaxDepth
                /\ clo2.asc[e] = <<>> <=> closureParent(docs2[e]) = {}
                /\ clo2.asc[e] # <<>> => clo2.asc[e][1] \in closureParent(docs2[e])
    <3>1. CASE e = d
      BY <1>9, <2>1, <2>4, <2>5, <2>8, <3>1
    <3>2. CASE e # d
      BY <2>8, <3>2 DEF ClosureOK
    <3>. QED BY <3>1, <3>2
  <2>11. ClosureOK(clo2, fwd2, docs2)
    BY <2>9, <2>10 DEF ClosureOK
  <2>. QED BY <2>7, <2>11 DEF clo2
<1>. QED BY <1>8, <1>9

----------------------------------------------------------------------------
\* Re-indexing one document keeps every fresh aggregate equal to a
\* recomputation, except where some document has several numbers.
LEMMA StatsIndexUpdate ==
    ASSUME NEW num \in NumericType, NEW stat \in StatsType, NEW docs \in [DocID -> Stored],
           NEW fwd \in [DocID -> Id \cup {0}], NEW fwd2 \in [DocID -> Id \cup {0}],
           NEW d \in DocID, NEW new \in Stored, NEW pick \in NewByPath(new),
           NumericExact(num, fwd, docs), IdsKept(fwd, fwd2, docs, d),
           StatsExact(stat, num, docs)
    PROVE  LET num2 == updateNumericIndex(num, fwd2[d], Numerics(Decoded(docs[d])),
                                          Numerics(new))
               stat2 == updateStatsIndex(stat, Decoded(docs[d]), pick)
           IN  /\ stat2 \in StatsType
               /\ StatsExact(stat2, num2, [docs EXCEPT ![d] = new])
<1> DEFINE id == fwd2[d]
           num2 == updateNumericIndex(num, id, Numerics(Decoded(docs[d])), Numerics(new))
           stat2 == updateStatsIndex(stat, Decoded(docs[d]), pick)
           docs2 == [docs EXCEPT ![d] = new]
<1>1. Numerics(Decoded(docs[d])) = Numerics(docs[d]) /\ Numerics(Absent) = {} /\ id \in Id
  BY NothingToExtract DEF IdsKept
<1>2. \A c \in Stored : \A n \in Numerics(c) : n = <<n[1], n[2]>> /\ n[1] \in Path /\ n[2] \in Value
  BY <1>1 DEF Stored, Path, Value, Numerics, ExtractNumerics
<1>3. \A p \in Path : p \in DOMAIN pick <=> NumericsAt(new, p) # {}
  BY DEF NewByPath, NumericsAt
<1>4. \A p \in DOMAIN pick : pick[p] \in Value /\ <<p, pick[p]>> \in Numerics(new)
  BY DEF NewByPath
<1>5. stat2 = [p \in Path |->
        IF NumericsAt(docs[d], p) # {} THEN statsMarkStale(stat[p])
        ELSE IF p \in DOMAIN pick THEN statsAddFresh(stat[p], pick[p]) ELSE stat[p]]
  BY <1>1 DEF updateStatsIndex, NumericsAt
<1>6. \A p \in Path : stat[p] \in [vals : [Value -> Nat], stale : BOOLEAN]
  BY DEF StatsType
<1>7. ASSUME NEW p \in Path
      PROVE  stat2[p] \in [vals : [Value -> Nat], stale : BOOLEAN]
  <2>1. stat[p].vals \in [Value -> Nat] /\ stat[p].stale \in BOOLEAN
    BY <1>6
  <2>2. CASE NumericsAt(docs[d], p) # {}
    <3>1. stat2[p] = [vals |-> stat[p].vals, stale |-> TRUE]
      BY <1>5, <2>2 DEF statsMarkStale
    <3>. QED BY <2>1, <3>1
  <2>3. CASE NumericsAt(docs[d], p) = {} /\ p \in DOMAIN pick
    <3>1. stat2[p] = statsAddFresh(stat[p], pick[p])
      BY <1>5, <2>3
    <3>2. pick[p] \in Value
      BY <1>4, <2>3
    <3>3. [stat[p].vals EXCEPT ![pick[p]] = @ + 1] \in [Value -> Nat]
      BY <2>1, <3>2
    <3>. QED BY <1>6, <2>1, <3>1, <3>3 DEF statsAddFresh, statsWelfordAdd
  <2>4. CASE NumericsAt(docs[d], p) = {} /\ p \notin DOMAIN pick
    BY <1>5, <1>6, <2>4
  <2>. QED BY <2>2, <2>3, <2>4
<1>8. stat2 \in StatsType
  BY <1>5, <1>7 DEF StatsType
<1>9. ASSUME NEW p \in Path, ~stat2[p].stale, \A e \in DocID : ~MultiValued(docs2[e], p)
      PROVE  stat2[p].vals = statsRecompute(num2, p).vals
  <2>1. NumericsAt(docs[d], p) = {}
    BY <1>5, <1>6, <1>9 DEF statsMarkStale
  <2>2. \A e \in DocID : ~MultiValued(docs[e], p)
    <3>1. ~MultiValued(docs[d], p)
      BY <2>1 DEF MultiValued
    <3>2. \A e \in DocID \ {d} : docs2[e] = docs[e]
      OBVIOUS
    <3>. QED BY <1>9, <3>1, <3>2
  <2>3. ~stat[p].stale
    BY <1>5, <1>9, <2>1 DEF statsAddFresh
  <2>4. stat[p].vals = statsRecompute(num, p).vals
    BY <2>2, <2>3 DEF StatsExact
  <2>5. \A v \in Value, i \in Id : <<v, i>> \in num2[p] <=>
           <<v, i>> \in num[p] \/ (<<p, v>> \in Numerics(new) /\ i = id)
    BY <1>1, <1>2, <2>1 DEF updateNumericIndex, NumericsAt
  <2>6. \A v \in Value : <<v, id>> \notin num[p]
    <3>. SUFFICES ASSUME NEW v \in Value, <<v, id>> \in num[p] PROVE FALSE
      OBVIOUS
    <3>1. PICK e \in DocID : <<p, v>> \in Numerics(docs[e]) /\ fwd[e] = id
      BY <1>1 DEF NumericExact
    <3>2. e # d
      <4>1. v \in NumericsAt(docs[e], p)
        BY <3>1 DEF NumericsAt
      <4>. QED BY <2>1, <4>1
    <3>. QED BY <1>1, <3>1, <3>2 DEF IdsKept
  <2> DEFINE Cnt(n, v) == Cardinality({i \in Id : <<v, i>> \in n[p]})
  <2>7. \A v \in Value : IF <<p, v>> \in Numerics(new) THEN Cnt(num2, v) = Cnt(num, v) + 1
                         ELSE Cnt(num2, v) = Cnt(num, v)
    <3>. SUFFICES ASSUME NEW v \in Value
                  PROVE  IF <<p, v>> \in Numerics(new) THEN Cnt(num2, v) = Cnt(num, v) + 1
                         ELSE Cnt(num2, v) = Cnt(num, v)
      OBVIOUS
    <3> DEFINE S == {i \in Id : <<v, i>> \in num[p]}
               T == {i \in Id : <<v, i>> \in num2[p]}
    <3>. HIDE DEF num2, id
    <3>1. IsFiniteSet(S) /\ id \notin S
      BY <2>6, IdsFinite
    <3>2. CASE <<p, v>> \in Numerics(new)
      <4>1. T = S \cup {id}
        BY <1>1, <2>5, <3>2
      <4>2. Cardinality(S \cup {id}) = Cardinality(S) + 1
        BY <3>1, FS_AddElement
      <4>. QED BY <3>2, <4>1, <4>2
    <3>3. CASE <<p, v>> \notin Numerics(new)
      <4>1. T = S
        BY <2>5, <3>3
      <4>. QED BY <3>3, <4>1
    <3>. QED BY <3>2, <3>3
  <2>8. \A v \in Value : stat[p].vals[v] = Cnt(num, v) /\ statsRecompute(num2, p).vals[v] = Cnt(num2, v)
    BY <2>4 DEF statsRecompute
  <2>9. stat2[p].vals \in [Value -> Nat] /\ statsRecompute(num2, p).vals = [v \in Value |-> Cnt(num2, v)]
    BY <1>7 DEF statsRecompute
  <2>10. \A v \in Value : stat2[p].vals[v] =
            IF <<p, v>> \in Numerics(new) THEN stat[p].vals[v] + 1 ELSE stat[p].vals[v]
    <3>1. CASE p \in DOMAIN pick
      <4>1. stat2[p].vals = [stat[p].vals EXCEPT ![pick[p]] = @ + 1]
        BY <1>5, <1>6, <2>1, <2>3, <3>1 DEF statsAddFresh, statsWelfordAdd
      <4>2. ASSUME NEW v \in Value
            PROVE  <<p, v>> \in Numerics(new) <=> v = pick[p]
        <5>1. \A w : <<p, w>> \in Numerics(new) => w \in NumericsAt(new, p)
          BY DEF NumericsAt
        <5>2. pick[p] \in NumericsAt(new, p)
          BY <1>4, <3>1, <5>1
        <5>3. ~MultiValued(new, p)
          BY <1>9
        <5>. QED BY <1>4, <3>1, <5>1, <5>2, <5>3 DEF MultiValued
      <4>. QED BY <1>6, <4>1, <4>2
    <3>2. CASE p \notin DOMAIN pick
      <4>1. stat2[p] = stat[p]
        BY <1>5, <2>1, <3>2
      <4>2. \A v \in Value : <<p, v>> \notin Numerics(new)
        BY <1>3, <3>2 DEF NumericsAt
      <4>. QED BY <4>1, <4>2
    <3>. QED BY <3>1, <3>2
  <2>. HIDE DEF Cnt, num2, stat2
  <2>11. \A v \in Value : stat2[p].vals[v] = Cnt(num2, v)
    BY <2>7, <2>8, <2>10
  <2>. QED BY <2>9, <2>11
<1>. HIDE DEF num2, stat2, docs2
<1>10. StatsExact(stat2, num2, docs2)
  BY <1>7, <1>9 DEF StatsExact
<1>. QED BY <1>8, <1>10 DEF num2, stat2, docs2

----------------------------------------------------------------------------
\* What the recomputation may put into a cell.
LEMMA NewMaxType ==
    ASSUME NEW log \in SUBSET TemporalEntry, NEW a \in newMax(log)
    PROVE  /\ a \in [at : Int, doc : DocID \cup {Absent}]
           /\ (\E e \in log : e.at > 0) => a.doc # Absent
<1>1. CASE {e \in log : e.at > 0} = {}
  BY <1>1 DEF newMax, NoEntry
<1>2. CASE {e \in log : e.at > 0} # {}
  <2>1. PICK e \in log : a = [at |-> e.at, doc |-> e.doc]
    BY <1>2 DEF newMax
  <2>. QED BY <2>1, TimesAreIntegers, ContentAssumption DEF TemporalEntry
<1>. QED BY <1>1, <1>2

\* What updateAbsenceIndex does is one of three things: nothing, recording
\* the new document's time, or retracting the one of a document that loses it.
AbsenceStep(abs, abs2, temp, d, old, new) ==
    \/ /\ abs2 = abs /\ temporalFields(new) = {}
       /\ new \in {Absent, EmptyDoc} => temporalFields(old) = {}
    \/ \E f \in temporalFields(new) :
          abs2 = [abs EXCEPT ![absenceCellKey(f)] =
                      absenceRecord(abs[absenceCellKey(f)], d, f.at)]
    \/ temporalFields(new) = {} /\ \E f \in temporalFields(old) :
          \E a \in absenceRetract(abs[absenceCellKey(f)], d,
                                 temporalRead(temp, f.item, {f.type})) :
              abs2 = [abs EXCEPT ![absenceCellKey(f)] = a]

\* updateAbsenceIndex records or retracts in one cell at most.
LEMMA AbsenceCases ==
    ASSUME NEW abs, NEW temp, NEW docs \in [DocID -> Stored], NEW d \in DocID,
           NEW new \in Stored,
           NEW abs2 \in updateAbsenceIndex(abs, temp, d, Decoded(docs[d]), new)
    PROVE  AbsenceStep(abs, abs2, temp, d, docs[d], new)
<1> DEFINE log(f) == temporalRead(temp, f.item, {f.type})
<1>0. /\ temporalFields(Decoded(docs[d])) = temporalFields(docs[d])
      /\ temporalFields(Absent) = {}
      /\ EmptyDoc \in Content => temporalFields(EmptyDoc) = {}
  <2>1. ASSUME EmptyDoc \in Content PROVE temporalFields(EmptyDoc) = {}
    BY <2>1, NothingToExtract DEF Decoded, Stored
  <2>. QED BY <2>1, NothingToExtract
<1>1. new \in {Absent, EmptyDoc} => temporalFields(new) = {}
  BY <1>0 DEF Stored
<1> DEFINE gone == IF new \in {Absent, EmptyDoc} THEN temporalFields(Decoded(docs[d])) ELSE {}
           recorded == {[abs EXCEPT ![absenceCellKey(f)] =
                           absenceRecord(abs[absenceCellKey(f)], d, f.at)] :
                              f \in temporalFields(new)}
           retracts(f) == {[abs EXCEPT ![absenceCellKey(f)] = a] :
                              a \in absenceRetract(abs[absenceCellKey(f)], d, log(f))}
           retracted == UNION {retracts(f) : f \in gone}
<1>2. abs2 \in IF gone = {} /\ temporalFields(new) = {} THEN {abs}
               ELSE recorded \cup retracted
  BY DEF updateAbsenceIndex
<1>3. ASSUME abs2 \in recorded
      PROVE  \E f \in temporalFields(new) :
                abs2 = [abs EXCEPT ![absenceCellKey(f)] =
                            absenceRecord(abs[absenceCellKey(f)], d, f.at)]
  BY <1>3
<1>4. ASSUME abs2 \in retracted
      PROVE  temporalFields(new) = {} /\ \E f \in temporalFields(docs[d]) :
                \E a \in absenceRetract(abs[absenceCellKey(f)], d, log(f)) :
                    abs2 = [abs EXCEPT ![absenceCellKey(f)] = a]
  <2>1. PICK f \in gone :
           \E a \in absenceRetract(abs[absenceCellKey(f)], d, log(f)) :
              abs2 = [abs EXCEPT ![absenceCellKey(f)] = a]
    <3>. HIDE DEF retracts, gone
    <3>1. PICK f \in gone : abs2 \in retracts(f)
      BY <1>4
    <3>. QED BY <3>1 DEF retracts
  <2>2. new \in {Absent, EmptyDoc} /\ f \in temporalFields(docs[d])
    BY <1>0
  <2>. QED BY <1>1, <2>1, <2>2
<1>5. CASE abs2 \in recorded
  BY <1>3, <1>5 DEF AbsenceStep
<1>6. CASE abs2 \in retracted
  BY <1>4, <1>6 DEF AbsenceStep
<1>7. CASE abs2 = abs /\ temporalFields(new) = {} /\ gone = {}
  BY <1>0, <1>7 DEF AbsenceStep
<1>. HIDE DEF recorded, retracted, gone
<1>. QED BY <1>2, <1>5, <1>6, <1>7

\* Recording or retracting one document never removes the entry of a cell
\* that still has a document dated after the epoch.
LEMMA AbsenceUpdate ==
    ASSUME NEW abs \in AbsenceType, NEW temp \in TemporalType,
           NEW docs \in [DocID -> Stored], NEW d \in DocID, NEW new \in Stored,
           TemporalExact(temp, [docs EXCEPT ![d] = new]),
           LastSeenPresent(abs, docs),
           NEW abs2 \in updateAbsenceIndex(abs, temp, d, Decoded(docs[d]), new)
    PROVE  /\ abs2 \in AbsenceType
           /\ LastSeenPresent(abs2, [docs EXCEPT ![d] = new])
<1> DEFINE docs2 == [docs EXCEPT ![d] = new]
           log(f) == temporalRead(temp, f.item, {f.type})
<1>1. /\ temporalFields(Decoded(docs[d])) = temporalFields(docs[d])
      /\ temporalFields(Absent) = {}
      /\ EmptyDoc \in Content => temporalFields(EmptyDoc) = {}
  <2>1. ASSUME EmptyDoc \in Content PROVE temporalFields(EmptyDoc) = {}
    BY <2>1, NothingToExtract DEF Decoded, Stored
  <2>. QED BY <2>1, NothingToExtract
<1>2. \A c \in Stored : \A f \in temporalFields(c) :
        /\ f = [item |-> f.item, type |-> f.type, at |-> f.at]
        /\ f \in TemporalFields /\ absenceCellKey(f) \in Cell
        /\ f.item \in Item /\ f.type \in RecordType /\ f.at \in At /\ f.at \in Int
  BY <1>1, TimesAreIntegers
  DEF Stored, Item, RecordType, At, TemporalFields, Cell, temporalFields, ParseTemporal
<1>3. ASSUME NEW e \in DocID, NEW f \in temporalFields(docs2[e])
      PROVE  [at |-> f.at, type |-> f.type, doc |-> e] \in log(f)
  <2>1. docs2[e] \in Stored
    OBVIOUS
  <2>2. [at |-> f.at, type |-> f.type, doc |-> e] \in TemporalEntry
    BY <1>2, <2>1 DEF TemporalEntry
  <2>. QED BY <1>2, <2>1, <2>2 DEF TemporalExact, temporalRead
<1>4. CASE abs2 = abs /\ temporalFields(new) = {}
  <2>1. \A e \in DocID : \A f \in temporalFields(docs2[e]) : f \in temporalFields(docs[e])
    BY <1>4
  <2>. QED BY <1>4, <2>1 DEF LastSeenPresent
<1>5. ASSUME NEW f \in temporalFields(new),
             abs2 = [abs EXCEPT ![absenceCellKey(f)] =
                        absenceRecord(abs[absenceCellKey(f)], d, f.at)]
      PROVE  abs2 \in AbsenceType /\ LastSeenPresent(abs2, docs2)
  <2> DEFINE k == absenceCellKey(f)
             a == absenceRecord(abs[k], d, f.at)
  <2>1. k \in Cell /\ f.at \in Int
    BY <1>2
  <2>2. a \in [at : Int, doc : DocID \cup {Absent}] /\ a.doc # Absent
    BY <2>1, ContentAssumption DEF absenceRecord, AbsenceType
  <2>. HIDE DEF a, k
  <2>3. abs2 = [abs EXCEPT ![k] = a]
    BY <1>5 DEF a, k
  <2>4. abs2 \in AbsenceType
    BY <2>1, <2>2, <2>3 DEF AbsenceType
  <2>5. \A x \in Cell : abs[x].doc # Absent => abs2[x].doc # Absent
    BY <2>1, <2>2, <2>3 DEF AbsenceType
  <2>6. ASSUME NEW e \in DocID, NEW g \in temporalFields(docs2[e]), g.at > 0, Unshared(g)
        PROVE  abs2[absenceCellKey(g)].doc # Absent
    <3>1. CASE e = d
      <4>1. g \in temporalFields(new)
        BY <3>1
      <4>2. g = f
        BY <4>1, FieldsUnique
      <4>. QED BY <2>1, <2>2, <2>3, <4>2 DEF AbsenceType, k
    <3>2. CASE e # d
      <4>1. g \in temporalFields(docs[e]) /\ docs[e] \in Stored
        BY <3>2
      <4>. QED BY <1>2, <2>5, <2>6, <4>1 DEF LastSeenPresent
    <3>. QED BY <3>1, <3>2
  <2>. QED BY <2>4, <2>6 DEF LastSeenPresent
<1>6. ASSUME NEW f \in temporalFields(docs[d]), temporalFields(new) = {},
             NEW a \in absenceRetract(abs[absenceCellKey(f)], d, log(f)),
             abs2 = [abs EXCEPT ![absenceCellKey(f)] = a]
      PROVE  abs2 \in AbsenceType /\ LastSeenPresent(abs2, docs2)
  <2> DEFINE k == absenceCellKey(f)
  <2>1. k \in Cell /\ f.item \in Item
    BY <1>2
  <2>2. log(f) \in SUBSET TemporalEntry
    BY <2>1 DEF temporalRead, TemporalType
  <2>3. a = abs[k] \/ a \in newMax(filterOutDocID(log(f), d))
    BY <1>6 DEF absenceRetract
  <2>4. filterOutDocID(log(f), d) \in SUBSET TemporalEntry
    BY <2>2 DEF filterOutDocID
  <2>5. a \in [at : Int, doc : DocID \cup {Absent}]
    BY <2>1, <2>3, <2>4, NewMaxType DEF AbsenceType
  <2>. HIDE DEF k
  <2>6. abs2 = [abs EXCEPT ![k] = a] /\ abs2 \in AbsenceType
    BY <1>6, <2>1, <2>5 DEF AbsenceType, k
  <2>7. ASSUME NEW e \in DocID, NEW g \in temporalFields(docs2[e]), g.at > 0, Unshared(g)
        PROVE  abs2[absenceCellKey(g)].doc # Absent
    <3>1. e # d /\ docs2[e] = docs[e] /\ docs[e] \in Stored
      BY <1>6, <2>7
    <3>2. g \in TemporalFields /\ absenceCellKey(g) \in Cell /\ f \in TemporalFields
      BY <1>2, <3>1
    <3>3. abs[absenceCellKey(g)].doc # Absent
      BY <2>7, <3>1 DEF LastSeenPresent
    <3>4. CASE absenceCellKey(g) = k
      <4>1. f.item = g.item /\ f.type = g.type
        BY <2>7, <3>2, <3>4 DEF Unshared, k
      <4>2. [at |-> g.at, type |-> g.type, doc |-> e] \in log(g)
        BY <1>3, <2>7, <3>1
      <4>3. [at |-> g.at, type |-> g.type, doc |-> e] \in filterOutDocID(log(f), d)
        BY <3>1, <4>1, <4>2 DEF filterOutDocID
      <4>4. \E x \in filterOutDocID(log(f), d) : x.at > 0
        BY <2>7, <4>3
      <4>5. a.doc # Absent
        BY <2>3, <2>4, <3>3, <3>4, <4>4, NewMaxType
      <4>. QED BY <2>6, <3>2, <3>4, <4>5 DEF AbsenceType
    <3>5. CASE absenceCellKey(g) # k
      BY <2>1, <2>6, <3>2, <3>3, <3>5 DEF AbsenceType
    <3>. QED BY <3>4, <3>5
  <2>. QED BY <2>6, <2>7 DEF LastSeenPresent
<1>7. AbsenceStep(abs, abs2, temp, d, docs[d], new)
  BY AbsenceCases
<1>. QED BY <1>4, <1>5, <1>6, <1>7 DEF AbsenceStep

----------------------------------------------------------------------------
(* One document's write keeps all the buckets consistent together.         *)

\* Put, Delete and the id map agree on which documents are stored.
MetaOK(b) ==
    \A d \in DocID :
        /\ b.docs[d] # Absent <=> b.meta[d] > 0
        /\ b.docs[d] # Absent => b.ids.fwd[d] # 0

BucketsOK(b) ==
    /\ b \in BucketsType
    /\ IdMapOK(b.ids)
    /\ MetaOK(b)
    /\ InvertedExact(b.inv, b.ids.fwd, b.docs)
    /\ NumericExact(b.num, b.ids.fwd, b.docs)
    /\ TemporalExact(b.temp, b.docs)
    /\ GroupsExact(b.gby, b.ids.fwd, b.docs)
    /\ LastSeenCovers(b.gby, b.docs)
    /\ ClosureOK(b.clo, b.ids.fwd, b.docs)
    /\ StatsExact(b.stat, b.num, b.docs)
    /\ LastSeenPresent(b.abs, b.docs)

\* No assignment of the id map of b is undone or changed in b2.
IdsGrow(b, b2) ==
    /\ \A d \in DocID : b.ids.fwd[d] # 0 => b2.ids.fwd[d] = b.ids.fwd[d]
    /\ \A i \in Id : b.ids.rev[i] # Absent => b2.ids.rev[i] = b.ids.rev[i]

\* The types of the parts of a set of buckets.
LEMMA PartTypes ==
    ASSUME NEW b \in BucketsType
    PROVE  /\ b.docs \in [DocID -> Stored] /\ b.meta \in [DocID -> Nat]
           /\ b.ids \in IdMapType /\ b.ids.fwd \in [DocID -> Id \cup {0}]
           /\ b.ids.rev \in [Id -> DocID \cup {Absent}]
           /\ b.inv \in InvertedType /\ b.num \in NumericType
           /\ b.temp \in TemporalType /\ b.gby \in GroupType
           /\ b.clo \in ClosureType /\ b.stat \in StatsType /\ b.abs \in AbsenceType
<1>1. /\ b.docs \in [DocID -> Stored] /\ b.meta \in [DocID -> Nat]
      /\ b.ids \in IdMapType
      /\ b.inv \in InvertedType /\ b.num \in NumericType
      /\ b.temp \in TemporalType /\ b.gby \in GroupType
      /\ b.clo \in ClosureType /\ b.stat \in StatsType /\ b.abs \in AbsenceType
  BY DEF BucketsType, Stored
<1>. QED BY <1>1 DEF IdMapType

\* Re-indexing one document under an id that is its own keeps every index
\* consistent with the documents.
LEMMA ReindexPreserves ==
    ASSUME NEW b, BucketsOK(b), NEW d \in DocID, NEW new \in Stored,
           NEW ids \in IdMapType, IdMapOK(ids),
           IdsKept(b.ids.fwd, ids.fwd, b.docs, d),
           NEW meta \in [DocID -> Nat],
           \A e \in DocID :
              /\ [b.docs EXCEPT ![d] = new][e] # Absent <=> meta[e] > 0
              /\ [b.docs EXCEPT ![d] = new][e] # Absent => ids.fwd[e] # 0,
           ~updateClosureFails(b.clo, d, ids.fwd[d], Decoded(b.docs[d]), new),
           NEW b2 \in Reindexed(b, [b.docs EXCEPT ![d] = new], meta, ids, d,
                                Decoded(b.docs[d]), new)
    PROVE  BucketsOK(b2)
<1> DEFINE old == Decoded(b.docs[d])
           docs2 == [b.docs EXCEPT ![d] = new]
           id == ids.fwd[d]
           inv2 == updateInvertedIndex(b.inv, id, Terms(old), Terms(new))
           num2 == updateNumericIndex(b.num, id, Numerics(old), Numerics(new))
           temp2 == updateTemporalIndex(b.temp, d, old, new)
           gby2 == updateGroupByIndex(b.gby, id, old, new)
           clo2 == updateClosureIndex(b.clo, d, id, old, new)
<1>1. b \in BucketsType
  BY DEF BucketsOK
<1>2. ids.fwd \in [DocID -> Id \cup {0}] /\ docs2 \in [DocID -> Stored]
  BY <1>1, PartTypes DEF IdMapType
<1>3. inv2 \in InvertedType /\ InvertedExact(inv2, ids.fwd, docs2)
  BY <1>1, <1>2, PartTypes, InvertedUpdate DEF BucketsOK
<1>4. num2 \in NumericType /\ NumericExact(num2, ids.fwd, docs2)
  BY <1>1, <1>2, PartTypes, NumericUpdate DEF BucketsOK
<1>5. temp2 \in TemporalType /\ TemporalExact(temp2, docs2)
  BY <1>1, <1>2, PartTypes, TemporalUpdate DEF BucketsOK
<1>6. gby2 \in GroupType /\ GroupsExact(gby2, ids.fwd, docs2) /\ LastSeenCovers(gby2, docs2)
  BY <1>1, <1>2, PartTypes, GroupUpdate DEF BucketsOK
<1>7. clo2 \in ClosureType /\ ClosureOK(clo2, ids.fwd, docs2)
  BY <1>1, <1>2, PartTypes, ClosureUpdate DEF BucketsOK
<1>8. PICK pick \in NewByPath(new), abs2 \in updateAbsenceIndex(b.abs, temp2, d, old, new) :
         b2 = [docs |-> docs2, meta |-> meta, ids |-> ids, inv |-> inv2, num |-> num2,
               temp |-> temp2, gby |-> gby2, clo |-> clo2,
               stat |-> updateStatsIndex(b.stat, old, pick), abs |-> abs2]
  <2>. HIDE DEF old, docs2
  <2>. QED BY DEF Reindexed, old, docs2
<1> DEFINE stat2 == updateStatsIndex(b.stat, old, pick)
<1>9. stat2 \in StatsType /\ StatsExact(stat2, num2, docs2)
  BY <1>1, <1>2, PartTypes, StatsIndexUpdate DEF BucketsOK
<1>10. abs2 \in AbsenceType /\ LastSeenPresent(abs2, docs2)
  BY <1>1, <1>2, <1>5, PartTypes, AbsenceUpdate DEF BucketsOK
<1>11. \A e \in DocID : /\ docs2[e] # Absent <=> meta[e] > 0
                        /\ docs2[e] # Absent => ids.fwd[e] # 0
  OBVIOUS
<1>12. b2 = [docs |-> docs2, meta |-> meta, ids |-> ids, inv |-> inv2, num |-> num2,
             temp |-> temp2, gby |-> gby2, clo |-> clo2, stat |-> stat2, abs |-> abs2]
  BY <1>8
<1>. HIDE DEF old, docs2, id, inv2, num2, temp2, gby2, clo2, stat2
<1>13. b2 \in BucketsType
  BY <1>2, <1>3, <1>4, <1>5, <1>6, <1>7, <1>9, <1>10, <1>12 DEF BucketsType, Stored
<1>. QED
  BY <1>3, <1>4, <1>5, <1>6, <1>7, <1>9, <1>10, <1>11, <1>12, <1>13 DEF BucketsOK, MetaOK

\* putInTxEvents, when it does not fail, keeps the buckets consistent, and
\* keeps every assignment of the id map.
LEMMA PutPreserves ==
    ASSUME NEW b, BucketsOK(b), NEW d \in DocID, NEW new \in Content,
           ~putFails(b, d, new), NEW b2 \in putInTx(b, d, new)
    PROVE  /\ BucketsOK(b2)
           /\ IdsGrow(b, b2)
           /\ b2.docs = [b.docs EXCEPT ![d] = new]
<1> DEFINE ids == idmapAssign(b.ids, d)
           meta == [b.meta EXCEPT ![d] = @ + 1]
<1>1. b \in BucketsType /\ IdMapOK(b.ids) /\ MetaOK(b) /\ ~idmapExhausted(b.ids, d)
  BY DEF BucketsOK, putFails
<1>2. /\ ids \in IdMapType /\ IdMapOK(ids) /\ ids.fwd[d] \in Id
      /\ \A e \in DocID : b.ids.fwd[e] # 0 => ids.fwd[e] = b.ids.fwd[e]
      /\ \A i \in Id : b.ids.rev[i] # Absent => ids.rev[i] = b.ids.rev[i]
  BY <1>1, PartTypes, IdMapAssign
<1>. HIDE DEF ids
<1>3. 0 \notin Id /\ new \in Stored /\ new # Absent
  BY IdSpaceAssumption, ContentAssumption DEF Id, Stored
<1>4. IdsKept(b.ids.fwd, ids.fwd, b.docs, d)
  <2>1. ASSUME NEW e \in DocID \ {d}, b.docs[e] # Absent
        PROVE  ids.fwd[e] = b.ids.fwd[e] /\ ids.fwd[e] # ids.fwd[d]
    <3>1. b.ids.fwd[e] # 0 /\ ids.fwd[e] = b.ids.fwd[e]
      BY <1>1, <1>2, <2>1 DEF MetaOK
    <3>2. ids.rev[ids.fwd[e]] = e /\ ids.rev[ids.fwd[d]] = d
      BY <1>2, <1>3, <3>1 DEF IdMapOK
    <3>. QED BY <2>1, <3>1, <3>2
  <2>2. b.docs[d] # Absent => ids.fwd[d] = b.ids.fwd[d]
    BY <1>1, <1>2 DEF MetaOK
  <2>. QED BY <1>2, <2>1, <2>2 DEF IdsKept
<1>5. /\ meta \in [DocID -> Nat]
      /\ \A e \in DocID :
              /\ [b.docs EXCEPT ![d] = new][e] # Absent <=> meta[e] > 0
              /\ [b.docs EXCEPT ![d] = new][e] # Absent => ids.fwd[e] # 0
  BY <1>1, <1>2, <1>3, PartTypes DEF MetaOK
<1>6. ~updateClosureFails(b.clo, d, ids.fwd[d], Decoded(b.docs[d]), new)
  BY DEF putFails, oldDoc, ids
<1>7. b2 \in Reindexed(b, [b.docs EXCEPT ![d] = new], meta, ids, d,
                       Decoded(b.docs[d]), new)
  BY DEF putInTx, oldDoc, ids
<1>. HIDE DEF meta
<1>8. BucketsOK(b2)
  BY <1>2, <1>3, <1>4, <1>5, <1>6, <1>7, ReindexPreserves
<1>9. b2.ids = ids /\ b2.docs = [b.docs EXCEPT ![d] = new]
  BY <1>7 DEF Reindexed
<1>. QED BY <1>2, <1>8, <1>9 DEF IdsGrow

\* Dropping a document that holds nothing leaves every index right as it is.
LEMMA DropPreserves ==
    ASSUME NEW b, BucketsOK(b), NEW d \in DocID, b.docs[d] \in {Absent, EmptyDoc},
           NEW b2, b2 = [docs |-> [b.docs EXCEPT ![d] = Absent],
                         meta |-> [b.meta EXCEPT ![d] = 0], ids |-> b.ids,
                         inv |-> b.inv, num |-> b.num, temp |-> b.temp, gby |-> b.gby,
                         clo |-> b.clo, stat |-> b.stat, abs |-> b.abs]
    PROVE  BucketsOK(b2)
<1> DEFINE docs == b.docs
           docs2 == [docs EXCEPT ![d] = Absent]
<1>1. /\ b \in BucketsType
      /\ docs \in [DocID -> Stored] /\ docs2 \in [DocID -> Stored]
  BY PartTypes DEF BucketsOK, Stored
<1>2. \A e \in DocID : /\ Terms(docs2[e]) = Terms(docs[e])
                       /\ Numerics(docs2[e]) = Numerics(docs[e])
                       /\ temporalFields(docs2[e]) = temporalFields(docs[e])
                       /\ Groups(docs2[e]) = Groups(docs[e])
                       /\ closureParent(docs2[e]) = closureParent(docs[e])
  <2>1. Decoded(docs[d]) = Absent /\ docs[d] \in Stored
    BY <1>1 DEF Decoded
  <2>2. /\ Terms(docs[d]) = Terms(Absent)
        /\ Numerics(docs[d]) = Numerics(Absent)
        /\ temporalFields(docs[d]) = temporalFields(Absent)
        /\ Groups(docs[d]) = Groups(Absent)
        /\ closureParent(docs[d]) = closureParent(Absent)
    BY <2>1, NothingToExtract
  <2>. QED BY <1>1, <2>2
<1>3. /\ b2.docs = docs2 /\ b2.meta = [b.meta EXCEPT ![d] = 0]
      /\ b2.ids = b.ids /\ b2.inv = b.inv /\ b2.num = b.num /\ b2.temp = b.temp
      /\ b2.gby = b.gby /\ b2.clo = b.clo /\ b2.stat = b.stat /\ b2.abs = b.abs
  OBVIOUS
<1>4. b2 \in BucketsType
  BY <1>1, PartTypes DEF BucketsType, Stored
<1>5. MetaOK(b2)
  BY <1>1, <1>3, PartTypes DEF BucketsOK, MetaOK
<1>. HIDE DEF docs2
<1>6. InvertedExact(b2.inv, b2.ids.fwd, b2.docs)
  <2>1. ASSUME NEW t \in Term
        PROVE  {e \in DocID : t \in Terms(docs2[e])} = {e \in DocID : t \in Terms(docs[e])}
    BY <1>2
  <2>. QED BY <1>3, <2>1 DEF BucketsOK, InvertedExact
<1>7. NumericExact(b2.num, b2.ids.fwd, b2.docs)
  <2>1. NumericExact(b.num, b.ids.fwd, docs)
    BY DEF BucketsOK
  <2>2. ASSUME NEW p \in Path, NEW v \in Value, NEW i \in Id
        PROVE  <<v, i>> \in b.num[p] <=>
                 \E e \in DocID : <<p, v>> \in Numerics(docs2[e]) /\ b.ids.fwd[e] = i
    <3>1. <<v, i>> \in b.num[p] <=>
             \E e \in DocID : <<p, v>> \in Numerics(docs[e]) /\ b.ids.fwd[e] = i
      BY <2>1 DEF NumericExact
    <3>. QED BY <1>2, <3>1
  <2>3. NumericExact(b.num, b.ids.fwd, docs2)
    BY <2>2, Zenon DEF NumericExact
  <2>. QED BY <1>3, <2>3
<1>8. TemporalExact(b2.temp, b2.docs)
  BY <1>2, <1>3 DEF BucketsOK, TemporalExact, TemporalEntry
<1>9. /\ GroupsExact(b2.gby, b2.ids.fwd, b2.docs)
      /\ LastSeenCovers(b2.gby, b2.docs)
  <2>1. \A k \in GroupKey : GroupMembers(k, docs2) = GroupMembers(k, docs)
    BY <1>2 DEF GroupMembers
  <2>2. \A e \in DocID : groupByAt(docs2[e]) = groupByAt(docs[e])
    <3>1. ASSUME NEW e \in DocID PROVE groupByAt(docs2[e]) = groupByAt(docs[e])
      <4>1. CASE e = d
        <5>1. temporalFields(docs[d]) = {} /\ temporalFields(docs2[d]) = {}
          BY <1>1, <1>2, NothingToExtract DEF docs2
        <5>. QED BY <4>1, <5>1 DEF groupByAt
      <4>2. CASE e # d
        BY <1>1, <4>2 DEF docs2
      <4>. QED BY <4>1, <4>2
    <3>. QED BY <3>1
  <2>3. \A k \in GroupKey : GroupMembers(k, docs) \subseteq DocID
    BY DEF GroupMembers
  <2>. QED BY <1>3, <2>1, <2>2, <2>3 DEF BucketsOK, GroupsExact, LastSeenCovers
<1>10. ClosureOK(b2.clo, b2.ids.fwd, b2.docs)
  BY <1>2, <1>3 DEF BucketsOK, ClosureOK
<1>11. StatsExact(b2.stat, b2.num, b2.docs)
  <2>1. ASSUME NEW e \in DocID, NEW p PROVE MultiValued(docs2[e], p) <=> MultiValued(docs[e], p)
    BY <1>2 DEF MultiValued, NumericsAt
  <2>2. StatsExact(b.stat, b.num, docs)
    BY DEF BucketsOK
  <2>3. StatsExact(b.stat, b.num, docs2)
    BY <2>1, <2>2, Zenon DEF StatsExact
  <2>. QED BY <1>3, <2>3
<1>12. LastSeenPresent(b2.abs, b2.docs)
  BY <1>2, <1>3 DEF BucketsOK, LastSeenPresent
<1>. QED
  BY <1>3, <1>4, <1>5, <1>6, <1>7, <1>8, <1>9, <1>10, <1>11, <1>12 DEF BucketsOK

\* The body of Delete keeps the buckets consistent.
LEMMA DeletePreserves ==
    ASSUME NEW b, BucketsOK(b), NEW d \in DocID, NEW b2 \in deleteInTx(b, d)
    PROVE  /\ BucketsOK(b2)
           /\ IdsGrow(b, b2)
           /\ b2.docs = [b.docs EXCEPT ![d] = Absent]
<1> DEFINE meta == [b.meta EXCEPT ![d] = 0]
<1>1. b \in BucketsType /\ IdMapOK(b.ids) /\ MetaOK(b)
  BY DEF BucketsOK
<1>2. 0 \notin Id /\ Absent \in Stored
  BY IdSpaceAssumption DEF Id, Stored
<1>3. CASE oldDoc(b, d) = Absent \/ idmapLookup(b.ids, d) = 0
  <2>1. b.docs[d] \in {Absent, EmptyDoc}
    BY <1>1, <1>3 DEF oldDoc, Decoded, idmapLookup, MetaOK
  <2>2. b2 = [docs |-> [b.docs EXCEPT ![d] = Absent],
              meta |-> [b.meta EXCEPT ![d] = 0], ids |-> b.ids,
              inv |-> b.inv, num |-> b.num, temp |-> b.temp, gby |-> b.gby,
              clo |-> b.clo, stat |-> b.stat, abs |-> b.abs]
    BY <1>3 DEF deleteInTx
  <2>3. b2.ids = b.ids /\ b2.docs = [b.docs EXCEPT ![d] = Absent]
    BY <2>2
  <2>. QED BY <2>1, <2>2, <2>3, DropPreserves DEF IdsGrow
<1>4. CASE ~(oldDoc(b, d) = Absent \/ idmapLookup(b.ids, d) = 0)
  <2>1. b.ids.fwd[d] \in Id
    BY <1>1, <1>4, PartTypes DEF idmapLookup
  <2>2. IdsKept(b.ids.fwd, b.ids.fwd, b.docs, d)
    <3>1. ASSUME NEW e \in DocID \ {d}, b.docs[e] # Absent
          PROVE  b.ids.fwd[e] # b.ids.fwd[d]
      BY <1>1, <1>2, <2>1, <3>1 DEF MetaOK, IdMapOK
    <3>. QED BY <2>1, <3>1 DEF IdsKept
  <2>3. /\ meta \in [DocID -> Nat]
        /\ \A e \in DocID :
              /\ [b.docs EXCEPT ![d] = Absent][e] # Absent <=> meta[e] > 0
              /\ [b.docs EXCEPT ![d] = Absent][e] # Absent => b.ids.fwd[e] # 0
    BY <1>1, PartTypes DEF MetaOK
  <2>4. ~updateClosureFails(b.clo, d, b.ids.fwd[d], Decoded(b.docs[d]), Absent)
    BY NothingToExtract DEF updateClosureFails
  <2>5. b2 \in Reindexed(b, [b.docs EXCEPT ![d] = Absent], meta, b.ids, d,
                         Decoded(b.docs[d]), Absent)
    BY <1>4 DEF deleteInTx, oldDoc
  <2>6. b2.ids = b.ids /\ b2.docs = [b.docs EXCEPT ![d] = Absent]
    BY <2>5 DEF Reindexed
  <2>. HIDE DEF meta
  <2>7. BucketsOK(b2)
    BY <1>1, <1>2, <2>2, <2>3, <2>4, <2>5, PartTypes, ReindexPreserves
  <2>. QED BY <2>6, <2>7 DEF IdsGrow
<1>. QED BY <1>3, <1>4

\* A new database is consistent.
LEMMA EmptyConsistent == BucketsOK(EmptyBuckets)
<1> DEFINE b == EmptyBuckets
<1>1. /\ b.docs = [d \in DocID |-> Absent] /\ b.meta = [d \in DocID |-> 0]
      /\ b.ids = EmptyIdMap /\ b.inv = EmptyInverted /\ b.num = EmptyNumeric
      /\ b.temp = EmptyTemporal /\ b.gby = EmptyGroups /\ b.clo = EmptyClosure
      /\ b.stat = EmptyStats /\ b.abs = EmptyAbsence
  BY DEF EmptyBuckets
<1>2. /\ 0 \notin Id /\ 1 \in Id /\ \A i \in Id : ~(i < 1)
  BY IdSpaceAssumption DEF Id
<1>3. EmptyIdMap \in IdMapType /\ IdMapOK(EmptyIdMap)
  BY <1>2, IdSpaceAssumption DEF IdMapType, EmptyIdMap, IdMapOK
<1>4. EmptyGroups \in GroupType /\ EmptyStats \in StatsType
  BY DEF EmptyGroups, GroupType, NoGroup, EmptyStats, StatsType, NoStats
<1>5. EmptyClosure \in ClosureType
  BY DEF EmptyClosure, ClosureType
<1>6. EmptyAbsence \in AbsenceType
  BY DEF EmptyAbsence, AbsenceType, NoEntry
<1>7. /\ EmptyInverted \in InvertedType /\ EmptyNumeric \in NumericType
      /\ EmptyTemporal \in TemporalType
  BY DEF EmptyInverted, InvertedType, EmptyNumeric, NumericType, EmptyTemporal, TemporalType
<1>8. b \in BucketsType
  BY <1>3, <1>4, <1>5, <1>6, <1>7 DEF BucketsType, EmptyBuckets
<1>. HIDE DEF b
<1>9. MetaOK(b)
  <2>1. \A d \in DocID : b.docs[d] = Absent /\ b.meta[d] = 0
    BY <1>1
  <2>2. ASSUME NEW d \in DocID PROVE ~(b.meta[d] > 0)
    <3>1. b.meta[d] = 0
      BY <2>1
    <3>2. ~(0 > 0)
      OBVIOUS
    <3>. QED BY <3>1, <3>2, Zenon
  <2>. QED BY <2>1, <2>2, Zenon DEF MetaOK
<1>10. InvertedExact(b.inv, b.ids.fwd, b.docs)
  BY <1>1, NothingToExtract DEF InvertedExact, EmptyInverted
<1>11. NumericExact(b.num, b.ids.fwd, b.docs)
  BY <1>1, NothingToExtract DEF NumericExact, EmptyNumeric
<1>12. TemporalExact(b.temp, b.docs)
  BY <1>1, NothingToExtract DEF TemporalExact, EmptyTemporal, TemporalEntry
<1>13. GroupsExact(b.gby, b.ids.fwd, b.docs) /\ LastSeenCovers(b.gby, b.docs)
  <2>1. \A k \in GroupKey : GroupMembers(k, b.docs) = {}
    BY <1>1, NothingToExtract DEF GroupMembers
  <2>2. \A k \in GroupKey : b.gby[k] = NoGroup /\ b.gby[k].bits = {} /\ b.gby[k].count = 0
    BY <1>1 DEF EmptyGroups, NoGroup
  <2>. QED BY <2>1, <2>2, FS_EmptySet DEF GroupsExact, LastSeenCovers
<1>14. ClosureOK(b.clo, b.ids.fwd, b.docs)
  <2>1. b.clo.asc = [d \in DocID |-> <<>>] /\ b.clo.desc = [x \in Category |-> {}]
    BY <1>1 DEF EmptyClosure
  <2>2. \A d \in DocID : Chained(b.clo.asc[d]) = {} /\ closureParent(b.docs[d]) = {}
    <3>1. <<>> \in Seq(Category)
      OBVIOUS
    <3>2. Chained(<<>>) = {}
      BY <3>1, ChainedType
    <3>. QED BY <1>1, <2>1, <3>2, NothingToExtract
  <2>3. ASSUME NEW x \in Category
        PROVE  {e \in DocID : x \in Chained(b.clo.asc[e])} = {}
    BY <2>2
  <2>4. Len(<<>>) <= closureMaxDepth
    BY DepthAssumption
  <2>5. ASSUME NEW x \in Category
        PROVE  b.clo.desc[x] =
                 {b.ids.fwd[d] : d \in {e \in DocID : x \in Chained(b.clo.asc[e])}}
    BY <2>1, <2>3
  <2>. QED BY <2>1, <2>2, <2>4, <2>5 DEF ClosureOK
<1>15. StatsExact(b.stat, b.num, b.docs)
  <2>1. ASSUME NEW p \in Path
        PROVE  b.stat[p].vals = statsRecompute(b.num, p).vals
    <3>1. \A v \in Value : {i \in Id : <<v, i>> \in b.num[p]} = {}
      BY <1>1 DEF EmptyNumeric
    <3>2. \A v \in Value : Cardinality({i \in Id : <<v, i>> \in b.num[p]}) = 0
      BY <3>1, FS_EmptySet
    <3>3. b.stat[p].vals = [v \in Value |-> 0]
      BY <1>1 DEF EmptyStats, NoStats
    <3>4. statsRecompute(b.num, p).vals =
             [v \in Value |-> Cardinality({i \in Id : <<v, i>> \in b.num[p]})]
      BY DEF statsRecompute
    <3>. QED BY <3>2, <3>3, <3>4
  <2>. QED BY <2>1, Zenon DEF StatsExact
<1>16. LastSeenPresent(b.abs, b.docs)
  BY <1>1, NothingToExtract DEF LastSeenPresent
<1>. QED
  BY <1>1, <1>3, <1>8, <1>9, <1>10, <1>11, <1>12, <1>13, <1>14, <1>15, <1>16
  DEF BucketsOK, b

\* statsRead's recomputation of one aggregate keeps the buckets consistent.
LEMMA RecomputePreserves ==
    ASSUME NEW b, BucketsOK(b), NEW p \in Path
    PROVE  LET b2 == [b EXCEPT !.stat = [@ EXCEPT ![p] = statsRecompute(b.num, p)]]
           IN  BucketsOK(b2) /\ IdsGrow(b, b2) /\ b2.docs = b.docs
<1> DEFINE s == statsRecompute(b.num, p)
           stat2 == [b.stat EXCEPT ![p] = s]
           b2 == [b EXCEPT !.stat = stat2]
<1>1. b \in BucketsType
  BY DEF BucketsOK
<1>2. s \in [vals : [Value -> Nat], stale : BOOLEAN]
  <2>1. \A v \in Value : {i \in Id : <<v, i>> \in b.num[p]} \in SUBSET Id
    OBVIOUS
  <2>2. \A v \in Value : Cardinality({i \in Id : <<v, i>> \in b.num[p]}) \in Nat
    BY <2>1, IdsFinite
  <2>. QED BY <2>2 DEF statsRecompute
<1>. HIDE DEF s
<1>3. stat2 \in StatsType
  BY <1>1, <1>2, PartTypes DEF StatsType
<1>. HIDE DEF stat2
<1>4. b2 \in BucketsType
  BY <1>1, <1>3 DEF BucketsType
<1>5. /\ b2.docs = b.docs /\ b2.meta = b.meta /\ b2.ids = b.ids
      /\ b2.inv = b.inv /\ b2.num = b.num /\ b2.temp = b.temp
      /\ b2.gby = b.gby /\ b2.clo = b.clo /\ b2.abs = b.abs /\ b2.stat = stat2
  BY <1>1, <1>3 DEF BucketsType
<1>. HIDE DEF b2
<1>6. StatsExact(b2.stat, b2.num, b2.docs)
  <2>1. b.stat \in StatsType /\ StatsExact(b.stat, b.num, b.docs)
    BY <1>1, PartTypes DEF BucketsOK
  <2>2. stat2[p] = s /\ \A q \in Path \ {p} : stat2[q] = b.stat[q]
    BY <2>1 DEF StatsType, stat2
  <2>3. s.vals = statsRecompute(b.num, p).vals
    BY DEF s
  <2>4. ASSUME NEW q \in Path
        PROVE  \/ stat2[q].stale
               \/ \E e \in DocID : MultiValued(b.docs[e], q)
               \/ stat2[q].vals = statsRecompute(b.num, q).vals
    <3>1. CASE q = p
      BY <2>2, <2>3, <3>1
    <3>2. CASE q # p
      BY <2>1, <2>2, <3>2 DEF StatsExact
    <3>. QED BY <3>1, <3>2
  <2>5. StatsExact(stat2, b.num, b.docs)
    BY <2>4, Zenon DEF StatsExact
  <2>. QED BY <1>5, <2>5
<1>7. BucketsOK(b2)
  BY <1>4, <1>5, <1>6 DEF BucketsOK, MetaOK
<1>8. IdsGrow(b, b2)
  BY <1>5 DEF IdsGrow
<1>. QED BY <1>5, <1>7, <1>8 DEF b2, stat2, s
============================================================================
