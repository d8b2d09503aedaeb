---------------------------- MODULE LookupProofs ----------------------------
(***************************************************************************)
(* The index reads of bboltstore/lookup.go answer for one moment of the    *)
(* call, for every corpus, id space and number of commits in between.      *)
(***************************************************************************)
EXTENDS Lookups, IndexProofs, FunctionTheorems

\* A request with the fields of its kind and finite bounds.
WellFormed(r) ==
    /\ r.op \in {"Lookup", "LookupPrefix", "LookupNumericRange", "Descendants", "GroupCount"}
    /\ r.op = "LookupNumericRange" =>
          /\ r.min \in Int /\ r.max \in Int
          /\ r.minExclusive \in BOOLEAN /\ r.maxExclusive \in BOOLEAN

Found(b, r) == {d \in DocID : Asked(b, r, d)}

----------------------------------------------------------------------------
\* The bitmap of each kind of read is the ids of the documents asked for.

\* The indexed numbers are integers.
LEMMA NumbersAreIntegers ==
    \A c \in Stored : \A n \in Numerics(c) :
        n = <<n[1], n[2]>> /\ n[1] \in Path /\ n[2] \in Value /\ n[2] \in Int
  <1>1. ASSUME NEW c \in Content, NEW n \in ExtractNumerics[c]
        PROVE  n = <<n[1], n[2]>> /\ n[2] \in Int
    <2>1. PICK l \in Leaves[c] : l.val.kind = "num" /\ n = <<l.key, l.val.num>>
      BY <1>1 DEF ExtractNumerics
    <2>2. IsScalar(l.val)
      BY LeavesAssumption
    <2> QED
      BY <2>1, <2>2 DEF IsScalar
  <1> QED
    BY <1>1 DEF Stored, Numerics, Path, Value

\* Lookup and LookupPrefix.
LEMMA TermBitmap ==
    ASSUME NEW b, BucketsOK(b), NEW r, r.op \in {"Lookup", "LookupPrefix"}
    PROVE  Bitmap(b, r) = {b.ids.fwd[d] : d \in Found(b, r)}
  <1>1. \A t \in Term : b.inv[t] = {b.ids.fwd[d] : d \in {e \in DocID : t \in Terms(b.docs[e])}}
    BY DEF BucketsOK, InvertedExact
  <1>2. \A d \in DocID : Terms(b.docs[d]) \subseteq Term
    BY PartTypes DEF BucketsOK, Term, Terms, Stored
  <1>3. CASE r.op = "Lookup"
    <2>1. Bitmap(b, r) = IF r.term \in Term THEN b.inv[r.term] ELSE {}
      BY <1>3 DEF Bitmap, invIndexLookup
    <2>2. \A d \in DocID : Asked(b, r, d) <=> r.term \in Terms(b.docs[d])
      BY <1>3 DEF Asked
    <2> QED
      BY <1>1, <1>2, <2>1, <2>2 DEF Found
  <1>4. CASE r.op = "LookupPrefix"
    <2>1. Bitmap(b, r) = UNION {b.inv[t] : t \in {u \in Term : StartsWith(u, r.term)}}
      BY <1>4 DEF Bitmap, invIndexLookupPrefix
    <2>2. \A d \in DocID : Asked(b, r, d) <=> \E t \in Terms(b.docs[d]) : StartsWith(t, r.term)
      BY <1>4 DEF Asked
    <2> QED
      BY <1>1, <1>2, <2>1, <2>2 DEF Found
  <1> QED
    BY <1>3, <1>4

\* LookupNumericRange.
LEMMA RangeBitmap ==
    ASSUME NEW b, BucketsOK(b), NEW r, WellFormed(r), r.op = "LookupNumericRange"
    PROVE  Bitmap(b, r) = {b.ids.fwd[d] : d \in Found(b, r)}
  <1>1. /\ r.min \in Int /\ r.max \in Int
        /\ r.minExclusive \in BOOLEAN /\ r.maxExclusive \in BOOLEAN
    BY DEF WellFormed
  <1>2. b.num \in NumericType /\ b.docs \in [DocID -> Stored] /\ b.ids.fwd \in [DocID -> Id \cup {0}]
        /\ \A d \in DocID : b.docs[d] # Absent => b.ids.fwd[d] # 0
    BY PartTypes DEF BucketsOK, MetaOK
  <1>3. \A d \in DocID : Asked(b, r, d) <=>
            \E n \in Numerics(b.docs[d]) : n[1] = r.path /\ InRange(r, n[2])
    BY DEF Asked
  <1>4. ASSUME NEW v \in Int
        PROVE  InRange(r, v) <=> /\ r.min <= v /\ v <= r.max
                                 /\ ~(r.minExclusive /\ v = r.min)
                                 /\ ~(r.maxExclusive /\ v = r.max)
    BY <1>1 DEF InRange
  <1>5. CASE r.path \notin Path
    <2>1. Bitmap(b, r) = {}
      BY <1>5 DEF Bitmap
    <2> QED
      BY <1>2, <1>3, <1>5, <2>1, NumbersAreIntegers DEF Found
  <1>6. CASE r.path \in Path
    <2> DEFINE hit == {x \in b.num[r.path] : /\ r.min <= x[1] /\ x[1] <= r.max
                                             /\ ~(r.minExclusive /\ x[1] = r.min)
                                             /\ ~(r.maxExclusive /\ x[1] = r.max)}
    <2>1. Bitmap(b, r) = {x[2] : x \in hit}
      BY <1>6 DEF Bitmap, numIndexRange
    <2>2. b.num[r.path] \subseteq Value \X Id
      BY <1>2, <1>6 DEF NumericType
    <2>3. \A v \in Value, i \in Id : <<v, i>> \in b.num[r.path] <=>
              \E d \in DocID : <<r.path, v>> \in Numerics(b.docs[d]) /\ b.ids.fwd[d] = i
      BY <1>6 DEF BucketsOK, NumericExact
    <2>4. ASSUME NEW x \in hit PROVE \E d \in Found(b, r) : b.ids.fwd[d] = x[2]
      <3>1. x = <<x[1], x[2]>> /\ x[1] \in Value /\ x[2] \in Id
        BY <2>2
      <3>2. PICK d \in DocID : <<r.path, x[1]>> \in Numerics(b.docs[d]) /\ b.ids.fwd[d] = x[2]
        BY <2>3, <3>1
      <3>3. x[1] \in Int
        BY <1>2, <3>2, NumbersAreIntegers
      <3>4. InRange(r, x[1])
        BY <1>4, <3>3
      <3> QED
        BY <1>3, <3>2, <3>4 DEF Found
    <2>5. ASSUME NEW d \in Found(b, r) PROVE \E x \in hit : b.ids.fwd[d] = x[2]
      <3>1. PICK n \in Numerics(b.docs[d]) : n[1] = r.path /\ InRange(r, n[2])
        BY <1>3 DEF Found
      <3>2. n = <<r.path, n[2]>> /\ n[2] \in Value /\ n[2] \in Int
        BY <1>2, <3>1, NumbersAreIntegers DEF Found
      <3>3. b.ids.fwd[d] \in Id
        BY <1>2, <3>1, NothingToExtract DEF Found
      <3>4. <<n[2], b.ids.fwd[d]>> \in b.num[r.path]
        BY <2>3, <3>1, <3>2, <3>3 DEF Found
      <3>5. <<n[2], b.ids.fwd[d]>> \in hit
        BY <1>4, <3>1, <3>2, <3>4
      <3> QED
        BY <3>5
    <2> HIDE DEF hit
    <2> QED
      BY <2>1, <2>4, <2>5
  <1> QED
    BY <1>5, <1>6

\* Descendants.
LEMMA DescendantsBitmap ==
    ASSUME NEW b, BucketsOK(b), NEW r, r.op = "Descendants"
    PROVE  Bitmap(b, r) = {b.ids.fwd[d] : d \in Found(b, r)}
  <1>1. Bitmap(b, r) = IF r.root \in Category THEN b.clo.desc[r.root] ELSE {}
    BY DEF Bitmap, closureReadDescendants
  <1>2. \A d \in DocID : Asked(b, r, d) <=> r.root \in Chained(b.clo.asc[d])
    BY DEF Asked
  <1>3. \A d \in DocID : Chained(b.clo.asc[d]) \subseteq Category
    BY PartTypes, ChainedType DEF BucketsOK, ClosureType
  <1>4. \A x \in Category :
            b.clo.desc[x] = {b.ids.fwd[d] : d \in {e \in DocID : x \in Chained(b.clo.asc[e])}}
    BY DEF BucketsOK, ClosureOK
  <1> QED
    BY <1>1, <1>2, <1>3, <1>4 DEF Found

\* GroupCount, with its counter.
LEMMA GroupBitmap ==
    ASSUME NEW b, BucketsOK(b), NEW r, r.op = "GroupCount"
    PROVE  /\ Bitmap(b, r) = {b.ids.fwd[d] : d \in Found(b, r)}
           /\ groupByRead(b.gby, r.key).count = Cardinality(Bitmap(b, r))
  <1>1. Bitmap(b, r) = groupByRead(b.gby, r.key).bits
    BY DEF Bitmap
  <1>2. \A d \in DocID : Asked(b, r, d) <=> r.key \in Groups(b.docs[d])
    BY DEF Asked
  <1>3. \A c \in Stored : Groups(c) \subseteq GroupKey
    BY DEF Stored, Groups, GroupsOf, GroupKey, GroupByFields
  <1>4. CASE r.key \notin GroupKey
    <2>1. groupByRead(b.gby, r.key).bits = {} /\ groupByRead(b.gby, r.key).count = 0
      BY <1>4 DEF groupByRead, NoGroup
    <2>2. Found(b, r) = {}
      BY <1>2, <1>3, <1>4, PartTypes DEF BucketsOK, Found
    <2> QED
      BY <1>1, <2>1, <2>2, FS_EmptySet
  <1>5. CASE r.key \in GroupKey
    BY <1>1, <1>2, <1>5 DEF groupByRead, BucketsOK, GroupsExact, GroupMembers, Found
  <1> QED
    BY <1>4, <1>5

\* The ids in the bitmap resolve to exactly the documents asked for, and a
\* document has one id.
LEMMA BitmapResolves ==
    ASSUME NEW b, BucketsOK(b), NEW r, WellFormed(r)
    PROVE  /\ Bitmap(b, r) \subseteq Id
           /\ \A i \in Bitmap(b, r) : b.ids.rev[i] \in DocID
           /\ {b.ids.rev[i] : i \in Bitmap(b, r)} = Found(b, r)
           /\ \A i, j \in Bitmap(b, r) : b.ids.rev[i] = b.ids.rev[j] => i = j
           /\ r.op = "GroupCount" => groupByRead(b.gby, r.key).count = Cardinality(Bitmap(b, r))
  <1>1. Bitmap(b, r) = {b.ids.fwd[d] : d \in Found(b, r)}
    BY TermBitmap, RangeBitmap, DescendantsBitmap, GroupBitmap DEF WellFormed
  <1>2. /\ b.docs \in [DocID -> Stored] /\ b.ids.fwd \in [DocID -> Id \cup {0}]
        /\ \A d \in DocID : b.docs[d] # Absent => b.ids.fwd[d] # 0
        /\ \A d \in DocID : b.ids.fwd[d] # 0 => b.ids.rev[b.ids.fwd[d]] = d
    BY PartTypes DEF BucketsOK, MetaOK, IdMapOK
  <1>3. ASSUME NEW d \in Found(b, r) PROVE b.docs[d] # Absent
    <2>1. d \in DocID /\ Asked(b, r, d)
      BY DEF Found
    <2>2. Terms(Absent) = {} /\ Numerics(Absent) = {} /\ closureParent(Absent) = {} /\ Groups(Absent) = {}
      BY ContentAssumption DEF Terms, Numerics, closureParent, Groups
    <2>3. CASE r.op = "Descendants"
      <3>1. b.clo.asc[d] # <<>>
        BY <2>1, <2>3 DEF Asked, Chained
      <3> QED
        BY <2>1, <2>2, <3>1 DEF BucketsOK, ClosureOK
    <2>4. CASE r.op # "Descendants"
      BY <2>1, <2>2, <2>4 DEF Asked, WellFormed
    <2> QED
      BY <2>3, <2>4
  <1>4. ASSUME NEW d \in Found(b, r)
        PROVE  b.ids.fwd[d] \in Id /\ b.ids.rev[b.ids.fwd[d]] = d /\ d \in DocID
    BY <1>2, <1>3 DEF Found
  <1>5. r.op = "GroupCount" => groupByRead(b.gby, r.key).count = Cardinality(Bitmap(b, r))
    BY GroupBitmap
  <1>6. ASSUME NEW i \in Bitmap(b, r)
        PROVE  i \in Id /\ b.ids.rev[i] \in Found(b, r) /\ b.ids.fwd[b.ids.rev[i]] = i
    BY <1>1, <1>4
  <1>7. {b.ids.rev[i] : i \in Bitmap(b, r)} = Found(b, r)
    BY <1>1, <1>4, <1>6
  <1> QED
    BY <1>5, <1>6, <1>7 DEF Found

\* Resolving different ids gives different documents: the counts agree.
LEMMA ResolvedCount ==
    ASSUME NEW S \in SUBSET Id, NEW rev, \A i, j \in S : rev[i] = rev[j] => i = j
    PROVE  Cardinality({rev[i] : i \in S}) = Cardinality(S)
  <1> DEFINE T == {rev[i] : i \in S}
             f == [i \in S |-> rev[i]]
  <1>1. f \in Bijection(S, T)
    <2>1. f \in [S -> T] /\ (\A i, j \in S : f[i] = f[j] => i = j)
      OBVIOUS
    <2>2. \A t \in T : \E i \in S : f[i] = t
      OBVIOUS
    <2> HIDE DEF f, T
    <2> QED
      BY <2>1, <2>2, Fun_IsBij
  <1>2. ExistsBijection(S, T)
    BY <1>1 DEF ExistsBijection
  <1> QED
    BY <1>2, IdsFinite, FS_Bijection

----------------------------------------------------------------------------
\* Between the two transactions the bitmap stays resolvable, to what matched
\* when it was read: ids are never reassigned.
Resolvable ==
    /\ bits \subseteq Id
    /\ \A i \in bits : db.ids.rev[i] \in DocID
    /\ {db.ids.rev[i] : i \in bits} = matched
    /\ req.op = "GroupCount" => count = Cardinality(matched)

LInv ==
    /\ BucketsOK(db)
    /\ stage \in {"idle", "view1", "view2", "done"}
    /\ stage # "idle" => WellFormed(req)
    /\ stage = "view1" => answer = {}
    /\ stage = "view2" => Resolvable
    /\ AnswerExact

\* The invariant holds at first.
LEMMA InitLInv == LookupInit => LInv
  BY EmptyConsistent DEF LookupInit, LInv, AnswerExact

\* A commit leaves the ids of the bitmap as they are.
LEMMA WriteLInv ==
    ASSUME LInv, Write
    PROVE  LInv' /\ UNCHANGED reader
  <1>1. BucketsOK(db') /\ IdsGrow(db, db') /\ UNCHANGED reader
    <2>1. ASSUME NEW d \in DocID, CommitDelete(d) PROVE BucketsOK(db') /\ IdsGrow(db, db')
      BY <2>1, DeletePreserves DEF LInv, CommitDelete
    <2>2. ASSUME NEW d \in DocID, NEW c \in Content, CommitPut(d, c)
          PROVE  BucketsOK(db') /\ IdsGrow(db, db')
      BY <2>2, PutPreserves DEF LInv, CommitPut
    <2> QED
      BY <2>1, <2>2 DEF Write, CommitPut, CommitDelete
  <1>2. stage = "view2" => Resolvable'
    <2> SUFFICES ASSUME stage = "view2" PROVE Resolvable'
      OBVIOUS
    <2>1. Resolvable
      BY DEF LInv
    <2>2. \A i \in bits : db'.ids.rev[i] = db.ids.rev[i]
      BY <1>1, <2>1, ContentAssumption DEF Resolvable, IdsGrow
    <2> QED
      BY <1>1, <2>1, <2>2 DEF Resolvable, reader
  <1> QED
    BY <1>1, <1>2 DEF LInv, AnswerExact, reader

\* A read that begins has no answer.
LEMMA AskLInv ==
    ASSUME LInv, NEW r, WellFormed(r), Ask(r)
    PROVE  LInv'
  BY DEF Ask, LInv, AnswerExact

\* The first transaction reads a bitmap that resolves to what matches.
LEMMA View1LInv ==
    ASSUME LInv, View1
    PROVE  LInv'
  <1>1. /\ bits' = Bitmap(db, req) /\ matched' = Found(db, req) /\ db' = db /\ req' = req
        /\ count' = IF req.op = "GroupCount" THEN groupByRead(db.gby, req.key).count ELSE 0
        /\ stage' = IF bits' = {} THEN "done" ELSE "view2"
        /\ answer' = {}
    BY DEF View1, Found, LInv
  <1>2. WellFormed(req) /\ BucketsOK(db)
    BY DEF LInv, View1
  <1>3. Resolvable'
    <2>1. /\ bits' \subseteq Id
          /\ \A i \in bits' : db.ids.rev[i] \in DocID
          /\ {db.ids.rev[i] : i \in bits'} = matched'
          /\ \A i, j \in bits' : db.ids.rev[i] = db.ids.rev[j] => i = j
          /\ req.op = "GroupCount" => count' = Cardinality(bits')
      BY <1>1, <1>2, BitmapResolves
    <2>2. Cardinality(matched') = Cardinality(bits')
      BY <2>1, ResolvedCount
    <2> QED
      BY <1>1, <2>1, <2>2 DEF Resolvable
  <1>4. AnswerExact'
    <2>1. CASE bits' = {}
      BY <1>1, <1>3, <2>1 DEF AnswerExact, Resolvable
    <2>2. CASE bits' # {}
      BY <1>1, <2>2 DEF AnswerExact
    <2> QED
      BY <2>1, <2>2
  <1> QED
    BY <1>1, <1>2, <1>3, <1>4 DEF LInv

\* The second transaction resolves every id.
LEMMA View2LInv ==
    ASSUME LInv, View2
    PROVE  LInv'
  <1>1. stage = "view2" /\ Resolvable
    BY DEF View2, LInv
  <1>2. ~\E i \in bits : idmapReverse(db.ids, i) = Absent
    BY <1>1, ContentAssumption DEF Resolvable, idmapReverse
  <1>3. /\ answer' = {db.ids.rev[i] : i \in bits} /\ stage' = "done"
        /\ UNCHANGED <<db, req, count, matched>>
    BY <1>2 DEF View2, idmapReverse
  <1> QED
    BY <1>1, <1>3 DEF LInv, AnswerExact, Resolvable

\* What changes nothing keeps the invariant.
LEMMA SameLInv ==
    ASSUME LInv, UNCHANGED lookupVars
    PROVE  LInv'
  BY DEF lookupVars, LInv, AnswerExact, Resolvable

\* The inductive invariant of the lookups.
LEMMA LookupInvariance ==
    ASSUME \A r \in Request : WellFormed(r)
    PROVE  LookupSpec => []LInv
  <1>1. LInv /\ [LookupNext]_lookupVars => LInv'
    BY WriteLInv, AskLInv, View1LInv, View2LInv, SameLInv DEF LookupNext
  <1> QED
    BY <1>1, InitLInv, PTL DEF LookupSpec

\* materializeDocIDSet: whatever is committed between the transaction that
\* reads the bitmap and the one that resolves it, no id is an orphan.
THEOREM LookupsFindNoOrphan ==
    ASSUME \A r \in Request : WellFormed(r)
    PROVE  LookupSpec => []NoOrphan
  <1>1. LInv => NoOrphan
    BY DEF LInv, NoOrphan
  <1> QED
    BY <1>1, LookupInvariance, PTL

\* The index reads answer with exactly the documents that matched at one
\* moment of the call, and GroupCount with their number.
THEOREM LookupsAreExact ==
    ASSUME \A r \in Request : WellFormed(r)
    PROVE  LookupSpec => []AnswerExact
  <1>1. LInv => AnswerExact
    BY DEF LInv
  <1> QED
    BY <1>1, LookupInvariance, PTL
=============================================================================
