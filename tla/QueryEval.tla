----------------------------- MODULE QueryEval -----------------------------
(***************************************************************************)
(* The composer of bboltstore/query.go on one document: which clauses a    *)
(* document matches and what they bind, the roll-ups of                    *)
(* bboltstore/aggregate.go, and the decoding of grpcserver/query.go; next  *)
(* to each a definition that does not follow the evaluation order.         *)
(*                                                                         *)
(* A clause is a record with its kind and the fields of that kind; a term  *)
(* is [var, lit] with "" and Nil for "not given".  The clauses of a query  *)
(* are a table of clause lists: list 1 is Where, an Or has the numbers of  *)
(* its branches and a Not that of its body.  Attributes are scalars: an    *)
(* attribute that holds an array or an object is left out.                 *)
(***************************************************************************)
EXTENDS Documents, FiniteSets, FiniteSetsExt

CONSTANTS
    Lower,      \* what strings.ToLower does to the tokens it changes
    IdNumber    \* the document ids that strconv.ParseInt accepts, as numbers

ASSUME IdNumberAssumption == \A d \in DOMAIN IdNumber : IdNumber[d] \in Int

\* Keys and texts are strings.
ASSUME TextAssumption ==
    \A c \in Content : \A l \in Leaves[c] :
        /\ l.key \in Seq({l.key[i] : i \in DOMAIN l.key})
        /\ l.val.text \in Seq({l.val.text[i] : i \in DOMAIN l.val.text})

\* The nil interface value, and the null of google.protobuf.Value.
Nil == [kind |-> "nil", text |-> <<>>, num |-> NotATime]
Null == [kind |-> "null", text |-> <<>>, num |-> NotATime]

IsLiteral(t) == t.lit # Nil
IsVar(t) == t.var # ""

Attrs(c) == IF c \in Content THEN {[key |-> l.key, val |-> l.val] : l \in {m \in Leaves[c] : m.top}}
            ELSE {}

parseQueryRecordID(d) ==
    IF d \in DOMAIN IdNumber
    THEN [kind |-> "num", text |-> d, num |-> IdNumber[d]]
    ELSE [kind |-> "str", text |-> d, num |-> NotATime]

----------------------------------------------------------------------------
(* Decoding: null is no literal, and what the wire cannot carry is refused. *)

decodeTerm(t) == [var |-> t.var, lit |-> IF t.lit = Null THEN Nil ELSE t.lit]

Decodable(q) ==
    \A l \in 1 .. Len(q) : \A i \in 1 .. Len(q[l]) :
        q[l][i].kind \in {"pattern", "predicate", "or", "not", "fulltext"}

decodeQueryClause(c) ==
    CASE c.kind = "pattern" -> [c EXCEPT !.value = decodeTerm(@)]
      [] c.kind = "predicate" -> [c EXCEPT !.left = decodeTerm(@), !.right = decodeTerm(@)]
      [] OTHER -> c

decodeQueryClauses(q) ==
    [l \in 1 .. Len(q) |-> [i \in 1 .. Len(q[l]) |-> decodeQueryClause(q[l][i])]]

\* A clause has the fields of its kind, and a message is a tree: a list comes
\* after the one that refers to it.
IsQuery(q) ==
    /\ Len(q) \in Nat \ {0}
    /\ \A l \in 1 .. Len(q) :
          /\ Len(q[l]) \in Nat
          /\ \A i \in 1 .. Len(q[l]) :
                LET c == q[l][i]
                    later == l + 1 .. Len(q)
                IN  /\ c.kind = "pattern" => DOMAIN c = {"kind", "attr", "value"}
                    /\ c.kind = "predicate" => DOMAIN c = {"kind", "op", "left", "right"}
                    /\ c.kind = "or" => c.branches \in Seq(later)
                    /\ c.kind = "not" => c.body \in later

decodeAggregatesFails(aggs) ==
    \E i \in 1 .. Len(aggs) : aggs[i].fn \notin {"count", "sum", "total", "avg", "min", "max"}

----------------------------------------------------------------------------
(* Values.                                                                 *)

equalQueryValues(a, b) ==
    IF a.kind = "num" /\ b.kind = "num" THEN a.num = b.num
    ELSE a.kind = b.kind /\ a.text = b.text

HasInfix(s, t) == \E i \in 0 .. Len(s) - Len(t) : SubSeq(s, i + 1, i + Len(t)) = t
HasPrefix(s, t) == Len(t) <= Len(s) /\ SubSeq(s, 1, Len(t)) = t
HasSuffix(s, t) == Len(t) <= Len(s) /\ SubSeq(s, Len(s) - Len(t) + 1, Len(s)) = t
ToLower(s) == [i \in 1 .. Len(s) |-> IF s[i] \in DOMAIN Lower THEN Lower[s[i]] ELSE s[i]]

Compares(op, x, y) ==
    CASE op = "<" -> x < y
      [] op = "<=" -> x <= y
      [] op = ">" -> x > y
      [] op = ">=" -> x >= y

HasAffix(op, s, t) ==
    CASE op = "starts_with" -> HasPrefix(s, t)
      [] op = "ends_with" -> HasSuffix(s, t)
      [] op = "contains" -> HasInfix(s, t)

evalQueryPredicate(op, l, r) ==
    CASE op = "==" -> equalQueryValues(l, r)
      [] op = "!=" -> ~equalQueryValues(l, r)
      [] op \in {"<", "<=", ">", ">="} ->
            l.kind = "num" /\ r.kind = "num" /\ Compares(op, l.num, r.num)
      [] op \in {"starts_with", "ends_with", "contains"} ->
            l.kind = "str" /\ r.kind = "str" /\ HasAffix(op, l.text, r.text)
      [] OTHER -> FALSE

----------------------------------------------------------------------------
(* Matching.  Bindings are a function of variable names; the result is the *)
(* set of the bindings after the match, empty when there is none.  What a  *)
(* clause binds before it fails is never seen: Or and Not work on a copy.  *)

Bound(b, v) == IF v \in DOMAIN b THEN b[v] ELSE Nil
Bind(b, v, x) == [w \in DOMAIN b \cup {v} |-> IF w = v THEN x ELSE b[w]]
If(test, b) == IF test THEN {b} ELSE {}

\* Wrong variant: a bound variable is bound again.
matchQueryPatternRebinds(p, attrs, b) ==
    UNION {IF IsLiteral(p.value) THEN If(equalQueryValues(a.val, p.value.lit), b)
           ELSE IF IsVar(p.value) THEN {Bind(b, p.value.var, a.val)}
           ELSE {b} : a \in {x \in attrs : x.key = p.attr /\ p.attr # <<>>}}

matchQueryPattern(p, attrs, b) ==
    UNION {IF IsLiteral(p.value) THEN If(equalQueryValues(a.val, p.value.lit), b)
           ELSE IF p.value.var \in DOMAIN b
           THEN If(equalQueryValues(b[p.value.var], a.val), b)
           ELSE IF IsVar(p.value) THEN {Bind(b, p.value.var, a.val)}
           ELSE {b} : a \in {x \in attrs : x.key = p.attr /\ p.attr # <<>>}}

resolveQueryTerm(t, b) == IF IsVar(t) THEN Bound(b, t.var) ELSE t.lit

matchQueryPredicate(p, b) ==
    If(evalQueryPredicate(p.op, resolveQueryTerm(p.left, b), resolveQueryTerm(p.right, b)), b)

matchQueryFullText(f, attrs) ==
    /\ f.query # <<>>
    /\ \E a \in attrs :
          /\ f.attr # <<>> => a.key = f.attr
          /\ a.val.kind = "str"
          /\ HasInfix(ToLower(a.val.text), ToLower(f.query))

\* nested gives what the lists that Or and Not refer to do to bindings.
matchQueryOr(o, b, nested) ==
    LET hit == {k \in 1 .. Len(o.branches) : nested[o.branches[k]][b] # {}}
        first == CHOOSE k \in hit : \A j \in hit : k <= j
    IN  IF hit = {} THEN {} ELSE nested[o.branches[first]][b]

matchQueryNot(n, b, nested) == If(nested[n.body][b] = {}, b)

matchOneQuery(c, attrs, b, nested) ==
    CASE c.kind = "pattern" -> matchQueryPattern(c, attrs, b)
      [] c.kind = "predicate" -> matchQueryPredicate(c, b)
      [] c.kind = "or" -> matchQueryOr(c, b, nested)
      [] c.kind = "not" -> matchQueryNot(c, b, nested)
      [] c.kind = "fulltext" -> If(matchQueryFullText(c, attrs), b)
      [] OTHER -> {}

\* Clause by clause, each with what the ones before it bound.
matchAllQuery(clauses, attrs, b, nested) ==
    LET walk[i \in 0 .. Len(clauses)] ==
            IF i = 0 THEN {b}
            ELSE UNION {matchOneQuery(clauses[i], attrs, x, nested) : x \in walk[i - 1]}
    IN  walk

\* The variables that the patterns among the first n clauses bind.
PatternVars(clauses, n) ==
    {clauses[i].value.var :
        i \in {j \in 1 .. n : clauses[j].kind = "pattern" /\ ~IsLiteral(clauses[j].value)}} \ {""}
ListVars(q, l) == PatternVars(q[l], Len(q[l]))
Variables(q) == {"?e"} \cup UNION {ListVars(q, l) : l \in 1 .. Len(q)}
Binding(q, values) == UNION {[V -> values] : V \in SUBSET Variables(q)}

\* What every list of a query does to bindings, the nested ones first.
Matcher(q, attrs, values) ==
    LET all[l \in 1 .. Len(q)] ==
            [b \in Binding(q, values) |-> matchAllQuery(q[l], attrs, b, all)[Len(q[l])]]
    IN  all

Values(attrs, id) == {a.val : a \in attrs} \cup {id}
Start(id) == [v \in {"?e"} |-> id]

----------------------------------------------------------------------------
(* What it is to match: some valuation of the variables satisfies all.  A  *)
(* Not asks for values of the variables it introduces.                     *)

Holds(c, q, attrs, values, val, sat) ==
    CASE c.kind = "pattern" ->
            \E a \in attrs :
                /\ a.key = c.attr /\ c.attr # <<>>
                /\ IF IsLiteral(c.value) THEN equalQueryValues(a.val, c.value.lit)
                   ELSE IsVar(c.value) => equalQueryValues(a.val, Bound(val, c.value.var))
      [] c.kind = "predicate" ->
            evalQueryPredicate(c.op, resolveQueryTerm(c.left, val), resolveQueryTerm(c.right, val))
      [] c.kind = "or" -> \E k \in 1 .. Len(c.branches) : sat[c.branches[k]][val]
      [] c.kind = "not" ->
            LET own == ListVars(q, c.body) \ DOMAIN val IN
            ~\E x \in [own -> values] :
                sat[c.body][[v \in own \cup DOMAIN val |-> IF v \in own THEN x[v] ELSE val[v]]]
      [] c.kind = "fulltext" -> matchQueryFullText(c, attrs)
      [] OTHER -> FALSE

Satisfies(q, attrs, values) ==
    LET sat[l \in 1 .. Len(q)] ==
            [val \in Binding(q, values) |->
                \A i \in 1 .. Len(q[l]) : Holds(q[l][i], q, attrs, values, val, sat)]
    IN  sat

Matches(q, attrs, id) ==
    LET values == Values(attrs, id)
    IN  \E val \in [{"?e"} \cup ListVars(q, 1) -> values] :
            val["?e"] = id /\ Satisfies(q, attrs, values)[1][val]

\* scope gives the variables that are bound where a list begins.  A predicate
\* and the branches of an Or use bound variables only, and what a list
\* introduces is not known in an earlier one.
Seen(q, scope, l, i) == scope[l] \cup PatternVars(q[l], i)
Known(q, scope, l) == Seen(q, scope, l, Len(q[l]))
Introduced(q, scope, l) == ListVars(q, l) \ scope[l]

Scoped(q, scope) ==
    /\ scope[1] = {"?e"}
    /\ \A l \in 1 .. Len(q) : \A i \in 1 .. Len(q[l]) :
          LET c == q[l][i]
              seen == Seen(q, scope, l, i - 1)
          IN  /\ c.kind = "predicate" => {c.left.var, c.right.var} \ {""} \subseteq seen
              /\ c.kind = "or" => \A k \in 1 .. Len(c.branches) :
                    scope[c.branches[k]] = seen /\ ListVars(q, c.branches[k]) \subseteq seen
              /\ c.kind = "not" => scope[c.body] = seen
    /\ \A l \in 1 .. Len(q) : \A m \in 1 .. l - 1 :
          Introduced(q, scope, l) \cap Known(q, scope, m) = {}

Ordered(q) == \E scope \in [1 .. Len(q) -> SUBSET Variables(q)] : Scoped(q, scope)

----------------------------------------------------------------------------
(* Roll-ups.  Numbers are fractions; NoValue is the nil of an empty min.   *)

Fraction(p, q) == [num |-> p, den |-> q]
NoValue == Fraction(0, 0)

\* The members with a number (aggQueryFloat) under the variable.  The members
\* of a group are the positions P in the list of matches.
Numeric(t, ms, P) == {i \in P : t.var # "" /\ Bound(ms[i], t.var).kind = "num"}

\* Sum, minimum and maximum after the first i matches.
aggQuerySumOver(t, ms, P) ==
    LET sum[i \in 0 .. Len(ms)] ==
            IF i = 0 THEN 0
            ELSE IF i \in Numeric(t, ms, P) THEN sum[i - 1] + ms[i][t.var].num ELSE sum[i - 1]
    IN  sum

\* Wrong variant: the first value is compared with an initial zero.
aggQueryMinOverZero(t, ms, P) ==
    LET best[i \in 0 .. Len(ms)] ==
            IF i = 0 THEN IF Numeric(t, ms, P) = {} THEN NoValue ELSE Fraction(0, 1)
            ELSE LET b == best[i - 1] IN
                 IF i \in Numeric(t, ms, P) /\ ms[i][t.var].num < b.num
                 THEN Fraction(ms[i][t.var].num, 1) ELSE b
    IN  best

aggQueryMinOver(t, ms, P) ==
    LET best[i \in 0 .. Len(ms)] ==
            IF i = 0 THEN NoValue
            ELSE LET b == best[i - 1] IN
                 IF i \in Numeric(t, ms, P) /\ (b = NoValue \/ ms[i][t.var].num < b.num)
                 THEN Fraction(ms[i][t.var].num, 1) ELSE b
    IN  best

aggQueryMaxOver(t, ms, P) ==
    LET best[i \in 0 .. Len(ms)] ==
            IF i = 0 THEN NoValue
            ELSE LET b == best[i - 1] IN
                 IF i \in Numeric(t, ms, P) /\ (b = NoValue \/ ms[i][t.var].num > b.num)
                 THEN Fraction(ms[i][t.var].num, 1) ELSE b
    IN  best

computeQueryAggregate(a, ms, P) ==
    LET n == Len(ms)
        numbers == Cardinality(Numeric(a.over, ms, P))
    IN  CASE a.fn = "count" -> Fraction(Cardinality(P), 1)
          [] a.fn \in {"sum", "total"} -> Fraction(aggQuerySumOver(a.over, ms, P)[n], 1)
          [] a.fn = "avg" -> IF numbers = 0 THEN Fraction(0, 1)
                             ELSE Fraction(aggQuerySumOver(a.over, ms, P)[n], numbers)
          [] a.fn = "min" -> aggQueryMinOver(a.over, ms, P)[n]
          [] a.fn = "max" -> aggQueryMaxOver(a.over, ms, P)[n]

\* The columns of a group, and the text the groups are told apart by.
GroupColumns(b, groupBy) == [i \in 1 .. Len(groupBy) |-> Bound(b, groupBy[i])]

aggGroupKeyString(key) ==
    LET text[i \in 0 .. Len(key)] ==
            IF i = 0 THEN <<>>
            ELSE text[i - 1] \o (IF i = 1 THEN <<>> ELSE <<"|">>) \o
                 (IF key[i] = Nil THEN <<"<nil>">> ELSE key[i].text)
    IN  text[Len(key)]

\* The result rows; the code lists them in the order of the key texts.  The
\* columns of a row are those of the first match with the text.
runQueryAggregates(ms, groupBy, aggs) ==
    LET all == 1 .. Len(ms)
        row(key, P) ==
            [key |-> key,
             vals |-> [n \in 1 .. Len(aggs) |-> computeQueryAggregate(aggs[n], ms, P)]]
        text(i) == aggGroupKeyString(GroupColumns(ms[i], groupBy))
        group(k) == {i \in all : text(i) = k}
        first(k) == CHOOSE i \in group(k) : \A j \in group(k) : i <= j
    IN  IF groupBy = <<>> THEN {row(<<>>, all)}
        ELSE {row(GroupColumns(ms[first(k)], groupBy), group(k)) : k \in {text(i) : i \in all}}

\* What a roll-up is: over the positions of the members in a group.
NumberOf(t, ms, i) == ms[i][t.var].num
SumOf(t, ms, N) == MapThenSumSet(LAMBDA i : NumberOf(t, ms, i), N)
NumbersOf(t, ms, N) == {NumberOf(t, ms, i) : i \in N}

RollUp(a, ms, P) ==
    LET N == Numeric(a.over, ms, P) IN
    CASE a.fn = "count" -> Fraction(Cardinality(P), 1)
      [] a.fn \in {"sum", "total"} -> Fraction(SumOf(a.over, ms, N), 1)
      [] a.fn = "avg" -> IF N = {} THEN Fraction(0, 1)
                         ELSE Fraction(SumOf(a.over, ms, N), Cardinality(N))
      [] a.fn = "min" -> IF N = {} THEN NoValue ELSE Fraction(Min(NumbersOf(a.over, ms, N)), 1)
      [] a.fn = "max" -> IF N = {} THEN NoValue ELSE Fraction(Max(NumbersOf(a.over, ms, N)), 1)

\* One row per combination of values that occurs (without columns: one row).
Grouping(ms, groupBy, aggs) ==
    LET all == 1 .. Len(ms)
        keys == IF groupBy = <<>> THEN {<<>>} ELSE {GroupColumns(ms[i], groupBy) : i \in all}
    IN  {[key |-> k,
          vals |-> [n \in 1 .. Len(aggs) |->
                      RollUp(aggs[n], ms, {i \in all : GroupColumns(ms[i], groupBy) = k})]] :
            k \in keys}

\* The texts of two different groups differ.
Unambiguous(ms, groupBy) ==
    \A i, j \in 1 .. Len(ms) :
        LET k == GroupColumns(ms[i], groupBy)
            l == GroupColumns(ms[j], groupBy)
        IN  aggGroupKeyString(k) = aggGroupKeyString(l) => k = l
=============================================================================
