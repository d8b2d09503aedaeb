------------------------------ MODULE MCReads ------------------------------
(* A small shop for Reads: records with a state, a number and a time.      *)
EXTENDS Reads

doc1 == <<"1">>
doc2 == <<"2">>
docA == <<"a">>
MCDocs == {doc1, doc2, docA}
MCDocOrder == <<doc1, doc2, docA>>
MCIdNumber == [d \in {doc1, doc2} |-> IF d = doc1 THEN 1 ELSE 2]

Str(t) == [kind |-> "str", text |-> t, num |-> NotATime]
Num(n, t) == [kind |-> "num", text |-> <<t>>, num |-> n]
Field(k, v) == [key |-> k, val |-> v, top |-> TRUE]
Happens(item, type, at, t) ==
    {Field(ItemKey, Str(<<item>>)), Field(TypeKey, Str(<<type>>)), Field(AtKey, Num(at, t))}
State(t) == Field(<<"state">>, Str(<<t>>))

\* Four events of one item, two at the same time; one record of another item, filed under
\* another record; the numbers of an open record may equal its own id.
MCLeaves ==
    [order |-> {State("open"), Field(<<"n">>, Num(1, "1"))} \cup Happens("x", "order", 1, "t1"),
     fix   |-> {State("open"), Field(<<"n">>, Num(2, "2")),
                Field(<<"note">>, Str(<<"Big", "fix">>))} \cup Happens("x", "fix", 3, "t3"),
     again |-> {State("done"), Field(<<"n">>, Num(2, "2"))} \cup Happens("x", "order", 3, "t3"),
     later |-> {State("done")} \cup Happens("x", "order", 2, "t2"),
     other |-> {State("open"), Field(ParentKey, Str(doc1))} \cup Happens("y", "fix", 2, "t2")]
MCContent == DOMAIN MCLeaves
MCLower == [Big |-> "big", FIX |-> "fix"]

----------------------------------------------------------------------------
Shop == <<"shop">>
MCRequest ==
    {[entity |-> Shop, op |-> "Lookup", term |-> <<"open">>],
     [entity |-> Shop, op |-> "LookupPrefix", term |-> <<"state">>],
     [entity |-> Shop, op |-> "LookupNumericRange", path |-> <<"n">>, min |-> 1, max |-> 2,
      minExclusive |-> TRUE, maxExclusive |-> FALSE],
     [entity |-> Shop, op |-> "LookupNumericRange", path |-> <<"n">>, min |-> 1, max |-> 2,
      minExclusive |-> FALSE, maxExclusive |-> TRUE],
     [entity |-> Shop, op |-> "LookupNumericRange", path |-> <<"n">>, min |-> 1, max |-> NotATime,
      minExclusive |-> FALSE, maxExclusive |-> FALSE],
     [entity |-> <<"shop", ":", "1">>, op |-> "Lookup", term |-> <<"open">>],
     [entity |-> Shop, op |-> "Descendants", root |-> doc1],
     [entity |-> Shop, op |-> "GroupCount", key |-> <<"x", "|", "type", "|", "order">>]}

Lit(v) == [var |-> "", lit |-> v]
Var(v) == [var |-> v, lit |-> Nil]
Pattern(k, t) == [kind |-> "pattern", attr |-> <<k>>, value |-> t]
Predicate(o, l, r) == [kind |-> "predicate", op |-> o, left |-> l, right |-> r]
Or(a, b) == [kind |-> "or", branches |-> <<a, b>>]
Not(l) == [kind |-> "not", body |-> l]
FullText(t) == [kind |-> "fulltext", attr |-> <<>>, query |-> <<t>>]

Open == Pattern("state", Lit(Str(<<"open">>)))
Two == Lit(Num(2, "2"))
Query(where, aggs, groupBy) ==
    [call |-> "Query", entity |-> Shop, where |-> where, aggs |-> aggs, groupBy |-> groupBy]
Agg(f) == [fn |-> f, over |-> Var("?n")]

MCQueries ==
    {Query(<<<<Open, Pattern("n", Var("?n")), Predicate(">=", Var("?n"), Two)>>>>, <<>>, <<>>),
     Query(<<<<Open, Pattern("n", Two)>>>>, <<>>, <<>>),
     Query(<<<<Open, Pattern("n", Var("?e"))>>>>, <<>>, <<>>),
     Query(<<<<Open, Not(2)>>, <<Pattern("n", Var("?n")), Or(3, 4)>>,
             <<Predicate(">=", Var("?n"), Two)>>, <<Pattern("type", Lit(Str(<<"order">>)))>>>>, <<>>, <<>>),
     Query(<<<<Open, Or(2, 3)>>, <<Pattern("n", Lit(Num(1, "1")))>>, <<FullText("FIX")>>>>, <<>>, <<>>),
     Query(<<<<Pattern("item_id", Lit(Str(<<"x">>))), Pattern("n", Lit(Null)), Pattern("n", Var("?n")),
               Pattern("type", Var("?t"))>>>>,
           <<Agg("count"), Agg("sum"), Agg("avg"), Agg("min"), Agg("max")>>, <<"?t">>),
     Query(<<<<Open, Pattern("n", Var("?n"))>>>>, <<Agg("count"), Agg("min")>>, <<>>),
     Query(<<<<Pattern("n", Var("?n"))>>>>, <<>>, <<>>),
     Query(<<<<Open, [kind |-> "later"]>>>>, <<>>, <<>>),
     Query(<<<<Open>>>>, <<Agg("median")>>, <<>>)}

Sequence(items_, steps, window) ==
    [call |-> "SequenceJoin", entity |-> Shop, items |-> items_, steps |-> steps, window |-> window]
Cluster(types, window, minSize) ==
    [call |-> "ClusterQuery", entity |-> Shop, item |-> <<"x">>, types |-> types,
     window |-> window, minSize |-> minSize]
Window(e, types) == [call |-> "WindowQuery", entity |-> e, item |-> <<"x">>, types |-> types]

MCTimelines ==
    {Sequence({}, <<<<"order">>, <<"fix">>>>, 1),
     Sequence({}, <<<<"order">>, <<"fix">>>>, 0),
     Sequence({<<"x">>}, <<<<"order">>, <<"order">>>>, 2),
     Sequence({}, <<>>, 0),
     Cluster({}, 1, 2),
     Cluster({}, 0, 0),
     Cluster({<<"order">>}, 2, 2),
     Window(Shop, {}),
     Window(Shop, {<<"order">>}),
     Window(<<>>, {})}

MCCalls == MCQueries \cup MCTimelines

ASSUME MCTextsAgree == TextsAgree
=============================================================================
