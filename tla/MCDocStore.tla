----------------------------- MODULE MCDocStore -----------------------------
(***************************************************************************)
(* Small corpora for DocStore.  Each corpus is a function Leaves; the runs *)
(* take Content as its domain.                                             *)
(***************************************************************************)
EXTENDS DocClaims, TLC

docA == <<"a">>
docB == <<"b">>
docC == <<"c">>
ThreeDocs == {docA, docB, docC}

Str(t) == [kind |-> "str", text |-> t, num |-> NotATime]
Stamp(n) == [kind |-> "str", text |-> <<ToString(n), "Z">>, num |-> n]
Num(n) == [kind |-> "num", text |-> <<ToString(n)>>, num |-> n]
Field(k, v) == [key |-> k, val |-> v, top |-> TRUE]
Nested(k, v) == [key |-> k, val |-> v, top |-> FALSE]

\* Clients are interchangeable, and so are documents when no corpus content
\* names one (runs without liveness properties only).
ClientSymmetry == Permutations(Client)
DocSymmetry == Permutations(DocID)
Symmetry == ClientSymmetry \cup DocSymmetry

\* An empty document, opaque bytes, a JSON object, one with a string too long
\* for a key, and one with a number without a name.
PlainLeaves ==
    [empty |-> {}, raw |-> {}, json |-> {Field(<<"k">>, Str(<<"v">>))},
     long |-> {Field(<<"k">>, Str(<<"v", "v">>))},
     nokey |-> {Field(<<>>, Num(1))}]
PlainContent == DOMAIN PlainLeaves

\* Numbers: one, two under one path, none; and the unnamed one that is refused.
CountLeaves ==
    [empty |-> {}, one |-> {Field(<<"n">>, Num(1))},
     pair |-> {Nested(<<"n">>, Num(1)), Nested(<<"n">>, Num(2))},
     nokey |-> {Field(<<>>, Num(1))}]
CountContent == DOMAIN CountLeaves

Item1 == Field(ItemKey, Str(<<"x">>))
Type(t) == Field(TypeKey, Str(<<t>>))

\* Records with numbers, groups and times: one number and no time; another,
\* at a time; the first again at a later time, under another item; an array of
\* both, at that time too, and attribute names and values with the separator in
\* them, so that different triples share a group key.
IndexLeaves ==
    [one |-> {Field(<<"n">>, Num(1)), Item1, Type("t")},
     two |-> {Field(<<"n">>, Num(2)), Item1, Type("t"), Field(AtKey, Stamp(5))},
     moved |-> {Field(ItemKey, Str(<<"y">>)), Type("t"), Field(AtKey, Num(7))},
     both |-> {Nested(<<"n">>, Num(1)), Nested(<<"n">>, Num(2)), Item1,
               Type("t"), Field(AtKey, Stamp(7)),
               Field(<<"k", "|", "m">>, Str(<<"n">>)),
               Field(<<"k">>, Str(<<"m", "|", "n">>))}]
IndexContent == DOMAIN IndexLeaves

\* Categories: no parent, each document as parent, and one that never exists.
Under(d) == {Field(ParentKey, Str(d))}
TreeLeaves ==
    [top |-> {}, underA |-> Under(docA), underB |-> Under(docB),
     underC |-> Under(docC), underZ |-> Under(<<"z">>)]
TreeContent == DOMAIN TreeLeaves
============================================================================
