------------------------------- MODULE MCFeed -------------------------------
(* Instances of Feed for TLC.                                              *)
EXTENDS Feed, TLC

CONSTANTS c1, c2, s1, s2, nobody, noclient

\* An order, and something else of the same shop.
MCDoc == {<<<<"shop">>, <<"order", "1">>>>, <<<<"shop">>, <<"stock">>>>}

MCMaxVersion == [d \in MCDoc |-> IF d[2] = <<"stock">> THEN 1 ELSE 2]

\* One subscriber of everything, one of orders.
MCFilter == [s \in Stream |->
    IF s = s1 THEN [entity |-> <<>>, prefix |-> <<>>]
              ELSE [entity |-> <<"shop">>, prefix |-> <<"order">>]]

\* Writing calls are interchangeable; streams differ in their filters.
Writers == Permutations(Client)
=============================================================================
