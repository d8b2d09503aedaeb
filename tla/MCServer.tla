------------------------------ MODULE MCServer ------------------------------
(* Instances of Server for TLC: one gRPC and one HTTP client write, one     *)
(* stream follows everything.                                               *)
EXTENDS Server

CONSTANTS rpc, web, s1, nobody, noclient

MCDoc == {<<<<"shop">>, <<"order", "1">>>>, <<<<"shop">>, <<"stock">>>>}
MCVia == [c \in Client |-> IF c = web THEN "http" ELSE "grpc"]
MCFilter == [s \in Stream |-> [entity |-> <<>>, prefix |-> <<>>]]
MCMaxVersion == [d \in MCDoc |-> IF d[2] = <<"stock">> THEN 1 ELSE 2]
=============================================================================
