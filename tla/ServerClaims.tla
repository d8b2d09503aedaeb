---------------------------- MODULE ServerClaims ----------------------------
(***************************************************************************)
(* What the comments on the Subscribe handler (grpcserver/server.go) say   *)
(* of a stream and the code does not do.                                   *)
(***************************************************************************)
EXTENDS MCServer

\* "Subsequent events for this subscriber are dropped on the floor": once an
\* event was dropped for want of room, the stream's queue takes no other.
DroppedForGood ==
    [][\A s \in Stream : missed[s] # {} => Len(queue'[s]) <= Len(queue[s])]_serverVars

\* "The stream terminates when ... the server shuts down".
StreamsEndOnShutdown ==
    \A s \in Stream : phase = "drain" ~> (state[s] # "open" \/ Ended)
=============================================================================
