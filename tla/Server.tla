------------------------------- MODULE Server -------------------------------
(***************************************************************************)
(* The server process, main in cmd/talondb-server/main.go, around the      *)
(* calls and streams of Feed: listeners come up one after the other, a     *)
(* signal starts the graceful shutdown, the deferred store.Close waits for *)
(* the write lock, and the process ends.  GracefulStop and http.Shutdown   *)
(* are external and modelled by what main relies on: both close their      *)
(* listeners first; the first returns when no gRPC handler runs, the       *)
(* second when no HTTP handler runs or after five seconds.                 *)
(***************************************************************************)
EXTENDS Feed

CONSTANTS
    Listeners,      \* the flags given: a subset of {"unix", "tcp", "http"}
    Via             \* Client -> {"grpc", "http"}; streams are always gRPC

ASSUME ServerAssumption ==
    /\ Listeners \subseteq {"unix", "tcp", "http"}
    /\ Via \in [Client -> {"grpc", "http"}]

VARIABLES
    phase,      \* where main is; "fatal" and "exited": there is no process
    accepting,  \* listeners that accept calls
    announced,  \* listeners with a "ready" line on stdout
    signalled   \* SIGINT or SIGTERM has arrived

life == <<phase, accepting, announced, signalled>>
serverVars == <<feedVars, life>>

Ended == phase \in {"fatal", "exited"}
Closed == phase \in {"closed", "fatal", "exited"}
Reachable(c) ==
    IF Via[c] = "http" THEN "http" \in accepting ELSE accepting \cap {"unix", "tcp"} # {}

ServerInit ==
    /\ FeedInit
    /\ phase = "unix"
    /\ accepting = {}
    /\ announced = {}
    /\ signalled = FALSE

----------------------------------------------------------------------------
(* main.                                                                   *)

\* The socket or port is bound, announced and served; a flag that was not
\* given is skipped; a listener that cannot be bound ends the process on the
\* spot (log.Fatalf runs no deferred call).
Listen(l, next) ==
    /\ phase = l
    /\ IF l \in Listeners
       THEN \/ /\ accepting' = accepting \cup {l}
               /\ announced' = announced \cup {l}
               /\ phase' = next
            \/ /\ phase' = "fatal"
               /\ UNCHANGED <<accepting, announced>>
       ELSE phase' = next /\ UNCHANGED <<accepting, announced>>
    /\ UNCHANGED <<feedVars, signalled>>

\* The HTTP server is announced and then bound by a goroutine of its own.
StartHTTP ==
    /\ phase = "http"
    /\ announced' = announced \cup (Listeners \cap {"http"})
    /\ phase' = "wait"
    /\ UNCHANGED <<feedVars, accepting, signalled>>

\* That goroutine; when it cannot bind it logs the error and main goes on.
BindHTTP ==
    /\ "http" \in announced \ accepting
    /\ phase \in {"wait", "drain"}
    /\ accepting' = accepting \cup {"http"}
    /\ UNCHANGED <<feedVars, phase, announced, signalled>>

Signal ==
    /\ ~signalled /\ ~Ended
    /\ signalled' = TRUE
    /\ UNCHANGED <<feedVars, phase, accepting, announced>>

\* Wrong variant: the listeners stay open while the calls drain.
StopListens ==
    /\ phase = "wait" /\ signalled
    /\ phase' = "drain"
    /\ UNCHANGED <<feedVars, accepting, announced, signalled>>

\* GracefulStop begins: the gRPC listeners close, HTTP is still served.
Stop ==
    /\ phase = "wait" /\ signalled
    /\ phase' = "drain"
    /\ accepting' = accepting \cap {"http"}
    /\ UNCHANGED <<feedVars, announced, signalled>>

\* Wrong variant: Stop in place of GracefulStop.
DrainedAtOnce ==
    /\ phase = "drain"
    /\ phase' = "httpstop"
    /\ accepting' = {}
    /\ UNCHANGED <<feedVars, announced, signalled>>

\* GracefulStop returns once no gRPC handler runs, Subscribe included; then
\* http.Shutdown closes its listener.
Drained ==
    /\ phase = "drain"
    /\ \A c \in Client : Via[c] = "grpc" => pc[c] = "idle"
    /\ \A s \in Stream : state[s] # "open"
    /\ phase' = "httpstop"
    /\ accepting' = {}
    /\ UNCHANGED <<feedVars, announced, signalled>>

\* Shutdown returns: no HTTP handler runs, or five seconds are over.
ShutdownDone ==
    /\ phase = "httpstop"
    /\ phase' = "closing"
    /\ UNCHANGED <<feedVars, accepting, announced, signalled>>

\* Wrong variant: the database is closed under a running transaction.
CloseAtOnce ==
    /\ phase = "closing"
    /\ phase' = "closed"
    /\ UNCHANGED <<feedVars, accepting, announced, signalled>>

\* The deferred store.Close: bolt.DB.Close takes the write lock.
Close ==
    /\ phase = "closing" /\ writer = NoClient
    /\ phase' = "closed"
    /\ UNCHANGED <<feedVars, accepting, announced, signalled>>

\* main returns; the goroutines that still run end with the process.
Exit ==
    /\ phase = "closed"
    /\ phase' = "exited"
    /\ UNCHANGED <<feedVars, accepting, announced, signalled>>

Main ==
    \/ Listen("unix", "tcp")
    \/ Listen("tcp", "http")
    \/ StartHTTP
    \/ Stop
    \/ Drained
    \/ ShutdownDone
    \/ Close
    \/ Exit

----------------------------------------------------------------------------
(* The handlers of Feed, in a process that is alive and accepts the call.  *)

Enter(c) == \E D \in SUBSET DocID : ~Ended /\ Reachable(c) /\ Call(c, D) /\ UNCHANGED life
Lock(c) == ~Closed /\ Begin(c) /\ UNCHANGED life
Reject(c) == ~Ended /\ Refuse(c) /\ UNCHANGED life
Run(c) == ~Ended /\ Work(c) /\ UNCHANGED life
Open(s) == accepting \cap {"unix", "tcp"} # {} /\ ~Ended /\ Subscribe(s) /\ UNCHANGED life
Forward(s) == ~Ended /\ (Take(s) \/ Leave(s)) /\ UNCHANGED life
Receive(s) == ~Ended /\ Send(s) /\ UNCHANGED life
Hangup(s) == ~Ended /\ Cancel(s) /\ UNCHANGED life

ServerNext ==
    \/ Main
    \/ BindHTTP
    \/ Signal
    \/ \E c \in Client : Enter(c) \/ Lock(c) \/ Reject(c) \/ Run(c)
    \/ \E s \in Stream : Open(s) \/ Forward(s) \/ Receive(s) \/ Hangup(s)

\* Goroutines that can run do run, and Go's mutex starves nobody (sync.Mutex
\* hands over to a waiter after a millisecond).  Nothing is assumed of what
\* comes from outside: calls, signals, and clients that read or hang up.
ServerFairness ==
    /\ WF_serverVars(Main)
    /\ \A c \in Client : WF_serverVars(Run(c)) /\ SF_serverVars(Lock(c))
    /\ \A s \in Stream : WF_serverVars(Forward(s))

ServerSpec == ServerInit /\ [][ServerNext]_serverVars /\ ServerFairness

----------------------------------------------------------------------------
(* Properties.                                                             *)

ServerTypeOK ==
    /\ FeedTypeOK
    /\ phase \in {"unix", "tcp", "http", "wait", "drain", "httpstop", "closing",
                  "closed", "exited", "fatal"}
    /\ accepting \subseteq Listeners
    /\ announced \subseteq Listeners
    /\ signalled \in BOOLEAN

\* main, GracefulStop before store.Close: a shutdown cuts off no gRPC call
\* and no stream, and every event of a gRPC writer has been handed to the
\* subscribers, from the moment main proceeds to the store.
NoCallCut ==
    phase \in {"httpstop", "closing", "closed", "exited"} =>
        /\ \A c \in Client : Via[c] = "grpc" => pc[c] = "idle" /\ Pending(c) = {}
        /\ \A s \in Stream : state[s] # "open"

\* store.Close: whatever HTTP calls outlive the five seconds of Shutdown,
\* no write transaction is open once the database is closed.
ClosedQuiet == phase \in {"closed", "exited"} => \A c \in Client : pc[c] # "tx"

\* The non-blocking send of the subscriber callback ("blocking the producer
\* would let a slow consumer stall commits"): every call that has the lock
\* or waits for it comes to its end, whether any stream ever reads or not.
CallsEnd ==
    \A c \in Client : pc[c] # "idle" ~> (pc[c] = "idle" \/ Closed)

\* A subscriber that keeps reading gets every event its queue holds, unless
\* the stream or the process ends first.
QueuedIsSent ==
    \A s \in Stream : []<>(sending[s] = <<>>) =>
        \A d \in DocID : \A v \in 1 .. MaxVersion[d] :
            LET e == [doc |-> d, ver |-> v]
            IN  e \in Range(queue[s]) ~> (e \in Range(sent[s]) \/ state[s] = "done" \/ Ended)

\* main: after a signal the process ends, provided the subscribers leave.
SignalEnds == (\A s \in Stream : <>[](state[s] # "open")) => (signalled ~> Ended)
=============================================================================
