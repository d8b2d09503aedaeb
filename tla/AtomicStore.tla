---------------------------- MODULE AtomicStore ----------------------------
(***************************************************************************)
(* What the document store promises, with no transaction, index or working *)
(* copy in sight (docstore.go): a call takes effect on all its documents   *)
(* at once or not at all, and a call that took effect owes its subscribers *)
(* one event per document, each with the bytes replaced and the new bytes. *)
(***************************************************************************)
CONSTANTS DocID, Content, EmptyDoc, Absent, Keep, Client

VARIABLES
    docs,   \* stored documents
    call,   \* what each client is asking for: {} or one set of writes
    owed    \* events not yet delivered, per client whose call caused them

vars == <<docs, call, owed>>

Writes == [DocID -> Content \cup {Absent, Keep}]

Applied(old, w) == [d \in DocID |-> IF w[d] = Keep THEN old[d] ELSE w[d]]

\* The bytes an event reports as replaced; an empty document reads as none.
Prior(c) == IF c = EmptyDoc THEN Absent ELSE c

EventFor(old, new, d) ==
    [kind |-> IF new = Absent THEN "Retract"
              ELSE IF Prior(old) = Absent THEN "Assert" ELSE "Change",
     doc |-> d, old |-> Prior(old), new |-> new]

EventsFor(old, w) ==
    {EventFor(old[d], w[d], d) :
        d \in {e \in DocID : w[e] # Keep /\ ~(w[e] = Absent /\ Prior(old[e]) = Absent)}}

Init ==
    /\ docs = [d \in DocID |-> Absent]
    /\ call = [c \in Client |-> {}]
    /\ owed = [c \in Client |-> {}]

Request(c) ==
    /\ call[c] = {} /\ owed[c] = {}
    /\ \E w \in Writes : call' = [call EXCEPT ![c] = {w}]
    /\ UNCHANGED <<docs, owed>>

Apply(c) ==
    \E w \in call[c] :
        /\ docs' = Applied(docs, w)
        /\ owed' = [owed EXCEPT ![c] = EventsFor(docs, w)]
        /\ call' = [call EXCEPT ![c] = {}]

Refuse(c) ==
    /\ call[c] # {}
    /\ call' = [call EXCEPT ![c] = {}]
    /\ UNCHANGED <<docs, owed>>

Deliver(c) ==
    /\ \E e \in owed[c] : owed' = [owed EXCEPT ![c] = @ \ {e}]
    /\ UNCHANGED <<docs, call>>

\* The process dies: stored documents survive, everything under way is lost.
Crash ==
    /\ call' = [c \in Client |-> {}]
    /\ owed' = [c \in Client |-> {}]
    /\ UNCHANGED docs

Next ==
    \/ \E c \in Client : Request(c) \/ Apply(c) \/ Refuse(c) \/ Deliver(c)
    \/ Crash

Spec == Init /\ [][Next]_vars
============================================================================
