------------------------------ MODULE Timeline ------------------------------
(***************************************************************************)
(* What the temporal queries compute from one event log: sequenceWalk      *)
(* (bboltstore/sequence.go) and clusterScan (bboltstore/cluster.go), each  *)
(* next to a definition of what it is to find.  A log is a sequence of     *)
(* entries in the order of their times.                                    *)
(***************************************************************************)
EXTENDS TemporalIndex, FiniteSets

\* The logs loadTemporal can read for a set of entries: sort.Slice is not
\* stable, so entries with equal times come in any order.
SortedLogs(entries) ==
    LET n == Cardinality(entries)
    IN  {q \in [1 .. n -> entries] :
            \A i, j \in 1 .. n : i < j => q[i] # q[j] /\ q[i].at <= q[j].at}

Within(window, first, last) == window <= 0 \/ last.at - first.at <= window

----------------------------------------------------------------------------
(* sequenceWalk                                                            *)

\* Wrong variant: an event that does not fit the next step ends the walk.
PickedAdjacent(log, steps, start) ==
    LET at[i \in 0 .. Len(log)] ==
            IF i < start THEN <<>>
            ELSE LET got == at[i - 1] IN
                 IF Len(got) = i - start /\ Len(got) < Len(steps)
                       /\ log[i].type = steps[Len(got) + 1]
                 THEN Append(got, i) ELSE got
    IN  at

\* The positions picked from the first i events: from start on, one event per
\* step, in order, taking for each step the first that fits.
Picked(log, steps, start) ==
    LET at[i \in 0 .. Len(log)] ==
            IF i < start THEN <<>>
            ELSE LET got == at[i - 1] IN
                 IF Len(got) < Len(steps) /\ log[i].type = steps[Len(got) + 1]
                 THEN Append(got, i) ELSE got
    IN  at

\* A walk that takes every step and stays within the window.
Walks(log, steps, window, start) ==
    LET p == Picked(log, steps, start)[Len(log)]
    IN  /\ log[start].type = steps[1]
        /\ Len(p) = Len(steps)
        /\ Within(window, log[p[1]], log[p[Len(p)]])

\* The walk from the first start that succeeds, <<>> when none does.
sequenceWalk(log, steps, window) ==
    LET starts == {s \in 1 .. Len(log) : steps # <<>> /\ Walks(log, steps, window, s)}
        first == CHOOSE s \in starts : \A t \in starts : s <= t
        p == Picked(log, steps, first)[Len(log)]
    IN  IF starts = {} THEN <<>> ELSE [m \in 1 .. Len(p) |-> log[p[m]]]

\* The log has events of the given types in this order within the window.
IsSequence(log, steps, window, p) ==
    /\ \A i \in DOMAIN p : log[p[i]].type = steps[i]
    /\ \A i, j \in DOMAIN p : i < j => p[i] < p[j]
    /\ Within(window, log[p[1]], log[p[Len(p)]])

HasSequence(log, steps, window) ==
    steps # <<>> /\ \E p \in [1 .. Len(steps) -> 1 .. Len(log)] : IsSequence(log, steps, window, p)

----------------------------------------------------------------------------
(* clusterScan                                                             *)

\* Wrong variant: each event is compared with the one before it.
ReachStepwise(log, window, i) ==
    CHOOSE j \in i .. Len(log) :
        /\ \A k \in i + 1 .. j : Within(window, log[k - 1], log[k])
        /\ j < Len(log) => ~Within(window, log[j], log[j + 1])

\* How far a cluster that starts at i reaches.
Reach(log, window, i) ==
    CHOOSE j \in i .. Len(log) :
        /\ \A k \in i .. j : Within(window, log[i], log[k])
        /\ j < Len(log) => ~Within(window, log[i], log[j + 1])

\* The clusters found from the first i starts, as pairs of first and last
\* position, and the start the scan goes on with.
Scanned(log, window, size) ==
    LET scan[i \in 0 .. Len(log)] ==
            IF i = 0 THEN [next |-> 1, out |-> <<>>]
            ELSE LET acc == scan[i - 1]
                     j == Reach(log, window, i)
                 IN  IF i < acc.next \/ j - i + 1 < size THEN acc
                     ELSE [next |-> j + 1, out |-> Append(acc.out, <<i, j>>)]
    IN  scan

\* minSize below 1 means 1.
AtLeastOne(minSize) == IF minSize < 1 THEN 1 ELSE minSize

clusterScan(log, window, minSize) ==
    Scanned(log, window, AtLeastOne(minSize))[Len(log)].out

\* Clusters are in order and do not overlap, each is within the window, large
\* enough and cannot be extended; and every group of minSize events within
\* the window shares an event with some cluster.
IsClustering(log, window, minSize, out) ==
    /\ \A k \in 1 .. Len(out) :
          LET i == out[k][1]
              j == out[k][2]
          IN  /\ Within(window, log[i], log[j])
              /\ j - i + 1 >= minSize
              /\ j < Len(log) => ~Within(window, log[i], log[j + 1])
              /\ k < Len(out) => j < out[k + 1][1]
    /\ \A i, j \in 1 .. Len(log) :
          i <= j /\ j - i + 1 >= minSize /\ Within(window, log[i], log[j]) =>
              \E k \in 1 .. Len(out) : out[k][1] <= j /\ i <= out[k][2]
=============================================================================
