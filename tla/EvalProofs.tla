----------------------------- MODULE EvalProofs -----------------------------
(***************************************************************************)
(* What sequenceWalk, clusterScan, the composer and the roll-ups compute,  *)
(* for every log, query and list of matches.  The loops of the code are    *)
(* recursive functions; their equations and what they compute are shown by *)
(* induction, from the well-foundedness of < on the natural numbers.       *)
(***************************************************************************)
EXTENDS Timeline, QueryEval, FiniteSetTheorems, TLAPS

----------------------------------------------------------------------------
(* Induction and recursion over the natural numbers.                       *)

\* < on Nat as a set of pairs.
LEMMA LessWellFounded == IsWellFoundedOn({p \in Nat \X Nat : p[1] < p[2]}, Nat)
BY NatLessThanWellFounded, Zenon DEF OpToRel

\* Every set of numbers that is not empty has a least one.
LEMMA LeastNumber ==
    ASSUME NEW T \in SUBSET Nat, T # {}
    PROVE  \E m \in T : \A n \in T : m <= n
<1> DEFINE R == {p \in Nat \X Nat : p[1] < p[2]}
<1>1. IsWellFoundedOn(R, Nat)
  BY LessWellFounded, Zenon
<1>. HIDE DEF R
<1>2. PICK m \in T : \A n \in T : ~(<<n, m>> \in R)
  BY <1>1, WFMin
<1>3. ASSUME NEW n \in T PROVE m <= n
  <2>1. n \in Nat /\ m \in Nat /\ <<n, m>> \notin R
    BY <1>2
  <2>. QED BY <2>1 DEF R
<1>. QED BY <1>3

\* A set with 0 that contains n + 1 with every n contains all numbers.
LEMMA SetInduction ==
    ASSUME NEW S, 0 \in S, \A n \in Nat : n \in S => n + 1 \in S
    PROVE  Nat \subseteq S
<1>. SUFFICES ASSUME Nat \ S # {} PROVE FALSE
  OBVIOUS
<1>1. PICK m \in Nat \ S : \A n \in Nat \ S : m <= n
  BY LeastNumber
<1>2. m # 0 /\ m - 1 \in Nat
  BY <1>1
<1>3. m - 1 \in S
  BY <1>1, <1>2
<1>4. m \in S
  BY <1>2, <1>3
<1>. QED BY <1>4

\* The same up to a bound.
LEMMA UpTo ==
    ASSUME NEW N \in Nat, NEW S, 0 \in S, \A n \in 1 .. N : n - 1 \in S => n \in S
    PROVE  0 .. N \subseteq S
<1> DEFINE T == {n \in Nat : n <= N => n \in S}
<1>1. 0 \in T
  OBVIOUS
<1>2. ASSUME NEW n \in Nat, n \in T PROVE n + 1 \in T
  <2>1. n + 1 <= N => n + 1 \in 1 .. N /\ n \in S /\ (n + 1) - 1 = n
    BY <1>2
  <2>. QED BY <2>1
<1>. HIDE DEF T
<1>3. Nat \subseteq T
  BY <1>1, <1>2, SetInduction
<1>. QED BY <1>3 DEF T

\* Downwards from a bound: a set that contains l with every later number.
LEMMA Downwards ==
    ASSUME NEW N \in Nat, NEW S,
           \A l \in 1 .. N : (\A m \in l + 1 .. N : m \in S) => l \in S
    PROVE  1 .. N \subseteq S
<1> DEFINE T == {n \in 0 .. N : \A m \in N - n + 1 .. N : m \in S}
<1>1. 0 \in T
  OBVIOUS
<1>2. ASSUME NEW n \in 1 .. N, n - 1 \in T PROVE n \in T
  <2>1. \A m \in (N - n + 1) + 1 .. N : m \in S
    BY <1>2
  <2>2. N - n + 1 \in 1 .. N
    OBVIOUS
  <2>3. N - n + 1 \in S
    BY <2>1, <2>2
  <2>. QED BY <2>1, <2>3
<1>. HIDE DEF T
<1>3. 0 .. N \subseteq T
  BY <1>1, <1>2, UpTo
<1>. QED BY <1>3 DEF T

\* g is what primitive recursion up to a bound defines.
Solves(g, S, base, N, step) ==
    /\ g \in [0 .. N -> S]
    /\ g[0] = base
    /\ \A n \in 1 .. N : g[n] = step[<<g[n - 1], n>>]

\* Primitive recursion up to a bound has a solution.
LEMMA Recursion ==
    ASSUME NEW S, NEW base \in S, NEW N \in Nat, NEW step \in [S \X (1 .. N) -> S]
    PROVE  \E g : Solves(g, S, base, N, step)
<1> DEFINE Solved(m) == \E g \in [0 .. m -> S] :
                            g[0] = base /\ \A n \in 1 .. m : g[n] = step[<<g[n - 1], n>>]
           OK == {m \in 0 .. N : Solved(m)}
<1>1. 0 \in OK
  <2>1. Solved(0)
    <3>. WITNESS [n \in 0 .. 0 |-> base] \in [0 .. 0 -> S]
    <3>. QED OBVIOUS
  <2>. QED BY <2>1
<1>2. ASSUME NEW m \in 1 .. N, m - 1 \in OK PROVE m \in OK
  <2>1. PICK g \in [0 .. m - 1 -> S] :
           g[0] = base /\ \A n \in 1 .. m - 1 : g[n] = step[<<g[n - 1], n>>]
    BY <1>2
  <2> DEFINE h == [n \in 0 .. m |-> IF n = m THEN step[<<g[m - 1], m>>] ELSE g[n]]
  <2>2. h \in [0 .. m -> S]
    BY <2>1
  <2>3. h[0] = base
    BY <2>1
  <2>4. ASSUME NEW n \in 1 .. m PROVE h[n] = step[<<h[n - 1], n>>]
    <3>1. h[n - 1] = g[n - 1] /\ n \in 0 .. m
      OBVIOUS
    <3>2. CASE n = m
      BY <3>1, <3>2
    <3>3. CASE n # m
      <4>1. n \in 1 .. m - 1
        BY <3>3
      <4>. QED BY <2>1, <3>1, <3>3, <4>1
    <3>. QED BY <3>2, <3>3
  <2>. HIDE DEF h
  <2>5. Solved(m)
    <3>. WITNESS h \in [0 .. m -> S]
    <3>. QED BY <2>3, <2>4
  <2>. QED BY <2>5
<1>. HIDE DEF OK, Solved
<1>3. 0 .. N \subseteq OK
  BY <1>1, <1>2, UpTo
<1>4. N \in OK
  BY <1>3
<1>. QED BY <1>4 DEF OK, Solved, Solves

\* An entry of a table that depends on the later entries only.
DependsOnLater(step, N, V) ==
    \A f, g \in [1 .. N -> V] : \A l \in 1 .. N :
        (\A m \in l + 1 .. N : f[m] = g[m]) => step[<<f, l>>] = step[<<g, l>>]

\* f has the entries that step computes from f itself.
SolvesDown(f, N, V, step) == f \in [1 .. N -> V] /\ \A l \in 1 .. N : f[l] = step[<<f, l>>]

\* Recursion from the last number to the first has a solution.
LEMMA DownRecursion ==
    ASSUME NEW N \in Nat, NEW V, V # {}, NEW step \in [[1 .. N -> V] \X (1 .. N) -> V],
           DependsOnLater(step, N, V)
    PROVE  \E f : SolvesDown(f, N, V, step)
<1> DEFINE S == [1 .. N -> V]
           Fill(f, l) == [f EXCEPT ![l] = step[<<f, l>>]]
           DoneFrom(f, k) == \A l \in k .. N : f[l] = step[<<f, l>>]
           next == [y \in S \X (1 .. N) |-> Fill(y[1], N - y[2] + 1)]
<1>1. PICK v \in V : TRUE
  OBVIOUS
<1> DEFINE base == [l \in 1 .. N |-> v]
<1>2. base \in S
  OBVIOUS
<1>3. ASSUME NEW f \in S, NEW l \in 1 .. N PROVE Fill(f, l) \in S
  OBVIOUS
<1>4. ASSUME NEW f \in S, NEW l \in 1 .. N, DoneFrom(f, l + 1) PROVE DoneFrom(Fill(f, l), l)
  <2> DEFINE g == Fill(f, l)
  <2>1. g \in S /\ \A m \in 1 .. N : g[m] = IF m = l THEN step[<<f, l>>] ELSE f[m]
    BY <1>3
  <2>. HIDE DEF g
  <2>2. ASSUME NEW k \in l .. N PROVE g[k] = step[<<g, k>>]
    <3>1. k \in 1 .. N
      OBVIOUS
    <3>2. \A m \in k + 1 .. N : f[m] = g[m]
      BY <2>1
    <3>3. step[<<f, k>>] = step[<<g, k>>]
      BY <2>1, <3>1, <3>2 DEF DependsOnLater
    <3>4. k # l => k \in l + 1 .. N
      OBVIOUS
    <3>5. g[k] = step[<<f, k>>]
      BY <1>4, <2>1, <3>1, <3>4
    <3>. QED BY <3>3, <3>5
  <2>. QED BY <2>2 DEF g
<1>. HIDE DEF S, Fill, base, DoneFrom
<1>5. next \in [S \X (1 .. N) -> S]
  <2>1. ASSUME NEW y \in S \X (1 .. N) PROVE Fill(y[1], N - y[2] + 1) \in S
    <3>1. y[1] \in S /\ N - y[2] + 1 \in 1 .. N
      OBVIOUS
    <3>. QED BY <1>3, <3>1
  <2>. QED BY <2>1
<1>6. \E g : Solves(g, S, base, N, next)
  <2>. HIDE DEF next
  <2>. QED BY <1>2, <1>5, Recursion, Zenon
<1>7. PICK g : Solves(g, S, base, N, next)
  BY <1>6
<1>8. \A n \in 0 .. N : g[n] \in S
  BY <1>7 DEF Solves
<1>9. ASSUME NEW n \in 1 .. N PROVE g[n] = Fill(g[n - 1], N - n + 1)
  <2>1. g[n] = next[<<g[n - 1], n>>]
    BY <1>7 DEF Solves
  <2>2. <<g[n - 1], n>> \in S \X (1 .. N)
    BY <1>8
  <2>. QED BY <2>1, <2>2
<1> DEFINE OK == {n \in 0 .. N : DoneFrom(g[n], N - n + 1)}
<1>10. 0 \in OK
  BY DEF DoneFrom
<1>11. ASSUME NEW n \in 1 .. N, n - 1 \in OK PROVE n \in OK
  <2>1. N - n + 1 \in 1 .. N /\ n - 1 \in 0 .. N /\ N - (n - 1) + 1 = (N - n + 1) + 1
    OBVIOUS
  <2>2. DoneFrom(g[n - 1], (N - n + 1) + 1)
    BY <1>11, <2>1
  <2>3. DoneFrom(Fill(g[n - 1], N - n + 1), N - n + 1)
    BY <1>4, <1>8, <2>1, <2>2
  <2>. QED BY <1>9, <2>3
<1>. HIDE DEF OK
<1>12. 0 .. N \subseteq OK
  BY <1>10, <1>11, UpTo
<1>13. N \in OK /\ N - N + 1 = 1
  BY <1>12
<1>14. g[N] \in S /\ DoneFrom(g[N], 1)
  BY <1>8, <1>13 DEF OK
<1>15. SolvesDown(g[N], N, V, step)
  BY <1>14 DEF S, DoneFrom, SolvesDown
<1>. QED BY <1>15

\* Finite sets are built by adding elements.
LEMMA FiniteInduction ==
    ASSUME NEW E, IsFiniteSet(E), NEW S, {} \in S,
           \A T \in SUBSET E : \A x \in E \ T : T \in S => T \cup {x} \in S
    PROVE  E \in S
<1> DEFINE OK == {n \in Nat : \A T \in SUBSET E : Cardinality(T) = n => T \in S}
<1>1. \A T \in SUBSET E : IsFiniteSet(T)
  BY FS_Subset
<1>2. 0 \in OK
  BY <1>1, FS_EmptySet
<1>3. ASSUME NEW n \in Nat, n \in OK PROVE n + 1 \in OK
  <2>. SUFFICES ASSUME NEW T \in SUBSET E, Cardinality(T) = n + 1 PROVE T \in S
    OBVIOUS
  <2>1. T # {}
    BY FS_EmptySet
  <2>2. PICK x \in T : TRUE
    BY <2>1
  <2>3. Cardinality(T \ {x}) = n
    <3>1. Cardinality(T \ {x}) = Cardinality(T) - 1
      BY <1>1, <2>2, FS_RemoveElement
    <3>. QED BY <3>1
  <2>4. T \ {x} \in S
    BY <1>3, <2>3
  <2>5. (T \ {x}) \cup {x} = T /\ x \in E \ (T \ {x})
    BY <2>2
  <2>. QED BY <2>4, <2>5
<1>. HIDE DEF OK
<1>4. Nat \subseteq OK
  BY <1>2, <1>3, SetInduction
<1>5. Cardinality(E) \in Nat
  BY FS_CardinalityType
<1>. QED BY <1>4, <1>5 DEF OK

\* A sequence that is not empty has a first element.
LEMMA NonEmptySeq ==
    ASSUME NEW T, NEW s \in Seq(T), s # <<>>
    PROVE  Len(s) \in Nat /\ Len(s) >= 1
OBVIOUS

\* The elements of a sequence over T are in T.
LEMMA ElementOfSeq ==
    ASSUME NEW T, NEW s \in Seq(T), NEW i \in 1 .. Len(s)
    PROVE  s[i] \in T
OBVIOUS

\* Appending to a sequence over T.
LEMMA AppendType ==
    ASSUME NEW T, NEW x \in Seq(T), NEW e \in T
    PROVE  /\ Append(x, e) \in Seq(T) /\ Len(Append(x, e)) = Len(x) + 1
           /\ Append(x, e)[Len(x) + 1] = e
           /\ \A i \in 1 .. Len(x) : Append(x, e)[i] = x[i]
OBVIOUS

----------------------------------------------------------------------------
(* sequenceWalk                                                            *)

\* A log in the order of its times.
IsLog(log) ==
    /\ Len(log) \in Nat /\ DOMAIN log = 1 .. Len(log)
    /\ \A i \in 1 .. Len(log) : log[i].at \in Int
    /\ \A i, j \in 1 .. Len(log) : i <= j => log[i].at <= log[j].at

\* The loop of sequenceWalk, step by step.
LEMMA PickedTable ==
    ASSUME NEW log, Len(log) \in Nat, NEW steps, NEW start \in 1 .. Len(log)
    PROVE  LET P == Picked(log, steps, start)
           IN  /\ P \in [0 .. Len(log) -> Seq(1 .. Len(log))]
               /\ \A i \in 0 .. Len(log) :
                     P[i] = IF i < start THEN <<>>
                            ELSE IF Len(P[i - 1]) < Len(steps) /\ log[i].type = steps[Len(P[i - 1]) + 1]
                            THEN Append(P[i - 1], i) ELSE P[i - 1]
<1> DEFINE N == Len(log)
           S == Seq(1 .. N)
           Next1(x, i) == IF Len(x) < Len(steps) /\ log[i].type = steps[Len(x) + 1]
                          THEN Append(x, i) ELSE x
           step == [y \in S \X (1 .. N) |-> IF y[2] < start THEN <<>> ELSE Next1(y[1], y[2])]
           Good(f) == f = [i \in 0 .. N |-> IF i < start THEN <<>> ELSE Next1(f[i - 1], i)]
           P == Picked(log, steps, start)
<1>1. step \in [S \X (1 .. N) -> S]
  <2>1. ASSUME NEW x \in S, NEW i \in 1 .. N PROVE Next1(x, i) \in S
    BY AppendType, Zenon
  <2>. HIDE DEF Next1, S
  <2>2. <<>> \in S
    BY DEF S
  <2>. QED BY <2>1, <2>2
<1>2. <<>> \in S
  OBVIOUS
<1>. HIDE DEF S
<1>3. PICK g \in [0 .. N -> S] : g[0] = <<>> /\ \A n \in 1 .. N : g[n] = step[<<g[n - 1], n>>]
  <2>. HIDE DEF step
  <2>1. \E g : Solves(g, S, <<>>, N, step)
    BY <1>1, <1>2, Recursion, Zenon
  <2>. QED BY <2>1 DEF Solves
<1>4. Good(g)
  <2>1. ASSUME NEW i \in 0 .. N PROVE g[i] = IF i < start THEN <<>> ELSE Next1(g[i - 1], i)
    <3>1. CASE i = 0
      BY <3>1, <1>3
    <3>2. CASE i # 0
      <4>1. i \in 1 .. N /\ i - 1 \in 0 .. N
        BY <3>2
      <4>2. <<g[i - 1], i>> \in S \X (1 .. N)
        BY <4>1, <1>3
      <4>. QED BY <4>1, <4>2, <1>3
    <3>. QED BY <3>1, <3>2
  <2>. QED BY <2>1, <1>3
<1>5. P = CHOOSE f : Good(f)
  BY DEF Picked
<1>. HIDE DEF Good, P
<1>6. Good(P)
  BY <1>4, <1>5
<1>7. DOMAIN P = 0 .. N /\ \A i \in 0 .. N : P[i] = IF i < start THEN <<>> ELSE Next1(P[i - 1], i)
  BY <1>6 DEF Good
<1>8. 0 .. N \subseteq {i \in 0 .. N : P[i] \in S}
  <2>1. 0 \in {i \in 0 .. N : P[i] \in S}
    BY <1>7, <1>2
  <2>2. ASSUME NEW n \in 1 .. N, n - 1 \in {i \in 0 .. N : P[i] \in S}
        PROVE  n \in {i \in 0 .. N : P[i] \in S}
    <3>1. P[n - 1] \in S /\ n \in 0 .. N
      BY <2>2
    <3>2. Next1(P[n - 1], n) \in S
      BY <3>1, AppendType, Zenon DEF S
    <3>. QED BY <1>7, <1>2, <3>1, <3>2
  <2>. QED BY <2>1, <2>2, UpTo
<1>9. P = [i \in 0 .. N |-> P[i]]
  BY <1>6 DEF Good
<1>. QED BY <1>7, <1>8, <1>9 DEF S, P

\* The positions p, picked from the first i events, come in order, from the
\* start on, and fit the steps.
Fits(log, steps, start, p, i) ==
    /\ Len(p) <= Len(steps)
    /\ \A m \in 1 .. Len(p) : start <= p[m] /\ p[m] <= i /\ log[p[m]].type = steps[m]
    /\ \A m, n \in 1 .. Len(p) : m < n => p[m] < p[n]
    /\ (start <= i /\ steps # <<>> /\ log[start].type = steps[1]) => Len(p) >= 1 /\ p[1] = start

\* One more event is picked.
LEMMA PickFits ==
    ASSUME NEW log, NEW T, NEW steps \in Seq(T), NEW start \in Nat, NEW k \in Nat, start <= k,
           NEW N \in Nat, k \in 1 .. N, NEW p \in Seq(1 .. N), Fits(log, steps, start, p, k - 1),
           k = start => p = <<>>,
           Len(p) < Len(steps), log[k].type = steps[Len(p) + 1]
    PROVE  Fits(log, steps, start, Append(p, k), k)
<1> DEFINE q == Append(p, k)
<1>1. /\ Len(q) = Len(p) + 1 /\ q[Len(p) + 1] = k
      /\ \A m \in 1 .. Len(p) : q[m] = p[m]
  BY AppendType
<1>2. Len(p) \in Nat /\ (\A m \in 1 .. Len(p) : p[m] \in 1 .. N) /\ Len(steps) \in Nat
  OBVIOUS
<1>. HIDE DEF q
<1>3. \A m \in 1 .. Len(p) : start <= p[m] /\ p[m] <= k - 1 /\ log[p[m]].type = steps[m]
  BY DEF Fits
<1>4. ASSUME NEW m \in 1 .. Len(q)
      PROVE  start <= q[m] /\ q[m] <= k /\ log[q[m]].type = steps[m]
  <2>1. CASE m = Len(p) + 1
    BY <1>1, <2>1
  <2>2. CASE m # Len(p) + 1
    <3>1. m \in 1 .. Len(p)
      BY <1>1, <1>2, <2>2
    <3>2. q[m] = p[m] /\ log[p[m]].type = steps[m]
      BY <3>1, <1>1, <1>3
    <3>3. start <= p[m] /\ p[m] <= k
      BY <3>1, <1>2, <1>3
    <3>. QED BY <3>2, <3>3
  <2>. QED BY <2>1, <2>2
<1>5. ASSUME NEW m \in 1 .. Len(q), NEW n \in 1 .. Len(q), m < n PROVE q[m] < q[n]
  <2>1. m \in 1 .. Len(p) /\ q[m] = p[m] /\ p[m] <= k - 1 /\ p[m] \in Nat
    BY <1>1, <1>2, <1>3, <1>5
  <2>2. CASE n = Len(p) + 1
    BY <1>1, <2>1, <2>2
  <2>3. CASE n # Len(p) + 1
    <3>1. n \in 1 .. Len(p) /\ q[n] = p[n]
      BY <1>1, <1>2, <2>3
    <3>. QED BY <2>1, <3>1, <1>5 DEF Fits
  <2>. QED BY <2>2, <2>3
<1>6. (steps # <<>> /\ log[start].type = steps[1]) => Len(q) >= 1 /\ q[1] = start
  <2>1. CASE k = start
    BY <1>1, <1>2, <2>1
  <2>2. CASE k # start
    <3>1. start <= k - 1
      BY <2>2
    <3>. QED BY <1>1, <1>2, <3>1 DEF Fits
  <2>. QED BY <2>1, <2>2
<1>7. Len(q) <= Len(steps)
  BY <1>1, <1>2
<1>8. Fits(log, steps, start, q, k)
  BY <1>4, <1>5, <1>6, <1>7, Zenon DEF Fits
<1>. QED BY <1>8 DEF q

\* An event is passed over.
LEMMA PassFits ==
    ASSUME NEW log, NEW T, NEW steps \in Seq(T), NEW start \in Nat, NEW k \in Nat, start <= k,
           NEW N \in Nat, NEW p \in Seq(1 .. N), Fits(log, steps, start, p, k - 1),
           k = start => p = <<>>,
           ~(Len(p) < Len(steps) /\ log[k].type = steps[Len(p) + 1])
    PROVE  Fits(log, steps, start, p, k)
<1>1. Len(p) \in Nat /\ (\A m \in 1 .. Len(p) : p[m] \in 1 .. N) /\ Len(steps) \in Nat
  OBVIOUS
<1>2. \A m \in 1 .. Len(p) : start <= p[m] /\ p[m] <= k - 1 /\ log[p[m]].type = steps[m]
  BY DEF Fits
<1>3. ASSUME NEW m \in 1 .. Len(p)
      PROVE  start <= p[m] /\ p[m] <= k /\ log[p[m]].type = steps[m]
  <2>1. start <= p[m] /\ p[m] <= k
    BY <1>1, <1>2
  <2>. QED BY <1>2, <2>1
<1>4. (steps # <<>> /\ log[start].type = steps[1]) => Len(p) >= 1 /\ p[1] = start
  <2>1. CASE k = start
    <3>1. steps # <<>> => Len(steps) > 0
      OBVIOUS
    <3>. QED BY <2>1, <3>1
  <2>2. CASE k # start
    <3>1. start <= k - 1
      BY <2>2
    <3>. QED BY <3>1 DEF Fits
  <2>. QED BY <2>1, <2>2
<1>. QED BY <1>3, <1>4, Zenon DEF Fits

\* What is picked fits.
LEMMA PickedFits ==
    ASSUME NEW log, Len(log) \in Nat, NEW T, NEW steps \in Seq(T), NEW start \in 1 .. Len(log)
    PROVE  \A i \in 0 .. Len(log) : Fits(log, steps, start, Picked(log, steps, start)[i], i)
<1> DEFINE N == Len(log)
           P == Picked(log, steps, start)
           OK == {k \in 0 .. N : Fits(log, steps, start, P[k], k)}
<1>1. /\ P \in [0 .. N -> Seq(1 .. N)]
      /\ \A k \in 0 .. N :
            P[k] = IF k < start THEN <<>>
                   ELSE IF Len(P[k - 1]) < Len(steps) /\ log[k].type = steps[Len(P[k - 1]) + 1]
                   THEN Append(P[k - 1], k) ELSE P[k - 1]
  BY PickedTable
<1>. HIDE DEF P
<1>2. ASSUME NEW k \in 0 .. N, k < start PROVE P[k] = <<>> /\ k \in OK
  <2>1. P[k] = <<>>
    BY <1>1, <1>2
  <2>2. Fits(log, steps, start, <<>>, k)
    BY <1>2 DEF Fits
  <2>. QED BY <2>1, <2>2
<1>3. ASSUME NEW k \in 1 .. N, k - 1 \in OK PROVE k \in OK
  <2>1. P[k - 1] \in Seq(1 .. N) /\ Fits(log, steps, start, P[k - 1], k - 1)
    BY <1>1, <1>3
  <2>2. k = start => P[k - 1] = <<>>
    BY <1>2
  <2>3. P[k] = IF k < start THEN <<>>
               ELSE IF Len(P[k - 1]) < Len(steps) /\ log[k].type = steps[Len(P[k - 1]) + 1]
               THEN Append(P[k - 1], k) ELSE P[k - 1]
    <3>1. k \in 0 .. N
      OBVIOUS
    <3>. QED BY <1>1, <3>1, Zenon
  <2>4. CASE k < start
    BY <1>2, <2>4
  <2>5. CASE start <= k /\ Len(P[k - 1]) < Len(steps) /\ log[k].type = steps[Len(P[k - 1]) + 1]
    <3>1. Fits(log, steps, start, Append(P[k - 1], k), k)
      BY <2>1, <2>2, <2>5, PickFits
    <3>. QED BY <2>3, <2>5, <3>1
  <2>6. CASE start <= k /\ ~(Len(P[k - 1]) < Len(steps) /\ log[k].type = steps[Len(P[k - 1]) + 1])
    <3>1. Fits(log, steps, start, P[k - 1], k)
      BY <2>1, <2>2, <2>6, PassFits
    <3>. QED BY <2>3, <2>6, <3>1
  <2>. QED BY <2>4, <2>5, <2>6
<1>4. 0 \in OK
  BY <1>2
<1>. HIDE DEF OK
<1>5. 0 .. N \subseteq OK
  BY <1>3, <1>4, UpTo
<1>. QED BY <1>5 DEF OK, P

\* The walk is greedy: where any choice of positions has taken m steps, so has
\* the walk, and its m-th position is not later.
LEMMA PickedGreedy ==
    ASSUME NEW log, Len(log) \in Nat, NEW T, NEW steps \in Seq(T), NEW start \in 1 .. Len(log),
           NEW q \in [1 .. Len(steps) -> 1 .. Len(log)],
           \A m \in 1 .. Len(steps) : start <= q[m] /\ log[q[m]].type = steps[m],
           \A m, n \in 1 .. Len(steps) : m < n => q[m] < q[n]
    PROVE  \A m \in 1 .. Len(steps) : LET p == Picked(log, steps, start)[Len(log)]
                                      IN  m <= Len(p) /\ p[m] <= q[m]
<1> DEFINE N == Len(log)
           P == Picked(log, steps, start)
           Ahead(p, k) == \A m \in 1 .. Len(steps) : q[m] <= k => m <= Len(p) /\ p[m] <= q[m]
           OK == {k \in 0 .. N : Ahead(P[k], k)}
<1>1. /\ P \in [0 .. N -> Seq(1 .. N)]
      /\ \A k \in 0 .. N :
            P[k] = IF k < start THEN <<>>
                   ELSE IF Len(P[k - 1]) < Len(steps) /\ log[k].type = steps[Len(P[k - 1]) + 1]
                   THEN Append(P[k - 1], k) ELSE P[k - 1]
  BY PickedTable
<1>2. \A k \in 0 .. N : Fits(log, steps, start, P[k], k)
  BY PickedFits
<1>. HIDE DEF P
<1>3. 0 \in OK
  OBVIOUS
<1>4. ASSUME NEW k \in 1 .. N, k - 1 \in OK PROVE k \in OK
  <2> DEFINE p == P[k - 1]
  <2>1. /\ p \in Seq(1 .. N) /\ Ahead(p, k - 1) /\ k \in 0 .. N /\ k - 1 \in 0 .. N
        /\ Len(steps) \in Nat /\ Len(p) \in Nat
    BY <1>1, <1>4
  <2>2. P[k] = IF k < start THEN <<>>
               ELSE IF Len(p) < Len(steps) /\ log[k].type = steps[Len(p) + 1]
               THEN Append(p, k) ELSE p
    BY <1>1, <2>1, Zenon
  <2>3. \A m \in 1 .. Len(p) : p[m] <= k - 1 /\ p[m] \in 1 .. N
    <3>1. Fits(log, steps, start, p, k - 1)
      BY <1>2, <2>1
    <3>. HIDE DEF p
    <3>2. \A m \in 1 .. Len(p) : p[m] <= k - 1
      BY <3>1 DEF Fits
    <3>. QED BY <2>1, <3>2
  <2>. HIDE DEF p
  <2>4. /\ \A m \in 1 .. Len(p) : start <= k => m <= Len(P[k]) /\ P[k][m] = p[m]
    <3>1. /\ Len(Append(p, k)) = Len(p) + 1
          /\ \A i \in 1 .. Len(p) : Append(p, k)[i] = p[i]
      BY <2>1, AppendType
    <3>. QED BY <2>1, <2>2, <3>1
  <2>5. ASSUME NEW m \in 1 .. Len(steps), q[m] <= k PROVE m <= Len(P[k]) /\ P[k][m] <= q[m]
    <3>0. start <= k /\ q[m] \in 1 .. N
      BY <2>5
    <3>1. CASE q[m] <= k - 1
      <4>1. m \in 1 .. Len(p) /\ p[m] <= q[m]
        BY <2>1, <3>1
      <4>. QED BY <2>4, <3>0, <4>1
    <3>2. CASE q[m] = k /\ m <= Len(p)
      <4>1. m \in 1 .. Len(p)
        BY <3>2, <2>1
      <4>2. P[k][m] = p[m] /\ m <= Len(P[k])
        BY <2>4, <3>0, <4>1
      <4>3. p[m] <= q[m]
        BY <2>3, <3>2, <4>1
      <4>. QED BY <4>2, <4>3
    <3>3. CASE q[m] = k /\ m > Len(p)
      <4>1. m = Len(p) + 1
        <5>1. CASE m = 1
          BY <3>3, <5>1, <2>1
        <5>2. CASE m # 1
          <6>1. m - 1 \in 1 .. Len(steps) /\ m - 1 < m
            BY <5>2
          <6>2. q[m - 1] < q[m] /\ q[m - 1] \in 1 .. N
            BY <6>1
          <6>3. q[m - 1] <= k - 1
            BY <3>3, <6>2
          <6>4. m - 1 <= Len(p)
            BY <2>1, <6>1, <6>3
          <6>. QED BY <2>1, <3>3, <6>4
        <5>. QED BY <5>1, <5>2
      <4>2. Len(p) < Len(steps) /\ log[k].type = steps[Len(p) + 1]
        BY <2>1, <3>3, <4>1
      <4>3. P[k] = Append(p, k)
        BY <2>2, <3>0, <4>2
      <4>4. Len(Append(p, k)) = Len(p) + 1 /\ Append(p, k)[Len(p) + 1] = k
        BY <2>1, AppendType
      <4>. QED BY <3>3, <4>1, <4>3, <4>4
    <3>. QED BY <2>1, <2>5, <3>0, <3>1, <3>2, <3>3
  <2>. QED BY <2>1, <2>5
<1>. HIDE DEF OK
<1>5. 0 .. N \subseteq OK
  BY <1>3, <1>4, UpTo
<1>6. Ahead(P[N], N)
  BY <1>5 DEF OK
<1>. QED BY <1>6 DEF P

\* In a sorted log the window only shrinks with the last event.
LEMMA WithinShrinks ==
    ASSUME NEW log, IsLog(log), NEW window \in Int, NEW i \in 1 .. Len(log),
           NEW j \in 1 .. Len(log), NEW k \in 1 .. Len(log), j <= k,
           Within(window, log[i], log[k])
    PROVE  Within(window, log[i], log[j])
<1>1. log[i].at \in Int /\ log[j].at \in Int /\ log[k].at \in Int /\ log[j].at <= log[k].at
  BY DEF IsLog
<1>. QED BY <1>1 DEF Within

\* A walk that succeeds gives a sequence.
LEMMA WalkIsSequence ==
    ASSUME NEW log, IsLog(log), NEW T, NEW steps \in Seq(T), steps # <<>>, NEW window \in Int,
           NEW start \in 1 .. Len(log), Walks(log, steps, window, start)
    PROVE  LET p == Picked(log, steps, start)[Len(log)]
           IN  /\ p \in [1 .. Len(steps) -> 1 .. Len(log)]
               /\ Len(p) = Len(steps)
               /\ IsSequence(log, steps, window, p)
<1> DEFINE N == Len(log)
           p == Picked(log, steps, start)[N]
<1>1. N \in Nat
  BY DEF IsLog
<1>2. p \in Seq(1 .. N)
  <2>1. Picked(log, steps, start) \in [0 .. N -> Seq(1 .. N)]
    BY <1>1, PickedTable
  <2>. QED BY <1>1, <2>1
<1>3. Fits(log, steps, start, p, N)
  BY <1>1, PickedFits
<1>4. Len(p) = Len(steps) /\ Within(window, log[p[1]], log[p[Len(p)]])
  BY DEF Walks
<1>. HIDE DEF p
<1>5. p \in [1 .. Len(steps) -> 1 .. N]
  BY <1>2, <1>4
<1>6. DOMAIN p = 1 .. Len(p)
  BY <1>2
<1>7. \A m \in 1 .. Len(p) : log[p[m]].type = steps[m]
  BY <1>3 DEF Fits
<1>8. \A m, n \in 1 .. Len(p) : m < n => p[m] < p[n]
  BY <1>3 DEF Fits
<1>9. IsSequence(log, steps, window, p)
  BY <1>4, <1>6, <1>7, <1>8, Zenon DEF IsSequence
<1>. QED BY <1>4, <1>5, <1>9 DEF p

\* Where there is a sequence, the walk from its first event succeeds.
LEMMA SequenceIsWalked ==
    ASSUME NEW log, IsLog(log), NEW T, NEW steps \in Seq(T), steps # <<>>, NEW window \in Int,
           NEW q \in [1 .. Len(steps) -> 1 .. Len(log)], IsSequence(log, steps, window, q)
    PROVE  q[1] \in 1 .. Len(log) /\ Walks(log, steps, window, q[1])
<1> DEFINE N == Len(log)
           k == Len(steps)
           p == Picked(log, steps, q[1])[N]
<1>1. N \in Nat /\ k \in Nat /\ k >= 1 /\ 1 \in 1 .. k /\ k \in 1 .. k
  BY DEF IsLog
<1>2. q \in Seq(1 .. N) /\ Len(q) = k /\ DOMAIN q = 1 .. k
  BY <1>1
<1>3. q[1] \in 1 .. N /\ q[k] \in 1 .. N
  BY <1>1
<1>4. \A m \in 1 .. k : log[q[m]].type = steps[m]
  BY <1>2 DEF IsSequence
<1>5. \A m, n \in 1 .. k : m < n => q[m] < q[n]
  BY <1>2 DEF IsSequence
<1>6. Within(window, log[q[1]], log[q[k]])
  BY <1>2 DEF IsSequence
<1>7. \A m \in 1 .. k : q[1] <= q[m]
  <2>. TAKE m \in 1 .. k
  <2>1. CASE m = 1
    BY <1>3, <2>1
  <2>2. CASE m # 1
    BY <1>1, <1>3, <1>5, <2>2
  <2>. QED BY <2>1, <2>2
<1>8. \A m \in 1 .. k : m <= Len(p) /\ p[m] <= q[m]
  BY <1>1, <1>3, <1>4, <1>5, <1>7, PickedGreedy
<1>9. p \in Seq(1 .. N) /\ Fits(log, steps, q[1], p, N)
  <2>1. Picked(log, steps, q[1]) \in [0 .. N -> Seq(1 .. N)]
    BY <1>1, <1>3, PickedTable
  <2>2. N \in 0 .. N
    BY <1>1
  <2>. QED BY <1>1, <1>3, <2>1, <2>2, PickedFits
<1>. HIDE DEF p
<1>10. Len(p) = k /\ p[1] = q[1]
  <2>1. Len(p) <= k /\ Len(p) \in Nat
    BY <1>9 DEF Fits
  <2>2. log[q[1]].type = steps[1]
    BY <1>1, <1>4
  <2>3. p[1] = q[1]
    BY <1>3, <1>9, <2>2 DEF Fits
  <2>. QED BY <1>1, <1>8, <2>1, <2>3
<1>11. p[k] \in 1 .. N /\ p[k] <= q[k]
  BY <1>1, <1>8, <1>9, <1>10
<1>12. Within(window, log[p[1]], log[p[Len(p)]])
  BY <1>3, <1>6, <1>10, <1>11, WithinShrinks
<1>13. log[q[1]].type = steps[1]
  BY <1>1, <1>4
<1>. QED BY <1>3, <1>10, <1>12, <1>13 DEF p, Walks

\* match is a sequence of the log, or <<>> when there is none.
Finds(log, steps, window, match) ==
    /\ match # <<>> <=> HasSequence(log, steps, window)
    /\ match # <<>> => \E p \in [1 .. Len(steps) -> 1 .. Len(log)] :
                          /\ IsSequence(log, steps, window, p)
                          /\ match = [i \in DOMAIN p |-> log[p[i]]]

\* sequenceWalk finds a sequence exactly where there is one.
LEMMA WalkFinds ==
    ASSUME NEW log, IsLog(log), NEW T, NEW steps \in Seq(T), NEW window \in Int
    PROVE  Finds(log, steps, window, sequenceWalk(log, steps, window))
<1> DEFINE N == Len(log)
           starts == {s \in 1 .. N : steps # <<>> /\ Walks(log, steps, window, s)}
           first == CHOOSE s \in starts : \A t \in starts : s <= t
           p == Picked(log, steps, first)[N]
<1>1. sequenceWalk(log, steps, window) = IF starts = {} THEN <<>> ELSE [m \in 1 .. Len(p) |-> log[p[m]]]
  BY DEF sequenceWalk
<1>2. CASE starts = {}
  <2>1. sequenceWalk(log, steps, window) = <<>>
    BY <1>1, <1>2
  <2>2. ~HasSequence(log, steps, window)
    <3>. SUFFICES ASSUME steps # <<>>, NEW q \in [1 .. Len(steps) -> 1 .. N],
                         IsSequence(log, steps, window, q)
                  PROVE  FALSE
      BY DEF HasSequence
    <3>1. q[1] \in 1 .. N /\ Walks(log, steps, window, q[1])
      BY SequenceIsWalked
    <3>. QED BY <1>2, <3>1
  <2>. QED BY <2>1, <2>2 DEF Finds
<1>3. CASE starts # {}
  <2>1. first \in starts
    <3>1. starts \in SUBSET Nat
      OBVIOUS
    <3>. HIDE DEF starts
    <3>2. \E s \in starts : \A t \in starts : s <= t
      BY <1>3, <3>1, LeastNumber
    <3>. QED BY <3>2
  <2>2. steps # <<>> /\ first \in 1 .. N /\ Walks(log, steps, window, first)
    BY <2>1
  <2>. HIDE DEF first, starts
  <2>3. p \in [1 .. Len(steps) -> 1 .. N] /\ Len(p) = Len(steps) /\ IsSequence(log, steps, window, p)
    BY <2>2, WalkIsSequence
  <2>. HIDE DEF p
  <2>4. HasSequence(log, steps, window)
    BY <2>2, <2>3 DEF HasSequence
  <2>5. sequenceWalk(log, steps, window) = [i \in DOMAIN p |-> log[p[i]]]
    BY <1>1, <1>3, <2>3
  <2>6. sequenceWalk(log, steps, window) # <<>>
    <3>1. Len(steps) \in Nat /\ Len(steps) >= 1
      BY <2>2
    <3>2. 1 \in DOMAIN sequenceWalk(log, steps, window)
      BY <2>3, <2>5, <3>1
    <3>. QED BY <3>2
  <2>. QED BY <2>3, <2>4, <2>5, <2>6 DEF Finds
<1>. QED BY <1>2, <1>3

----------------------------------------------------------------------------
(* clusterScan                                                             *)

\* A cluster from i reaches exactly to the last event within the window.
LEMMA ReachIsMaximal ==
    ASSUME NEW log, IsLog(log), NEW window \in Int, NEW i \in 1 .. Len(log)
    PROVE  LET j == Reach(log, window, i)
           IN  /\ j \in i .. Len(log)
               /\ \A k \in i .. j : Within(window, log[i], log[k])
               /\ j < Len(log) => ~Within(window, log[i], log[j + 1])
<1> DEFINE N == Len(log)
           T == {j \in i .. N : j < N => ~Within(window, log[i], log[j + 1])}
<1>1. N \in Nat /\ i \in Nat
  BY DEF IsLog
<1>2. T \in SUBSET Nat /\ N \in T
  BY <1>1
<1>. HIDE DEF T
<1>3. PICK m \in T : \A n \in T : m <= n
  BY <1>2, LeastNumber
<1>4. m \in i .. N /\ (m < N => ~Within(window, log[i], log[m + 1]))
  BY <1>3 DEF T
<1>5. ASSUME NEW k \in i .. m PROVE Within(window, log[i], log[k])
  <2>1. CASE k = i
    <3>1. log[i].at \in Int
      BY DEF IsLog
    <3>. QED BY <2>1, <3>1 DEF Within
  <2>2. CASE k # i
    <3>1. k - 1 \in i .. N /\ k - 1 < N /\ k - 1 < m /\ (k - 1) + 1 = k
      BY <1>1, <1>4, <2>2
    <3>2. k - 1 \notin T
      BY <1>1, <1>3, <1>4, <3>1
    <3>. QED BY <3>1, <3>2 DEF T
  <2>. QED BY <2>1, <2>2
<1>6. \E j \in i .. N :
         /\ \A k \in i .. j : Within(window, log[i], log[k])
         /\ j < N => ~Within(window, log[i], log[j + 1])
  BY <1>4, <1>5
<1>. QED BY <1>6 DEF Reach

\* The loop of clusterScan, step by step.
LEMMA ScannedTable ==
    ASSUME NEW log, IsLog(log), NEW window \in Int, NEW size \in Int
    PROVE  LET P == Scanned(log, window, size)
           IN  /\ P \in [0 .. Len(log) -> [next : Nat, out : Seq((1 .. Len(log)) \X (1 .. Len(log)))]]
               /\ P[0] = [next |-> 1, out |-> <<>>]
               /\ \A i \in 1 .. Len(log) :
                     P[i] = IF i < P[i - 1].next \/ Reach(log, window, i) - i + 1 < size THEN P[i - 1]
                            ELSE [next |-> Reach(log, window, i) + 1,
                                  out |-> Append(P[i - 1].out, <<i, Reach(log, window, i)>>)]
<1> DEFINE N == Len(log)
           C == (1 .. N) \X (1 .. N)
           S == [next : Nat, out : Seq(C)]
           base == [next |-> 1, out |-> <<>>]
           Next1(x, i) == IF i < x.next \/ Reach(log, window, i) - i + 1 < size THEN x
                          ELSE [next |-> Reach(log, window, i) + 1,
                                out |-> Append(x.out, <<i, Reach(log, window, i)>>)]
           step == [y \in S \X (1 .. N) |-> Next1(y[1], y[2])]
           Good(f) == f = [i \in 0 .. N |-> IF i = 0 THEN base ELSE Next1(f[i - 1], i)]
           P == Scanned(log, window, size)
<1>0. N \in Nat
  BY DEF IsLog
<1>1. ASSUME NEW x \in S, NEW i \in 1 .. N PROVE Next1(x, i) \in S
  <2>1. Reach(log, window, i) \in 1 .. N /\ Reach(log, window, i) + 1 \in Nat
    <3>1. Reach(log, window, i) \in i .. N
      BY ReachIsMaximal
    <3>. QED BY <1>0, <3>1
  <2>2. <<i, Reach(log, window, i)>> \in C
    BY <2>1
  <2>3. x.out \in Seq(C) /\ x.next \in Nat
    OBVIOUS
  <2>. HIDE DEF C
  <2>4. Append(x.out, <<i, Reach(log, window, i)>>) \in Seq(C)
    BY <2>2, <2>3, AppendType
  <2>. QED BY <2>1, <2>4
<1>2. base \in S
  OBVIOUS
<1>3. step \in [S \X (1 .. N) -> S]
  <2>. HIDE DEF S, Next1
  <2>. QED BY <1>1
<1>. HIDE DEF S, base, Next1
<1>4. \E g : Solves(g, S, base, N, step)
  <2>. HIDE DEF step
  <2>. QED BY <1>0, <1>2, <1>3, Recursion, Zenon
<1>5. PICK g \in [0 .. N -> S] : g[0] = base /\ \A n \in 1 .. N : g[n] = step[<<g[n - 1], n>>]
  BY <1>4 DEF Solves
<1>6. Good(g)
  <2>1. ASSUME NEW i \in 0 .. N PROVE g[i] = IF i = 0 THEN base ELSE Next1(g[i - 1], i)
    <3>1. CASE i = 0
      BY <3>1, <1>5
    <3>2. CASE i # 0
      <4>1. i \in 1 .. N /\ i - 1 \in 0 .. N
        BY <3>2
      <4>2. <<g[i - 1], i>> \in S \X (1 .. N)
        BY <4>1, <1>5
      <4>. QED BY <3>2, <4>1, <4>2, <1>5
    <3>. QED BY <3>1, <3>2
  <2>. QED BY <2>1, <1>5
<1>7. P = CHOOSE f : Good(f)
  BY DEF Scanned, base, Next1
<1>. HIDE DEF Good, P
<1>8. Good(P)
  BY <1>6, <1>7
<1>9. P[0] = base /\ \A i \in 1 .. N : P[i] = Next1(P[i - 1], i)
  BY <1>0, <1>8 DEF Good
<1>10. 0 .. N \subseteq {i \in 0 .. N : P[i] \in S}
  <2> DEFINE OK == {i \in 0 .. N : P[i] \in S}
  <2>1. 0 \in OK
    BY <1>0, <1>9, <1>2
  <2>2. ASSUME NEW n \in 1 .. N, n - 1 \in OK PROVE n \in OK
    BY <1>9, <1>1, <2>2
  <2>. HIDE DEF OK
  <2>3. 0 .. N \subseteq OK
    BY <1>0, <2>1, <2>2, UpTo
  <2>. QED BY <2>3 DEF OK
<1>11. P = [i \in 0 .. N |-> P[i]]
  BY <1>8 DEF Good
<1>12. P \in [0 .. N -> S]
  BY <1>10, <1>11
<1>. QED BY <1>9, <1>12 DEF S, P, base, Next1

\* A cluster <<a, b>>: within the window, large enough and not extensible.
IsCluster(log, window, size, c) ==
    /\ c[1] \in 1 .. Len(log) /\ c[2] \in c[1] .. Len(log)
    /\ Within(window, log[c[1]], log[c[2]])
    /\ c[2] - c[1] + 1 >= size
    /\ c[2] < Len(log) => ~Within(window, log[c[1]], log[c[2] + 1])

\* The crowd a .. b shares an event with a cluster.
Met(out, a, b) == \E k \in 1 .. Len(out) : out[k][1] <= b /\ a <= out[k][2]

\* What the scan has established after the first i starts.
ScanOK(log, window, size, next, out, i) ==
    /\ \A k \in 1 .. Len(out) : IsCluster(log, window, size, out[k])
    /\ \A k \in 1 .. Len(out) - 1 : out[k][2] < out[k + 1][1]
    /\ IF Len(out) = 0 THEN next = 1
       ELSE next = out[Len(out)][2] + 1 /\ out[Len(out)][1] <= i
    /\ \A a \in 1 .. i : \A b \in a .. Len(log) :
          b - a + 1 >= size /\ Within(window, log[a], log[b]) => Met(out, a, b)

\* A start that is passed over: it lies in the last cluster or has no crowd.
LEMMA ScanPasses ==
    ASSUME NEW log, IsLog(log), NEW window \in Int, NEW size \in Int, NEW i \in 1 .. Len(log),
           NEW next \in Nat, NEW out \in Seq((1 .. Len(log)) \X (1 .. Len(log))),
           ScanOK(log, window, size, next, out, i - 1),
           i < next \/ Reach(log, window, i) - i + 1 < size
    PROVE  ScanOK(log, window, size, next, out, i)
<1> DEFINE N == Len(log)
           j == Reach(log, window, i)
<1>0. N \in Nat /\ Len(out) \in Nat
  BY DEF IsLog
<1>1. /\ j \in i .. N
      /\ \A k \in i .. j : Within(window, log[i], log[k])
      /\ j < N => ~Within(window, log[i], log[j + 1])
  BY ReachIsMaximal
<1>. HIDE DEF j
<1>2. ASSUME NEW b \in i .. N, b - i + 1 >= size, Within(window, log[i], log[b])
      PROVE  Met(out, i, b)
  <2>1. CASE i < next
    <3>1. Len(out) # 0
      BY <2>1 DEF ScanOK
    <3>2. Len(out) \in 1 .. Len(out)
      BY <1>0, <3>1
    <3>3. out[Len(out)] \in (1 .. N) \X (1 .. N)
      BY <3>2
    <3>4. next = out[Len(out)][2] + 1 /\ out[Len(out)][1] <= i - 1
      BY <3>1 DEF ScanOK
    <3>5. out[Len(out)][1] <= b /\ i <= out[Len(out)][2]
      BY <1>0, <2>1, <3>3, <3>4
    <3>. QED BY <3>2, <3>5 DEF Met
  <2>2. CASE j - i + 1 < size
    <3>1. j < b
      BY <1>0, <1>1, <1>2, <2>2
    <3>2. j + 1 \in 1 .. N /\ j + 1 <= b /\ j < N /\ b \in 1 .. N
      BY <1>0, <1>1, <3>1
    <3>3. Within(window, log[i], log[j + 1])
      BY <1>2, <3>2, WithinShrinks
    <3>. QED BY <1>1, <3>2, <3>3
  <2>. QED BY <2>1, <2>2 DEF j
<1>3. ASSUME NEW a \in 1 .. i, NEW b \in a .. N, b - a + 1 >= size, Within(window, log[a], log[b])
      PROVE  Met(out, a, b)
  <2>1. CASE a = i
    BY <1>2, <1>3, <2>1
  <2>2. CASE a # i
    <3>1. a \in 1 .. i - 1
      BY <2>2
    <3>. QED BY <1>3, <3>1 DEF ScanOK
  <2>. QED BY <2>1, <2>2
<1>4. IF Len(out) = 0 THEN next = 1 ELSE next = out[Len(out)][2] + 1 /\ out[Len(out)][1] <= i
  <2>1. CASE Len(out) = 0
    BY <2>1 DEF ScanOK
  <2>2. CASE Len(out) # 0
    <3>1. next = out[Len(out)][2] + 1 /\ out[Len(out)][1] <= i - 1
      BY <2>2 DEF ScanOK
    <3>2. out[Len(out)] \in (1 .. N) \X (1 .. N)
      BY <1>0, <2>2
    <3>. QED BY <2>2, <3>1, <3>2
  <2>. QED BY <2>1, <2>2
<1>5. (\A k \in 1 .. Len(out) : IsCluster(log, window, size, out[k]))
      /\ \A k \in 1 .. Len(out) - 1 : out[k][2] < out[k + 1][1]
  BY DEF ScanOK
<1>. QED BY <1>3, <1>4, <1>5, Zenon DEF ScanOK

\* A start that begins a cluster.
LEMMA ScanExtends ==
    ASSUME NEW log, IsLog(log), NEW window \in Int, NEW size \in Int, NEW i \in 1 .. Len(log),
           NEW next \in Nat, NEW out \in Seq((1 .. Len(log)) \X (1 .. Len(log))),
           ScanOK(log, window, size, next, out, i - 1),
           ~(i < next), ~(Reach(log, window, i) - i + 1 < size)
    PROVE  ScanOK(log, window, size, Reach(log, window, i) + 1,
                  Append(out, <<i, Reach(log, window, i)>>), i)
<1> DEFINE N == Len(log)
           n == Len(out)
           j == Reach(log, window, i)
           new == Append(out, <<i, j>>)
<1>0. N \in Nat /\ n \in Nat /\ \A k \in 1 .. n : out[k] \in (1 .. N) \X (1 .. N)
  BY DEF IsLog
<1>1. /\ j \in i .. N
      /\ \A k \in i .. j : Within(window, log[i], log[k])
      /\ j < N => ~Within(window, log[i], log[j + 1])
  BY ReachIsMaximal
<1>2. Len(new) = n + 1 /\ new[n + 1] = <<i, j>> /\ \A k \in 1 .. n : new[k] = out[k]
  <2>1. <<i, j>> \in (1 .. N) \X (1 .. N)
    BY <1>0, <1>1
  <2>. QED BY <2>1, AppendType
<1>3. IsCluster(log, window, size, <<i, j>>)
  <2>1. j \in i .. j /\ j - i + 1 >= size
    BY <1>0, <1>1
  <2>. QED BY <1>1, <2>1 DEF IsCluster
<1>. HIDE DEF new, j
<1>4. \A k \in 1 .. Len(new) : IsCluster(log, window, size, new[k])
  <2>. TAKE k \in 1 .. Len(new)
  <2>1. CASE k = n + 1
    BY <1>2, <1>3, <2>1
  <2>2. CASE k # n + 1
    <3>1. k \in 1 .. n
      BY <1>0, <1>2, <2>2
    <3>. QED BY <1>2, <3>1 DEF ScanOK
  <2>. QED BY <2>1, <2>2
<1>5. \A k \in 1 .. Len(new) - 1 : new[k][2] < new[k + 1][1]
  <2>. TAKE k \in 1 .. Len(new) - 1
  <2>1. k \in 1 .. n /\ new[k] = out[k]
    BY <1>0, <1>2
  <2>2. CASE k = n
    <3>1. next = out[n][2] + 1 /\ out[n] \in (1 .. N) \X (1 .. N)
      BY <1>0, <2>1, <2>2 DEF ScanOK
    <3>. QED BY <1>2, <2>1, <2>2, <3>1
  <2>3. CASE k # n
    <3>1. k \in 1 .. n - 1 /\ k + 1 \in 1 .. n
      BY <1>0, <2>1, <2>3
    <3>. QED BY <1>2, <2>1, <3>1 DEF ScanOK
  <2>. QED BY <2>2, <2>3
<1>6. ASSUME NEW a \in 1 .. i, NEW b \in a .. N, b - a + 1 >= size, Within(window, log[a], log[b])
      PROVE  Met(new, a, b)
  <2>1. CASE a = i
    <3>1. n + 1 \in 1 .. Len(new) /\ new[n + 1][1] <= b /\ a <= new[n + 1][2]
      BY <1>0, <1>1, <1>2, <2>1
    <3>. QED BY <3>1 DEF Met
  <2>2. CASE a # i
    <3>1. a \in 1 .. i - 1
      BY <2>2
    <3>2. Met(out, a, b)
      BY <1>6, <3>1 DEF ScanOK
    <3>3. PICK k \in 1 .. n : out[k][1] <= b /\ a <= out[k][2]
      BY <3>2 DEF Met
    <3>4. k \in 1 .. Len(new) /\ new[k] = out[k]
      BY <1>0, <1>2
    <3>. QED BY <3>3, <3>4 DEF Met
  <2>. QED BY <2>1, <2>2
<1>7. IF Len(new) = 0 THEN j + 1 = 1 ELSE j + 1 = new[Len(new)][2] + 1 /\ new[Len(new)][1] <= i
  BY <1>0, <1>2
<1>8. ScanOK(log, window, size, j + 1, new, i)
  BY <1>4, <1>5, <1>6, <1>7, Zenon DEF ScanOK
<1>. QED BY <1>8 DEF new, j

\* clusterScan finds clusters as IsClustering describes them.
LEMMA ScanFinds ==
    ASSUME NEW log, IsLog(log), NEW window \in Int, NEW minSize \in Int
    PROVE  IsClustering(log, window, AtLeastOne(minSize), clusterScan(log, window, minSize))
<1> DEFINE N == Len(log)
           size == AtLeastOne(minSize)
           P == Scanned(log, window, size)
           OK == {i \in 0 .. N : ScanOK(log, window, size, P[i].next, P[i].out, i)}
<1>0. N \in Nat /\ size \in Int
  BY DEF IsLog, AtLeastOne
<1>1. /\ P \in [0 .. N -> [next : Nat, out : Seq((1 .. N) \X (1 .. N))]]
      /\ P[0] = [next |-> 1, out |-> <<>>]
      /\ \A i \in 1 .. N :
            P[i] = IF i < P[i - 1].next \/ Reach(log, window, i) - i + 1 < size THEN P[i - 1]
                   ELSE [next |-> Reach(log, window, i) + 1,
                         out |-> Append(P[i - 1].out, <<i, Reach(log, window, i)>>)]
  BY <1>0, ScannedTable
<1>. HIDE DEF P, size
<1>2. 0 \in OK
  <2>1. ScanOK(log, window, size, 1, <<>>, 0)
    BY DEF ScanOK
  <2>. QED BY <1>0, <1>1, <2>1
<1>3. ASSUME NEW i \in 1 .. N, i - 1 \in OK PROVE i \in OK
  <2> DEFINE next == P[i - 1].next
             out == P[i - 1].out
             j == Reach(log, window, i)
  <2>1. next \in Nat /\ out \in Seq((1 .. N) \X (1 .. N))
    <3>1. i - 1 \in 0 .. N
      BY <1>0
    <3>. QED BY <1>1, <3>1
  <2>2. ScanOK(log, window, size, next, out, i - 1)
    BY <1>3
  <2>3. P[i] = IF i < next \/ j - i + 1 < size THEN P[i - 1]
               ELSE [next |-> j + 1, out |-> Append(out, <<i, j>>)]
    BY <1>1, Zenon
  <2>. HIDE DEF next, out, j
  <2>4. CASE i < next \/ j - i + 1 < size
    <3>1. ScanOK(log, window, size, next, out, i)
      BY <1>0, <2>1, <2>2, <2>4, ScanPasses DEF j
    <3>. QED BY <1>0, <2>3, <2>4, <3>1 DEF next, out
  <2>5. CASE ~(i < next \/ j - i + 1 < size)
    <3>1. ScanOK(log, window, size, j + 1, Append(out, <<i, j>>), i)
      BY <1>0, <2>1, <2>2, <2>5, ScanExtends DEF j
    <3>2. P[i].next = j + 1 /\ P[i].out = Append(out, <<i, j>>)
      BY <2>3, <2>5
    <3>3. ScanOK(log, window, size, P[i].next, P[i].out, i)
      BY <3>1, <3>2, Zenon
    <3>. QED BY <1>0, <3>3
  <2>. QED BY <2>4, <2>5
<1>. HIDE DEF OK
<1>4. 0 .. N \subseteq OK
  BY <1>0, <1>2, <1>3, UpTo
<1> DEFINE next == P[N].next
           out == P[N].out
<1>5. ScanOK(log, window, size, next, out, N)
  BY <1>0, <1>4 DEF OK
<1>6. clusterScan(log, window, minSize) = out /\ out \in Seq((1 .. N) \X (1 .. N)) /\ Len(out) \in Nat
  <2>1. N \in 0 .. N
    BY <1>0
  <2>2. out \in Seq((1 .. N) \X (1 .. N))
    BY <1>1, <2>1
  <2>. QED BY <2>2 DEF clusterScan, P, size
<1>. HIDE DEF next, out
<1>7. ASSUME NEW k \in 1 .. Len(out)
      PROVE  /\ Within(window, log[out[k][1]], log[out[k][2]])
             /\ out[k][2] - out[k][1] + 1 >= size
             /\ out[k][2] < N => ~Within(window, log[out[k][1]], log[out[k][2] + 1])
             /\ k < Len(out) => out[k][2] < out[k + 1][1]
  <2>1. IsCluster(log, window, size, out[k])
    BY <1>5 DEF ScanOK
  <2>2. k < Len(out) => out[k][2] < out[k + 1][1]
    BY <1>5, <1>6 DEF ScanOK
  <2>. QED BY <2>1, <2>2 DEF IsCluster
<1>8. ASSUME NEW i \in 1 .. N, NEW j \in 1 .. N,
             i <= j, j - i + 1 >= size, Within(window, log[i], log[j])
      PROVE  \E k \in 1 .. Len(out) : out[k][1] <= j /\ i <= out[k][2]
  <2>1. j \in i .. N
    BY <1>8
  <2>. QED BY <1>5, <1>8, <2>1 DEF ScanOK, Met
<1>9. IsClustering(log, window, size, out)
  BY <1>7, <1>8, Zenon DEF IsClustering
<1>. QED BY <1>6, <1>9 DEF size

----------------------------------------------------------------------------
(* The logs sort.Slice can leave.                                          *)

\* A finite set of entries that is not empty has a latest one.
LEMMA LatestEntry ==
    ASSUME NEW E, IsFiniteSet(E), \A e \in E : e.at \in Int, E # {}
    PROVE  \E m \in E : \A e \in E : e.at <= m.at
<1> DEFINE S == {T \in SUBSET E : T = {} \/ \E m \in T : \A e \in T : e.at <= m.at}
<1>1. {} \in S
  OBVIOUS
<1>2. ASSUME NEW T \in SUBSET E, NEW x \in E \ T, T \in S PROVE T \cup {x} \in S
  <2>1. CASE T = {}
    <3>1. \A e \in T \cup {x} : e.at <= x.at
      BY <2>1
    <3>. QED BY <3>1
  <2>2. CASE T # {}
    <3>1. PICK m \in T : \A e \in T : e.at <= m.at
      BY <1>2, <2>2
    <3>2. CASE x.at <= m.at
      BY <3>1, <3>2
    <3>3. CASE ~(x.at <= m.at)
      <4>1. \A e \in T \cup {x} : e.at <= x.at
        BY <3>1, <3>3
      <4>. QED BY <4>1
    <3>. QED BY <3>2, <3>3
  <2>. QED BY <2>1, <2>2
<1>. HIDE DEF S
<1>3. E \in S
  BY <1>1, <1>2, FiniteInduction
<1>. QED BY <1>3 DEF S

\* Every finite set of entries can be sorted.
LEMMA SortedLogsExist ==
    ASSUME NEW E, IsFiniteSet(E), \A e \in E : e.at \in Int
    PROVE  SortedLogs(E) # {}
<1> DEFINE OK == {n \in Nat : \A T \in SUBSET E : Cardinality(T) = n => SortedLogs(T) # {}}
<1>1. 0 \in OK
  <2>. SUFFICES ASSUME NEW T \in SUBSET E, Cardinality(T) = 0 PROVE SortedLogs(T) # {}
    OBVIOUS
  <2>1. [i \in 1 .. 0 |-> i] \in SortedLogs(T)
    BY DEF SortedLogs
  <2>. QED BY <2>1
<1>2. ASSUME NEW n \in Nat, n \in OK PROVE n + 1 \in OK
  <2>. SUFFICES ASSUME NEW T \in SUBSET E, Cardinality(T) = n + 1 PROVE SortedLogs(T) # {}
    OBVIOUS
  <2>1. IsFiniteSet(T) /\ T # {}
    <3>1. IsFiniteSet(T)
      BY FS_Subset
    <3>. QED BY <3>1, FS_EmptySet
  <2>2. PICK m \in T : \A e \in T : e.at <= m.at
    BY <2>1, LatestEntry
  <2>3. Cardinality(T \ {m}) = n /\ T \ {m} \in SUBSET E
    <3>1. Cardinality(T \ {m}) = Cardinality(T) - 1
      BY <2>1, <2>2, FS_RemoveElement
    <3>. QED BY <3>1
  <2>4. PICK q : q \in SortedLogs(T \ {m})
    BY <1>2, <2>3
  <2>5. /\ q \in [1 .. n -> T \ {m}]
        /\ \A i, j \in 1 .. n : i < j => q[i] # q[j] /\ q[i].at <= q[j].at
    BY <2>3, <2>4 DEF SortedLogs
  <2> DEFINE r == [i \in 1 .. n + 1 |-> IF i = n + 1 THEN m ELSE q[i]]
  <2>6. r \in [1 .. n + 1 -> T]
    BY <2>5
  <2>7. ASSUME NEW i \in 1 .. n + 1, NEW j \in 1 .. n + 1, i < j
        PROVE  r[i] # r[j] /\ r[i].at <= r[j].at
    <3>1. i \in 1 .. n /\ r[i] = q[i] /\ q[i] \in T \ {m}
      BY <2>5, <2>7
    <3>2. CASE j = n + 1
      <4>1. r[j] = m
        BY <3>2
      <4>. QED BY <2>2, <3>1, <4>1
    <3>3. CASE j # n + 1
      <4>1. j \in 1 .. n /\ r[j] = q[j]
        BY <3>3
      <4>. QED BY <2>5, <2>7, <3>1, <4>1
    <3>. QED BY <3>2, <3>3
  <2>. HIDE DEF r
  <2>8. r \in SortedLogs(T)
    BY <2>6, <2>7 DEF SortedLogs
  <2>. QED BY <2>8
<1>. HIDE DEF OK
<1>3. Nat \subseteq OK
  BY <1>1, <1>2, SetInduction
<1>4. Cardinality(E) \in Nat
  BY FS_CardinalityType
<1>. QED BY <1>3, <1>4 DEF OK

\* A sorted log holds every entry, each once, in the order of their times.
LEMMA SortedIsLog ==
    ASSUME NEW E, IsFiniteSet(E), \A e \in E : e.at \in Int, NEW q \in SortedLogs(E)
    PROVE  /\ IsLog(q) /\ q \in Seq(E)
           /\ \A i, j \in 1 .. Len(q) : i < j => q[i] # q[j] /\ q[i].at <= q[j].at
           /\ {q[i] : i \in 1 .. Len(q)} = E
<1> DEFINE n == Cardinality(E)
<1>1. n \in Nat
  BY FS_CardinalityType
<1>. HIDE DEF n
<1>2. /\ q \in [1 .. n -> E]
      /\ \A i, j \in 1 .. n : i < j => q[i] # q[j] /\ q[i].at <= q[j].at
  BY DEF SortedLogs, n
<1>3. q \in Seq(E) /\ Len(q) = n /\ DOMAIN q = 1 .. n
  BY <1>1, <1>2
<1>4. \A i \in 1 .. n : q[i] \in E /\ q[i].at \in Int
  BY <1>2
<1>5. ASSUME NEW i \in 1 .. n, NEW j \in 1 .. n, i <= j PROVE q[i].at <= q[j].at
  <2>1. CASE i = j
    BY <1>4, <2>1
  <2>2. CASE i # j
    BY <1>2, <1>5, <2>2
  <2>. QED BY <2>1, <2>2
<1>6. IsLog(q)
  BY <1>1, <1>3, <1>4, <1>5 DEF IsLog
<1>7. ASSUME NEW e \in E, \A i \in 1 .. n : q[i] # e PROVE FALSE
  <2>1. q \in [1 .. n -> E \ {e}]
    BY <1>2, <1>7
  <2>2. IsFiniteSet(E \ {e}) /\ Cardinality(E \ {e}) = n - 1
    BY FS_RemoveElement DEF n
  <2>3. IsFiniteSet(1 .. n) /\ Cardinality(1 .. n) = n
    BY <1>1, FS_Interval
  <2>4. \E x, y \in 1 .. n : x # y /\ q[x] = q[y]
    BY <1>1, <2>1, <2>2, <2>3, FS_PigeonHole
  <2>5. PICK x \in 1 .. n, y \in 1 .. n : x # y /\ q[x] = q[y]
    BY <2>4
  <2>6. x < y \/ y < x
    BY <2>5
  <2>. QED BY <1>2, <2>5, <2>6
<1>8. {q[i] : i \in 1 .. n} = E
  BY <1>4, <1>7
<1>. QED BY <1>2, <1>3, <1>6, <1>8

----------------------------------------------------------------------------
(* The loops of the composer.                                              *)

\* A binding gives values to some variables of the query.
LEMMA BindingIs ==
    ASSUME NEW q, NEW values, NEW b
    PROVE  b \in Binding(q, values) <=> DOMAIN b \subseteq Variables(q) /\ b \in [DOMAIN b -> values]
BY DEF Binding

\* Bind adds one variable to a binding.
LEMMA BindTyped ==
    ASSUME NEW q, NEW values, NEW b \in Binding(q, values), NEW v \in Variables(q), NEW x \in values
    PROVE  Bind(b, v, x) \in Binding(q, values) /\ DOMAIN Bind(b, v, x) = DOMAIN b \cup {v}
<1>1. DOMAIN b \subseteq Variables(q) /\ b \in [DOMAIN b -> values]
  BY BindingIs
<1>2. Bind(b, v, x) \in [DOMAIN b \cup {v} -> values] /\ DOMAIN b \cup {v} \subseteq Variables(q)
  BY <1>1 DEF Bind
<1>3. DOMAIN Bind(b, v, x) = DOMAIN b \cup {v}
  BY DEF Bind
<1>. QED BY <1>2, <1>3, BindingIs

\* The variable of a pattern is one of its list and of the query.
LEMMA PatternVarIsVariable ==
    ASSUME NEW q, NEW l \in 1 .. Len(q), NEW i \in 1 .. Len(q[l]), q[l][i].kind = "pattern",
           ~IsLiteral(q[l][i].value), IsVar(q[l][i].value)
    PROVE  q[l][i].value.var \in ListVars(q, l) /\ q[l][i].value.var \in Variables(q)
<1>1. q[l][i].value.var \in ListVars(q, l)
  BY DEF ListVars, PatternVars, IsVar
<1>. QED BY <1>1, Zenon DEF Variables

\* Every clause takes a binding to bindings.
LEMMA MatchOneTyped ==
    ASSUME NEW q, IsQuery(q), NEW attrs, NEW values, \A a \in attrs : a.val \in values,
           NEW l \in 1 .. Len(q), NEW i \in 1 .. Len(q[l]), NEW nested,
           \A m \in l + 1 .. Len(q) : nested[m] \in [Binding(q, values) -> SUBSET Binding(q, values)],
           NEW b \in Binding(q, values)
    PROVE  matchOneQuery(q[l][i], attrs, b, nested) \in SUBSET Binding(q, values)
<1> DEFINE c == q[l][i]
           B == Binding(q, values)
<1>0. c.kind = "or" => c.branches \in Seq(l + 1 .. Len(q))
  BY DEF IsQuery
<1>1. \A t : If(t, b) \in SUBSET B
  BY DEF If
<1>2. CASE c.kind = "pattern"
  <2>1. matchOneQuery(c, attrs, b, nested) = matchQueryPattern(c, attrs, b)
    BY <1>2 DEF matchOneQuery
  <2>2. ASSUME NEW a \in attrs, ~IsLiteral(c.value), IsVar(c.value) PROVE Bind(b, c.value.var, a.val) \in B
    BY <1>2, <2>2, BindTyped, PatternVarIsVariable
  <2>. HIDE DEF B, c
  <2>3. matchQueryPattern(c, attrs, b) \in SUBSET B
    BY <1>1, <2>2 DEF matchQueryPattern, B
  <2>. QED BY <2>1, <2>3 DEF B, c
<1>3. CASE c.kind = "predicate"
  BY <1>1, <1>3 DEF matchOneQuery, matchQueryPredicate
<1>4. CASE c.kind = "or"
  <2> DEFINE hit == {k \in 1 .. Len(c.branches) : nested[c.branches[k]][b] # {}}
             first == CHOOSE k \in hit : \A j \in hit : k <= j
  <2>1. matchOneQuery(c, attrs, b, nested) = IF hit = {} THEN {} ELSE nested[c.branches[first]][b]
    BY <1>4 DEF matchOneQuery, matchQueryOr
  <2>2. hit # {} => first \in hit
    <3>1. hit \in SUBSET Nat
      OBVIOUS
    <3>. HIDE DEF hit
    <3>. QED BY <3>1, LeastNumber
  <2>3. ASSUME hit # {} PROVE nested[c.branches[first]][b] \in SUBSET B
    <3>1. first \in 1 .. Len(c.branches)
      BY <2>2, <2>3
    <3>2. c.branches[first] \in l + 1 .. Len(q)
      <4>. HIDE DEF first, c
      <4>. QED BY <1>0, <1>4, <3>1, ElementOfSeq
    <3>. QED BY <3>2
  <2>. QED BY <2>1, <2>3
<1>5. CASE c.kind = "not"
  BY <1>1, <1>5 DEF matchOneQuery, matchQueryNot
<1>6. CASE c.kind = "fulltext"
  BY <1>1, <1>6 DEF matchOneQuery
<1>7. CASE c.kind \notin {"pattern", "predicate", "or", "not", "fulltext"}
  BY <1>7 DEF matchOneQuery
<1>. QED BY <1>2, <1>3, <1>4, <1>5, <1>6, <1>7

\* Two tables that are the same for the lists after l.
AgreeAfter(q, nested, other, l) == \A m \in l + 1 .. Len(q) : nested[m] = other[m]

\* A clause does the same with both.
SameWith(c, attrs, nested, other) ==
    \A b : matchOneQuery(c, attrs, b, nested) = matchOneQuery(c, attrs, b, other)

\* What a clause does depends on later lists only.
LEMMA MatchOneDepends ==
    ASSUME NEW q, IsQuery(q), NEW attrs, NEW l \in 1 .. Len(q), NEW i \in 1 .. Len(q[l]),
           NEW nested, NEW other, AgreeAfter(q, nested, other, l)
    PROVE  SameWith(q[l][i], attrs, nested, other)
<1>. SUFFICES ASSUME NEW b
              PROVE  matchOneQuery(q[l][i], attrs, b, nested) = matchOneQuery(q[l][i], attrs, b, other)
  BY DEF SameWith
<1> DEFINE c == q[l][i]
<1>1. c.kind = "or" => c.branches \in Seq(l + 1 .. Len(q))
  BY DEF IsQuery
<1>2. c.kind = "not" => c.body \in l + 1 .. Len(q)
  BY DEF IsQuery
<1>3. CASE c.kind = "or"
  <2> DEFINE hit(n) == {k \in 1 .. Len(c.branches) : n[c.branches[k]][b] # {}}
             first(n) == CHOOSE k \in hit(n) : \A j \in hit(n) : k <= j
  <2>1. \A n : matchOneQuery(c, attrs, b, n) = IF hit(n) = {} THEN {} ELSE n[c.branches[first(n)]][b]
    BY <1>3 DEF matchOneQuery, matchQueryOr
  <2>2. \A k \in 1 .. Len(c.branches) : nested[c.branches[k]] = other[c.branches[k]]
    <3>. HIDE DEF c
    <3>1. \A k \in 1 .. Len(c.branches) : c.branches[k] \in l + 1 .. Len(q)
      BY <1>1, <1>3, ElementOfSeq
    <3>. QED BY <3>1, Zenon DEF AgreeAfter
  <2>3. hit(nested) = hit(other)
    BY <2>2
  <2>4. first(nested) = first(other)
    BY <2>3
  <2>5. hit(nested) # {} => first(nested) \in 1 .. Len(c.branches)
    <3>1. hit(nested) \in SUBSET Nat
      OBVIOUS
    <3> DEFINE h == hit(nested)
    <3>2. h # {} => \E k \in h : \A j \in h : k <= j
      <4>. HIDE DEF h
      <4>. QED BY <3>1, LeastNumber DEF h
    <3>3. h # {} => first(nested) \in h
      BY <3>2
    <3>. QED BY <3>3
  <2>. HIDE DEF hit, first
  <2>. QED BY <2>1, <2>2, <2>3, <2>4, <2>5
<1>4. CASE c.kind = "not"
  BY <1>2, <1>4 DEF matchOneQuery, matchQueryNot, AgreeAfter
<1>5. CASE c.kind \notin {"or", "not"}
  BY <1>5 DEF matchOneQuery
<1>. QED BY <1>3, <1>4, <1>5

\* The lists after l, as far as they matter to l.
TypedAfter(q, values, nested, l) ==
    \A m \in l + 1 .. Len(q) : nested[m] \in [Binding(q, values) -> SUBSET Binding(q, values)]

\* A clause applied to every binding of a set.
Through(c, attrs, X, nested) == UNION {matchOneQuery(c, attrs, x, nested) : x \in X}

\* W is the loop over the clauses of list l, step by step.
IsWalk(W, q, attrs, values, b, nested, l) ==
    /\ W \in [0 .. Len(q[l]) -> SUBSET Binding(q, values)]
    /\ W[0] = {b}
    /\ \A i \in 1 .. Len(q[l]) : W[i] = Through(q[l][i], attrs, W[i - 1], nested)

\* The loop over the clauses of a list runs clause by clause.
LEMMA WalkTable ==
    ASSUME NEW q, IsQuery(q), NEW attrs, NEW values, \A a \in attrs : a.val \in values,
           NEW l \in 1 .. Len(q), NEW nested, TypedAfter(q, values, nested, l),
           NEW b \in Binding(q, values)
    PROVE  IsWalk(matchAllQuery(q[l], attrs, b, nested), q, attrs, values, b, nested, l)
<1> DEFINE N == Len(q[l])
           S == SUBSET Binding(q, values)
           base == {b}
           Next1(X, i) == Through(q[l][i], attrs, X, nested)
           step == [y \in S \X (1 .. N) |-> Next1(y[1], y[2])]
           Good(f) == f = [i \in 0 .. N |-> IF i = 0 THEN base ELSE Next1(f[i - 1], i)]
           P == matchAllQuery(q[l], attrs, b, nested)
<1>0. N \in Nat
  BY DEF IsQuery
<1>1. ASSUME NEW X \in S, NEW i \in 1 .. N PROVE Next1(X, i) \in S
  <2>1. ASSUME NEW x \in X PROVE matchOneQuery(q[l][i], attrs, x, nested) \in S
    BY MatchOneTyped DEF TypedAfter
  <2>. QED BY <2>1 DEF Through
<1>2. base \in S
  OBVIOUS
<1>3. step \in [S \X (1 .. N) -> S]
  <2>. HIDE DEF S, Next1
  <2>. QED BY <1>1
<1>. HIDE DEF S, base, Next1
<1>4. \E g : Solves(g, S, base, N, step)
  <2>. HIDE DEF step
  <2>. QED BY <1>0, <1>2, <1>3, Recursion, Zenon
<1>5. PICK g \in [0 .. N -> S] : g[0] = base /\ \A n \in 1 .. N : g[n] = step[<<g[n - 1], n>>]
  BY <1>4 DEF Solves
<1>6. Good(g)
  <2>1. ASSUME NEW i \in 0 .. N PROVE g[i] = IF i = 0 THEN base ELSE Next1(g[i - 1], i)
    <3>1. CASE i = 0
      BY <3>1, <1>5
    <3>2. CASE i # 0
      <4>1. i \in 1 .. N /\ i - 1 \in 0 .. N
        BY <3>2
      <4>2. <<g[i - 1], i>> \in S \X (1 .. N)
        BY <4>1, <1>5
      <4>. QED BY <3>2, <4>1, <4>2, <1>5
    <3>. QED BY <3>1, <3>2
  <2>. QED BY <2>1, <1>5
<1>7. P = CHOOSE f : Good(f)
  BY DEF matchAllQuery, base, Next1, Through
<1>. HIDE DEF Good, P, N
<1>8. Good(P)
  BY <1>6, <1>7
<1>9. P[0] = base /\ \A i \in 1 .. N : P[i] = Next1(P[i - 1], i)
  BY <1>0, <1>8 DEF Good
<1>10. 0 .. N \subseteq {i \in 0 .. N : P[i] \in S}
  <2> DEFINE OK == {i \in 0 .. N : P[i] \in S}
  <2>1. 0 \in OK
    BY <1>0, <1>9, <1>2
  <2>2. ASSUME NEW n \in 1 .. N, n - 1 \in OK PROVE n \in OK
    BY <1>9, <1>1, <2>2
  <2>. HIDE DEF OK
  <2>3. 0 .. N \subseteq OK
    BY <1>0, <2>1, <2>2, UpTo
  <2>. QED BY <2>3 DEF OK
<1>11. P = [i \in 0 .. N |-> P[i]]
  BY <1>8 DEF Good
<1>12. P \in [0 .. N -> S]
  BY <1>10, <1>11
<1>. QED BY <1>9, <1>12, Zenon DEF S, P, base, Next1, N, IsWalk

\* What a list does to bindings.
Does(q, attrs, b, nested, l) == matchAllQuery(q[l], attrs, b, nested)[Len(q[l])]

\* What a list does to a binding is a set of bindings.
LEMMA DoesTyped ==
    ASSUME NEW q, IsQuery(q), NEW attrs, NEW values, \A a \in attrs : a.val \in values,
           NEW l \in 1 .. Len(q), NEW nested, TypedAfter(q, values, nested, l),
           NEW b \in Binding(q, values)
    PROVE  Does(q, attrs, b, nested, l) \in SUBSET Binding(q, values)
<1>1. Len(q[l]) \in 0 .. Len(q[l])
  BY DEF IsQuery
<1>2. IsWalk(matchAllQuery(q[l], attrs, b, nested), q, attrs, values, b, nested, l)
  BY WalkTable
<1>3. matchAllQuery(q[l], attrs, b, nested) \in [0 .. Len(q[l]) -> SUBSET Binding(q, values)]
  BY <1>2 DEF IsWalk
<1>. QED BY <1>1, <1>3 DEF Does

\* It depends on the later lists only.
LEMMA DoesDepends ==
    ASSUME NEW q, IsQuery(q), NEW attrs, NEW values, \A a \in attrs : a.val \in values,
           NEW l \in 1 .. Len(q), NEW nested, TypedAfter(q, values, nested, l),
           NEW other, AgreeAfter(q, nested, other, l), NEW b \in Binding(q, values)
    PROVE  Does(q, attrs, b, nested, l) = Does(q, attrs, b, other, l)
<1> DEFINE N == Len(q[l])
           V == matchAllQuery(q[l], attrs, b, nested)
           W == matchAllQuery(q[l], attrs, b, other)
           OK == {i \in 0 .. N : V[i] = W[i]}
<1>0. N \in Nat
  BY DEF IsQuery
<1>1. TypedAfter(q, values, other, l)
  BY DEF TypedAfter, AgreeAfter
<1>2. IsWalk(V, q, attrs, values, b, nested, l) /\ IsWalk(W, q, attrs, values, b, other, l)
  BY <1>1, WalkTable
<1>. HIDE DEF V, W
<1>3. V[0] = W[0]
  BY <1>2 DEF IsWalk
<1>4. ASSUME NEW i \in 1 .. N, V[i - 1] = W[i - 1] PROVE V[i] = W[i]
  <2>1. V[i] = Through(q[l][i], attrs, V[i - 1], nested) /\ W[i] = Through(q[l][i], attrs, W[i - 1], other)
    BY <1>2, Zenon DEF IsWalk
  <2>2. SameWith(q[l][i], attrs, nested, other)
    BY MatchOneDepends
  <2>3. Through(q[l][i], attrs, V[i - 1], nested) = Through(q[l][i], attrs, V[i - 1], other)
    BY <2>2 DEF Through, SameWith
  <2>. QED BY <1>4, <2>1, <2>3, Zenon
<1>. HIDE DEF N
<1>5. 0 \in OK
  BY <1>0, <1>3
<1>6. ASSUME NEW i \in 1 .. N, i - 1 \in OK PROVE i \in OK
  BY <1>0, <1>4, <1>6
<1>. HIDE DEF OK
<1>7. 0 .. N \subseteq OK
  BY <1>0, <1>5, <1>6, UpTo
<1>8. V[N] = W[N]
  BY <1>0, <1>7 DEF OK
<1>. QED BY <1>8 DEF V, W, N, Does

\* M is what the recursion of matchAll over the lists computes.
IsMatcher(M, q, attrs, values) ==
    \A l \in 1 .. Len(q) :
        /\ M[l] \in [Binding(q, values) -> SUBSET Binding(q, values)]
        /\ \A b \in Binding(q, values) : M[l][b] = Does(q, attrs, b, M, l)

\* Every list of M does what its loop does with M.
LoopsDone(M, q, attrs, values) ==
    /\ M \in [1 .. Len(q) -> [Binding(q, values) -> SUBSET Binding(q, values)]]
    /\ \A l \in 1 .. Len(q) : M[l] = [b \in Binding(q, values) |-> Does(q, attrs, b, M, l)]

\* The lists can be done from the last to the first.
LEMMA MatcherExists ==
    ASSUME NEW q, IsQuery(q), NEW attrs, NEW values, \A a \in attrs : a.val \in values
    PROVE  \E M : LoopsDone(M, q, attrs, values)
<1> DEFINE L == Len(q)
           B == Binding(q, values)
           V == [B -> SUBSET B]
           list(M, l) == [b \in B |-> Does(q, attrs, b, M, l)]
           step == [y \in [1 .. L -> V] \X (1 .. L) |-> list(y[1], y[2])]
<1>0. L \in Nat
  BY DEF IsQuery
<1>1. V # {}
  <2>1. [b \in B |-> {}] \in V
    OBVIOUS
  <2>. QED BY <2>1
<1>2. ASSUME NEW M \in [1 .. L -> V], NEW l \in 1 .. L PROVE list(M, l) \in V
  <2>1. TypedAfter(q, values, M, l)
    BY <1>0 DEF TypedAfter
  <2>2. ASSUME NEW b \in B PROVE Does(q, attrs, b, M, l) \in SUBSET B
    BY <2>1, <2>2, DoesTyped
  <2>. HIDE DEF B
  <2>. QED BY <2>2
<1>3. ASSUME NEW M \in [1 .. L -> V], NEW N \in [1 .. L -> V], NEW l \in 1 .. L,
             \A m \in l + 1 .. L : M[m] = N[m]
      PROVE  list(M, l) = list(N, l)
  <2>1. TypedAfter(q, values, M, l) /\ AgreeAfter(q, M, N, l)
    BY <1>0, <1>3 DEF TypedAfter, AgreeAfter
  <2>2. ASSUME NEW b \in B PROVE Does(q, attrs, b, M, l) = Does(q, attrs, b, N, l)
    BY <2>1, <2>2, DoesDepends
  <2>. HIDE DEF B
  <2>. QED BY <2>2
<1>. HIDE DEF V, list, L
<1>4. \A M \in [1 .. L -> V] : \A l \in 1 .. L : step[<<M, l>>] = list(M, l)
  OBVIOUS
<1>5. step \in [[1 .. L -> V] \X (1 .. L) -> V]
  BY <1>2
<1>. HIDE DEF step
<1>6. DependsOnLater(step, L, V)
  <2>. SUFFICES ASSUME NEW M \in [1 .. L -> V], NEW N \in [1 .. L -> V], NEW l \in 1 .. L,
                       \A m \in l + 1 .. L : M[m] = N[m]
                PROVE  step[<<M, l>>] = step[<<N, l>>]
    BY DEF DependsOnLater
  <2>1. list(M, l) = list(N, l)
    BY <1>3
  <2>. QED BY <1>4, <2>1
<1>7. PICK M : SolvesDown(M, L, V, step)
  BY <1>0, <1>1, <1>5, <1>6, DownRecursion
<1>8. M \in [1 .. L -> V] /\ \A l \in 1 .. L : M[l] = list(M, l)
  BY <1>4, <1>7 DEF SolvesDown
<1>. QED BY <1>8 DEF V, list, L, LoopsDone

\* The composer computes what each list does from what its nested lists do.
LEMMA MatcherTable ==
    ASSUME NEW q, IsQuery(q), NEW attrs, NEW values, \A a \in attrs : a.val \in values
    PROVE  IsMatcher(Matcher(q, attrs, values), q, attrs, values)
<1> DEFINE L == Len(q)
           B == Binding(q, values)
           Good(f) == f = [l \in 1 .. L |-> [b \in B |-> Does(q, attrs, b, f, l)]]
           M == Matcher(q, attrs, values)
<1>0. L \in Nat
  BY DEF IsQuery
<1>1. M = CHOOSE f : Good(f)
  BY DEF Matcher, Does
<1>2. PICK f : LoopsDone(f, q, attrs, values)
  BY MatcherExists
<1>3. Good(f)
  BY <1>2 DEF LoopsDone
<1>. HIDE DEF Good, M
<1>4. Good(M)
  BY <1>1, <1>3
<1>5. \A l \in 1 .. L : M[l] = [b \in B |-> Does(q, attrs, b, M, l)]
  BY <1>4 DEF Good
<1> DEFINE OK == {l \in 1 .. L : M[l] \in [B -> SUBSET B]}
<1>6. ASSUME NEW l \in 1 .. L, \A m \in l + 1 .. L : m \in OK PROVE l \in OK
  <2>1. TypedAfter(q, values, M, l)
    BY <1>6 DEF TypedAfter
  <2>2. ASSUME NEW b \in B PROVE Does(q, attrs, b, M, l) \in SUBSET B
    BY <2>1, <2>2, DoesTyped
  <2>3. M[l] = [b \in B |-> Does(q, attrs, b, M, l)]
    BY <1>5
  <2>. HIDE DEF B
  <2>. QED BY <2>2, <2>3
<1>. HIDE DEF OK, L
<1>7. 1 .. L \subseteq OK
  BY <1>0, <1>6, Downwards
<1>8. \A l \in 1 .. L : M[l] \in [B -> SUBSET B] /\ \A b \in B : M[l][b] = Does(q, attrs, b, M, l)
  <2>. HIDE DEF B
  <2>. QED BY <1>5, <1>7 DEF OK
<1>. QED BY <1>8, Zenon DEF IsMatcher, M, B, L

----------------------------------------------------------------------------
(* What it is to match.                                                    *)

\* A clause holds for the same valuations with both tables.
HoldsAlike(c, q, attrs, values, sat, other) ==
    \A val : Holds(c, q, attrs, values, val, sat) = Holds(c, q, attrs, values, val, other)

\* Whether a clause holds depends on later lists only.
LEMMA HoldsDepends ==
    ASSUME NEW q, IsQuery(q), NEW attrs, NEW values, NEW l \in 1 .. Len(q), NEW i \in 1 .. Len(q[l]),
           NEW sat, NEW other, AgreeAfter(q, sat, other, l)
    PROVE  HoldsAlike(q[l][i], q, attrs, values, sat, other)
<1> DEFINE c == q[l][i]
<1>. SUFFICES ASSUME NEW val
              PROVE  Holds(c, q, attrs, values, val, sat) = Holds(c, q, attrs, values, val, other)
  BY DEF HoldsAlike
<1>1. c.kind = "or" => c.branches \in Seq(l + 1 .. Len(q))
  BY DEF IsQuery
<1>2. c.kind = "not" => c.body \in l + 1 .. Len(q)
  BY DEF IsQuery
<1>. HIDE DEF c
<1>3. CASE c.kind = "or"
  <2>1. \A k \in 1 .. Len(c.branches) : sat[c.branches[k]] = other[c.branches[k]]
    <3>1. \A k \in 1 .. Len(c.branches) : c.branches[k] \in l + 1 .. Len(q)
      BY <1>1, <1>3, ElementOfSeq
    <3>. QED BY <3>1, Zenon DEF AgreeAfter
  <2>. QED BY <1>3, <2>1 DEF Holds
<1>4. CASE c.kind = "not"
  <2>1. sat[c.body] = other[c.body]
    BY <1>2, <1>4 DEF AgreeAfter
  <2>. QED BY <1>4, <2>1 DEF Holds
<1>5. CASE c.kind \notin {"or", "not"}
  BY <1>5 DEF Holds
<1>. QED BY <1>3, <1>4, <1>5

\* All clauses of list l hold.
AllHold(q, attrs, values, val, sat, l) ==
    \A i \in 1 .. Len(q[l]) : Holds(q[l][i], q, attrs, values, val, sat)

\* sat says of every list whether its clauses hold.
IsSat(sat, q, attrs, values) ==
    \A l \in 1 .. Len(q) :
        sat[l] = [val \in Binding(q, values) |-> AllHold(q, attrs, values, val, sat, l)]

\* Satisfaction, defined from the last list to the first, is well defined.
LEMMA SatExists ==
    ASSUME NEW q, IsQuery(q), NEW attrs, NEW values
    PROVE  \E sat : DOMAIN sat = 1 .. Len(q) /\ sat = [l \in DOMAIN sat |-> sat[l]]
                    /\ IsSat(sat, q, attrs, values)
<1> DEFINE L == Len(q)
           B == Binding(q, values)
           V == [B -> BOOLEAN]
           list(f, l) == [val \in B |-> AllHold(q, attrs, values, val, f, l)]
           step == [y \in [1 .. L -> V] \X (1 .. L) |-> list(y[1], y[2])]
<1>0. L \in Nat
  BY DEF IsQuery
<1>1. V # {}
  <2>1. [b \in B |-> TRUE] \in V
    OBVIOUS
  <2>. QED BY <2>1
<1>2. ASSUME NEW f, NEW l PROVE list(f, l) \in V
  <2>1. \A val : AllHold(q, attrs, values, val, f, l) \in BOOLEAN
    BY DEF AllHold
  <2>. HIDE DEF B
  <2>. QED BY <2>1
<1>3. ASSUME NEW f, NEW g, NEW l \in 1 .. L, \A m \in l + 1 .. L : f[m] = g[m]
      PROVE  list(f, l) = list(g, l)
  <2>1. AgreeAfter(q, f, g, l)
    BY <1>3 DEF AgreeAfter
  <2>2. ASSUME NEW i \in 1 .. Len(q[l]) PROVE HoldsAlike(q[l][i], q, attrs, values, f, g)
    BY <2>1, HoldsDepends
  <2>3. ASSUME NEW val PROVE AllHold(q, attrs, values, val, f, l) = AllHold(q, attrs, values, val, g, l)
    BY <2>2 DEF AllHold, HoldsAlike
  <2>. HIDE DEF B
  <2>. QED BY <2>3
<1>. HIDE DEF V, list, L
<1>4. \A f \in [1 .. L -> V] : \A l \in 1 .. L : step[<<f, l>>] = list(f, l)
  OBVIOUS
<1>5. step \in [[1 .. L -> V] \X (1 .. L) -> V]
  BY <1>2
<1>. HIDE DEF step
<1>6. DependsOnLater(step, L, V)
  <2>. SUFFICES ASSUME NEW f \in [1 .. L -> V], NEW g \in [1 .. L -> V], NEW l \in 1 .. L,
                       \A m \in l + 1 .. L : f[m] = g[m]
                PROVE  step[<<f, l>>] = step[<<g, l>>]
    BY DEF DependsOnLater
  <2>1. list(f, l) = list(g, l)
    BY <1>3
  <2>. QED BY <1>4, <2>1
<1>7. PICK f : SolvesDown(f, L, V, step)
  BY <1>0, <1>1, <1>5, <1>6, DownRecursion
<1>8. f \in [1 .. L -> V] /\ \A l \in 1 .. L : f[l] = list(f, l)
  BY <1>4, <1>7 DEF SolvesDown
<1>. QED BY <1>8 DEF list, L, IsSat

\* The definition of Satisfies has a solution.
LEMMA SatTable ==
    ASSUME NEW q, IsQuery(q), NEW attrs, NEW values
    PROVE  IsSat(Satisfies(q, attrs, values), q, attrs, values)
<1> DEFINE Good(f) == f = [l \in 1 .. Len(q) |->
                              [val \in Binding(q, values) |-> AllHold(q, attrs, values, val, f, l)]]
           sat == Satisfies(q, attrs, values)
<1>1. sat = CHOOSE f : Good(f)
  BY DEF Satisfies, AllHold
<1>2. PICK f : DOMAIN f = 1 .. Len(q) /\ f = [l \in DOMAIN f |-> f[l]] /\ IsSat(f, q, attrs, values)
  BY SatExists
<1>3. Good(f)
  BY <1>2 DEF IsSat
<1>. HIDE DEF Good, sat
<1>4. Good(sat)
  BY <1>1, <1>3
<1>. QED BY <1>4 DEF Good, sat, IsSat

\* Values that are equal to the composer.
LEMMA EqualReflexive == \A x : equalQueryValues(x, x)
BY DEF equalQueryValues

\* equalQueryValues is symmetric and transitive.
LEMMA EqualSymmetric == \A x, y : equalQueryValues(x, y) => equalQueryValues(y, x)
BY DEF equalQueryValues

LEMMA EqualTransitive ==
    \A x, y, z : equalQueryValues(x, y) /\ equalQueryValues(y, z) => equalQueryValues(x, z)
BY DEF equalQueryValues

\* A predicate does not tell them apart.
LEMMA PredicateRespects ==
    ASSUME NEW op, NEW l, NEW m, NEW r, NEW s, equalQueryValues(l, m), equalQueryValues(r, s)
    PROVE  evalQueryPredicate(op, l, r) <=> evalQueryPredicate(op, m, s)
<1>1. /\ l.kind = m.kind /\ r.kind = s.kind
      /\ l.kind = "num" => l.num = m.num
      /\ r.kind = "num" => r.num = s.num
      /\ l.kind # "num" => l.text = m.text
      /\ r.kind # "num" => r.text = s.text
  BY DEF equalQueryValues
<1>2. equalQueryValues(l, r) <=> equalQueryValues(m, s)
  BY <1>1 DEF equalQueryValues
<1>3. CASE op \in {"<", "<=", ">", ">="}
  BY <1>1, <1>3 DEF evalQueryPredicate
<1>4. CASE op \in {"starts_with", "ends_with", "contains"}
  BY <1>1, <1>4 DEF evalQueryPredicate
<1>5. CASE op \notin {"<", "<=", ">", ">=", "starts_with", "ends_with", "contains"}
  BY <1>2, <1>5 DEF evalQueryPredicate
<1>. QED BY <1>3, <1>4, <1>5

\* The variables of V have equal values.
Close(x, val, V) == \A v \in V : equalQueryValues(x[v], val[v])

\* A valuation to ask list l about: it has a value for what the list knows and
\* none for what a later list introduces.
Wide(val, q, values, scope, l) ==
    /\ val \in Binding(q, values)
    /\ Known(q, scope, l) \subseteq DOMAIN val
    /\ \A m \in l + 1 .. Len(q) : DOMAIN val \cap Introduced(q, scope, m) = {}

\* What list l binds satisfies it.
Sound(M, sat, q, values, scope, l) ==
    \A b \in Binding(q, values) : DOMAIN b = scope[l] =>
        \A x \in M[l][b] :
            /\ DOMAIN x = Known(q, scope, l)
            /\ \A v \in scope[l] : x[v] = b[v]
            /\ \A val : Wide(val, q, values, scope, l) /\ Close(x, val, Known(q, scope, l)) => sat[l][val]

\* List l finds every valuation that satisfies it.
Complete(M, sat, q, values, scope, l) ==
    \A b \in Binding(q, values) : DOMAIN b = scope[l] =>
        \A val : Wide(val, q, values, scope, l) /\ Close(b, val, scope[l]) /\ sat[l][val] =>
            \E x \in M[l][b] : Close(x, val, Known(q, scope, l))

\* A query in scope with the tables of its lists.
Setting(q, attrs, values, scope, M, sat) ==
    /\ IsQuery(q)
    /\ \A a \in attrs : a.val \in values
    /\ scope \in [1 .. Len(q) -> SUBSET Variables(q)]
    /\ Scoped(q, scope)
    /\ IsMatcher(M, q, attrs, values)
    /\ IsSat(sat, q, attrs, values)

\* The same for clause i of list l, applied to x.
ClauseSound(q, attrs, values, scope, M, sat, l, i, x) ==
    \A y \in matchOneQuery(q[l][i], attrs, x, M) :
        /\ DOMAIN y = Seen(q, scope, l, i)
        /\ \A v \in DOMAIN x : y[v] = x[v]
        /\ \A val : Wide(val, q, values, scope, l) /\ Close(y, val, Seen(q, scope, l, i)) =>
                Holds(q[l][i], q, attrs, values, val, sat)

ClauseComplete(q, attrs, values, scope, M, sat, l, i, x) ==
    \A val : /\ Wide(val, q, values, scope, l)
             /\ Close(x, val, Seen(q, scope, l, i - 1))
             /\ Holds(q[l][i], q, attrs, values, val, sat)
             => \E y \in matchOneQuery(q[l][i], attrs, x, M) : Close(y, val, Seen(q, scope, l, i))

ClauseAgrees(q, attrs, values, scope, M, sat, l, i, x) ==
    /\ ClauseSound(q, attrs, values, scope, M, sat, l, i, x)
    /\ ClauseComplete(q, attrs, values, scope, M, sat, l, i, x)

\* The variable a clause adds to those in scope.
Adds(c) == IF c.kind = "pattern" /\ ~IsLiteral(c.value) /\ IsVar(c.value) THEN {c.value.var} ELSE {}

SeenGrows(q, scope, l, i) ==
    /\ Seen(q, scope, l, i) = Seen(q, scope, l, i - 1) \cup Adds(q[l][i])
    /\ Seen(q, scope, l, i) \subseteq Known(q, scope, l)

\* What a clause adds to the variables seen so far.
LEMMA SeenNext ==
    ASSUME NEW q, IsQuery(q), NEW scope, NEW l \in 1 .. Len(q), NEW i \in 1 .. Len(q[l])
    PROVE  SeenGrows(q, scope, l, i)
<1> DEFINE c == q[l][i]
           ok(j) == q[l][j].kind = "pattern" /\ ~IsLiteral(q[l][j].value)
           at(n) == {j \in 1 .. n : ok(j)}
           var(j) == q[l][j].value.var
<1>0. Len(q[l]) \in Nat
  BY DEF IsQuery
<1>1. \A n : PatternVars(q[l], n) = {var(j) : j \in at(n)} \ {""}
  BY DEF PatternVars
<1>2. at(i) = at(i - 1) \cup {j \in {i} : ok(j)} /\ at(i) \subseteq at(Len(q[l]))
  <2>. HIDE DEF ok
  <2>1. 1 .. i = (1 .. i - 1) \cup {i} /\ 1 .. i \subseteq 1 .. Len(q[l])
    BY <1>0
  <2>. QED BY <2>1
<1>3. Adds(c) = {var(j) : j \in {k \in {i} : ok(k)}} \ {""}
  BY DEF Adds, IsVar
<1>. HIDE DEF at, var, ok, c
<1>. DEFINE m == Len(q[l])
           j0 == i - 1
<1>4. PatternVars(q[l], i) = PatternVars(q[l], i - 1) \cup Adds(c)
  <2>1. /\ PatternVars(q[l], i) = {var(j) : j \in at(i)} \ {""}
        /\ PatternVars(q[l], j0) = {var(j) : j \in at(j0)} \ {""}
    BY <1>1, Zenon
  <2>. HIDE DEF j0
  <2>. QED BY <1>2, <1>3, <2>1 DEF j0
<1>5. PatternVars(q[l], i) \subseteq PatternVars(q[l], Len(q[l]))
  <2>1. /\ PatternVars(q[l], i) = {var(j) : j \in at(i)} \ {""}
        /\ PatternVars(q[l], m) = {var(j) : j \in at(m)} \ {""}
    BY <1>1, Zenon
  <2>. HIDE DEF m
  <2>. QED BY <1>2, <2>1 DEF m
<1>. QED BY <1>4, <1>5 DEF Seen, Known, c, SeenGrows

\* Variables have names.
LEMMA NamedVariables ==
    ASSUME NEW q
    PROVE  "" \notin Variables(q)
BY DEF Variables, ListVars, PatternVars

\* Clauses that bind nothing: one binding or none.
LEMMA TestAgrees ==
    ASSUME NEW q, NEW attrs, NEW values, NEW scope, NEW M, NEW sat,
           Setting(q, attrs, values, scope, M, sat),
           NEW l \in 1 .. Len(q), NEW i \in 1 .. Len(q[l]),
           NEW x \in Binding(q, values), DOMAIN x = Seen(q, scope, l, i - 1),
           Adds(q[l][i]) = {}, NEW test, matchOneQuery(q[l][i], attrs, x, M) = If(test, x),
           \A val : Wide(val, q, values, scope, l) /\ Close(x, val, DOMAIN x) =>
              (Holds(q[l][i], q, attrs, values, val, sat) <=> test)
    PROVE  ClauseAgrees(q, attrs, values, scope, M, sat, l, i, x)
<1>0. IsQuery(q)
  BY DEF Setting
<1>1. Seen(q, scope, l, i) = Seen(q, scope, l, i - 1)
  <2>1. SeenGrows(q, scope, l, i)
    BY <1>0, SeenNext
  <2>. QED BY <2>1 DEF SeenGrows
<1>2. matchOneQuery(q[l][i], attrs, x, M) = IF test THEN {x} ELSE {}
  BY DEF If
<1>3. ClauseSound(q, attrs, values, scope, M, sat, l, i, x)
  BY <1>1, <1>2 DEF ClauseSound
<1>4. ClauseComplete(q, attrs, values, scope, M, sat, l, i, x)
  BY <1>1, <1>2 DEF ClauseComplete
<1>. QED BY <1>3, <1>4 DEF ClauseAgrees

\* A term has equal values in both.
LEMMA TermRespects ==
    ASSUME NEW t, NEW x, NEW val, t.var \in DOMAIN x \cup {""}, DOMAIN x \subseteq DOMAIN val,
           Close(x, val, DOMAIN x)
    PROVE  equalQueryValues(resolveQueryTerm(t, x), resolveQueryTerm(t, val))
<1>1. CASE IsVar(t)
  <2>1. t.var \in DOMAIN x /\ t.var \in DOMAIN val
    BY <1>1 DEF IsVar
  <2>. QED BY <1>1, <2>1 DEF resolveQueryTerm, Bound, Close
<1>2. CASE ~IsVar(t)
  BY <1>2, EqualReflexive DEF resolveQueryTerm
<1>. QED BY <1>1, <1>2

\* A predicate over bound variables is decided by what they are bound to.
LEMMA PredicateAgrees ==
    ASSUME NEW q, NEW attrs, NEW values, NEW scope, NEW M, NEW sat,
           Setting(q, attrs, values, scope, M, sat),
           NEW l \in 1 .. Len(q), NEW i \in 1 .. Len(q[l]), q[l][i].kind = "predicate",
           NEW x \in Binding(q, values), DOMAIN x = Seen(q, scope, l, i - 1)
    PROVE  ClauseAgrees(q, attrs, values, scope, M, sat, l, i, x)
<1> DEFINE c == q[l][i]
           test == evalQueryPredicate(c.op, resolveQueryTerm(c.left, x), resolveQueryTerm(c.right, x))
<1>1. Adds(c) = {} /\ matchOneQuery(c, attrs, x, M) = If(test, x)
  BY DEF Adds, matchOneQuery, matchQueryPredicate
<1>2. {c.left.var, c.right.var} \ {""} \subseteq DOMAIN x
  BY DEF Setting, Scoped
<1>3. ASSUME NEW val, Wide(val, q, values, scope, l), Close(x, val, DOMAIN x)
      PROVE  Holds(c, q, attrs, values, val, sat) <=> test
  <2>0. SeenGrows(q, scope, l, i)
    BY SeenNext DEF Setting
  <2>1. DOMAIN x \subseteq DOMAIN val
    BY <1>3, <2>0 DEF Wide, SeenGrows
  <2>2. /\ equalQueryValues(resolveQueryTerm(c.left, x), resolveQueryTerm(c.left, val))
        /\ equalQueryValues(resolveQueryTerm(c.right, x), resolveQueryTerm(c.right, val))
    BY <1>2, <1>3, <2>1, TermRespects
  <2>3. Holds(c, q, attrs, values, val, sat) =
           evalQueryPredicate(c.op, resolveQueryTerm(c.left, val), resolveQueryTerm(c.right, val))
    BY DEF Holds
  <2>. QED BY <2>2, <2>3, PredicateRespects
<1>. HIDE DEF test
<1>. QED BY <1>1, <1>3, TestAgrees

\* A pattern binds its variable to a value of the attribute, or checks it.
LEMMA PatternAgrees ==
    ASSUME NEW q, NEW attrs, NEW values, NEW scope, NEW M, NEW sat,
           Setting(q, attrs, values, scope, M, sat),
           NEW l \in 1 .. Len(q), NEW i \in 1 .. Len(q[l]), q[l][i].kind = "pattern",
           NEW x \in Binding(q, values), DOMAIN x = Seen(q, scope, l, i - 1)
    PROVE  ClauseAgrees(q, attrs, values, scope, M, sat, l, i, x)
<1> DEFINE c == q[l][i]
           own == {a \in attrs : a.key = c.attr /\ c.attr # <<>>}
           var == c.value.var
<1>0. SeenGrows(q, scope, l, i)
  BY SeenNext DEF Setting
<1>1. "" \notin DOMAIN x /\ x \in [DOMAIN x -> values] /\ DOMAIN x \subseteq Variables(q)
  BY BindingIs, NamedVariables
<1>2. matchOneQuery(c, attrs, x, M) = matchQueryPattern(c, attrs, x)
  BY DEF matchOneQuery
<1>3. ASSUME NEW val
      PROVE  Holds(c, q, attrs, values, val, sat) <=>
                \E a \in own : IF IsLiteral(c.value) THEN equalQueryValues(a.val, c.value.lit)
                               ELSE IsVar(c.value) => equalQueryValues(a.val, Bound(val, var))
  BY DEF Holds
<1>4. ASSUME NEW val, Wide(val, q, values, scope, l)
      PROVE  Seen(q, scope, l, i) \subseteq DOMAIN val /\ DOMAIN x \subseteq DOMAIN val
  BY <1>0, <1>4 DEF Wide, SeenGrows
<1>5. CASE IsLiteral(c.value)
  <2> DEFINE test == \E a \in own : equalQueryValues(a.val, c.value.lit)
  <2>1. Adds(c) = {}
    BY <1>5 DEF Adds
  <2>2. matchQueryPattern(c, attrs, x) = If(test, x)
    BY <1>5 DEF matchQueryPattern, If
  <2>3. \A val : Holds(c, q, attrs, values, val, sat) <=> test
    BY <1>3, <1>5
  <2>. HIDE DEF test, c
  <2>4. matchOneQuery(c, attrs, x, M) = If(test, x)
    BY <1>2, <2>2
  <2>. QED BY <2>1, <2>3, <2>4, TestAgrees DEF c
<1>6. CASE ~IsLiteral(c.value) /\ var \in DOMAIN x
  <2> DEFINE test == \E a \in own : equalQueryValues(x[var], a.val)
  <2>0. IsVar(c.value) /\ Adds(c) = {var}
    BY <1>1, <1>6 DEF Adds, IsVar
  <2>1. Seen(q, scope, l, i) = Seen(q, scope, l, i - 1)
    BY <1>0, <1>6, <2>0 DEF SeenGrows
  <2>2. matchQueryPattern(c, attrs, x) = IF test THEN {x} ELSE {}
    BY <1>6 DEF matchQueryPattern, If
  <2>3. ASSUME NEW val, Wide(val, q, values, scope, l), Close(x, val, DOMAIN x)
        PROVE  Holds(c, q, attrs, values, val, sat) <=> test
    <3>1. Bound(val, var) = val[var] /\ equalQueryValues(x[var], val[var])
      BY <1>4, <1>6, <2>3 DEF Bound, Close
    <3>2. \A a \in own : equalQueryValues(a.val, Bound(val, var)) <=> equalQueryValues(x[var], a.val)
      BY <3>1, EqualSymmetric, EqualTransitive
    <3>. QED BY <1>3, <1>6, <2>0, <3>2
  <2>. HIDE DEF test, c
  <2>4. ClauseSound(q, attrs, values, scope, M, sat, l, i, x)
    BY <1>2, <2>1, <2>2, <2>3 DEF ClauseSound, c
  <2>5. ClauseComplete(q, attrs, values, scope, M, sat, l, i, x)
    BY <1>2, <2>1, <2>2, <2>3 DEF ClauseComplete, c
  <2>. QED BY <2>4, <2>5 DEF ClauseAgrees
<1>7. CASE ~IsLiteral(c.value) /\ var \notin DOMAIN x /\ IsVar(c.value)
  <2>1. Seen(q, scope, l, i) = DOMAIN x \cup {var}
    BY <1>0, <1>7 DEF SeenGrows, Adds
  <2>2. matchQueryPattern(c, attrs, x) = {Bind(x, var, a.val) : a \in own}
    BY <1>7 DEF matchQueryPattern
  <2>3. ASSUME NEW a \in own
        PROVE  /\ DOMAIN Bind(x, var, a.val) = DOMAIN x \cup {var}
               /\ \A v \in DOMAIN x : Bind(x, var, a.val)[v] = x[v]
               /\ Bind(x, var, a.val)[var] = a.val
    BY <1>7 DEF Bind
  <2>4. ASSUME NEW val, Wide(val, q, values, scope, l)
        PROVE  Holds(c, q, attrs, values, val, sat) <=>
                  \E a \in own : equalQueryValues(a.val, val[var])
    <3>1. Bound(val, var) = val[var]
      BY <1>4, <2>1, <2>4 DEF Bound
    <3>. QED BY <1>3, <1>7, <3>1
  <2>. HIDE DEF own, c, var
  <2>5. ClauseSound(q, attrs, values, scope, M, sat, l, i, x)
    <3>. SUFFICES ASSUME NEW y \in matchOneQuery(c, attrs, x, M)
                  PROVE  /\ DOMAIN y = Seen(q, scope, l, i)
                         /\ \A v \in DOMAIN x : y[v] = x[v]
                         /\ \A val : Wide(val, q, values, scope, l) /\ Close(y, val, Seen(q, scope, l, i)) =>
                                Holds(c, q, attrs, values, val, sat)
      BY DEF ClauseSound, c
    <3>1. PICK a \in own : y = Bind(x, var, a.val)
      BY <1>2, <2>2
    <3>2. ASSUME NEW val, Wide(val, q, values, scope, l), Close(y, val, Seen(q, scope, l, i))
          PROVE  Holds(c, q, attrs, values, val, sat)
      <4>1. equalQueryValues(y[var], val[var])
        BY <2>1, <3>2 DEF Close
      <4>. QED BY <2>3, <2>4, <3>1, <3>2, <4>1
    <3>. QED BY <2>1, <2>3, <3>1, <3>2
  <2>6. ClauseComplete(q, attrs, values, scope, M, sat, l, i, x)
    <3>. SUFFICES ASSUME NEW val, Wide(val, q, values, scope, l), Close(x, val, DOMAIN x),
                         Holds(c, q, attrs, values, val, sat)
                  PROVE  \E y \in matchOneQuery(c, attrs, x, M) : Close(y, val, Seen(q, scope, l, i))
      BY DEF ClauseComplete, c
    <3>1. PICK a \in own : equalQueryValues(a.val, val[var])
      BY <2>4
    <3>2. Bind(x, var, a.val) \in matchOneQuery(c, attrs, x, M)
      BY <1>2, <2>2
    <3>3. Close(Bind(x, var, a.val), val, Seen(q, scope, l, i))
      BY <2>1, <2>3, <3>1 DEF Close
    <3>. QED BY <3>2, <3>3
  <2>. QED BY <2>5, <2>6 DEF ClauseAgrees
<1>8. CASE ~IsLiteral(c.value) /\ var \notin DOMAIN x /\ ~IsVar(c.value)
  <2> DEFINE test == own # {}
  <2>1. Adds(c) = {}
    BY <1>8 DEF Adds
  <2>2. matchQueryPattern(c, attrs, x) = If(test, x)
    BY <1>8 DEF matchQueryPattern, If
  <2>3. \A val : Holds(c, q, attrs, values, val, sat) <=> test
    BY <1>3, <1>8
  <2>. HIDE DEF test, c
  <2>4. matchOneQuery(c, attrs, x, M) = If(test, x)
    BY <1>2, <2>2
  <2>. QED BY <2>1, <2>3, <2>4, TestAgrees DEF c
<1>. QED BY <1>5, <1>6, <1>7, <1>8

\* What a list knows at its end.
LEMMA KnownIs ==
    ASSUME NEW q, NEW scope, NEW l
    PROVE  Known(q, scope, l) = scope[l] \cup ListVars(q, l)
BY DEF Known, Seen, ListVars

\* Bindings with the same values are one.
LEMMA SameBinding ==
    ASSUME NEW q, NEW values, NEW x \in Binding(q, values), NEW y \in Binding(q, values),
           DOMAIN x = DOMAIN y, \A v \in DOMAIN x : y[v] = x[v]
    PROVE  x = y
<1>1. x = [v \in DOMAIN x |-> x[v]] /\ y = [v \in DOMAIN y |-> y[v]]
  BY BindingIs
<1>. QED BY <1>1

\* The lists after l agree.
LaterAgree(M, sat, q, values, scope, l) ==
    \A m \in l + 1 .. Len(q) :
        Sound(M, sat, q, values, scope, m) /\ Complete(M, sat, q, values, scope, m)

\* One branch of an Or.
LEMMA BranchAgrees ==
    ASSUME NEW q, NEW attrs, NEW values, NEW scope, NEW M, NEW sat,
           Setting(q, attrs, values, scope, M, sat),
           NEW l \in 1 .. Len(q), NEW m \in l + 1 .. Len(q),
           Sound(M, sat, q, values, scope, m), Complete(M, sat, q, values, scope, m),
           NEW x \in Binding(q, values), DOMAIN x = scope[m], ListVars(q, m) \subseteq DOMAIN x
    PROVE  /\ M[m][x] \in SUBSET {x}
           /\ \A val : Wide(val, q, values, scope, l) /\ Close(x, val, DOMAIN x) /\ DOMAIN x \subseteq DOMAIN val =>
                 (sat[m][val] <=> M[m][x] # {})
<1>0. Len(q) \in Nat /\ m \in 1 .. Len(q)
  BY DEF Setting, IsQuery
<1>1. Known(q, scope, m) = DOMAIN x
  BY KnownIs
<1>2. M[m][x] \in SUBSET Binding(q, values)
  BY <1>0 DEF Setting, IsMatcher
<1>3. ASSUME NEW y \in M[m][x] PROVE y = x
  <2>1. DOMAIN y = DOMAIN x /\ \A v \in DOMAIN x : y[v] = x[v]
    BY <1>1, <1>3 DEF Sound
  <2>. QED BY <1>2, <2>1, SameBinding
<1>4. ASSUME NEW val, Wide(val, q, values, scope, l), Close(x, val, DOMAIN x), DOMAIN x \subseteq DOMAIN val
      PROVE  sat[m][val] <=> M[m][x] # {}
  <2>1. Wide(val, q, values, scope, m)
    <3>1. \A n \in m + 1 .. Len(q) : n \in l + 1 .. Len(q)
      BY <1>0
    <3>. QED BY <1>1, <1>4, <3>1 DEF Wide
  <2>2. ASSUME sat[m][val] PROVE M[m][x] # {}
    BY <1>4, <2>1, <2>2 DEF Complete
  <2>3. ASSUME M[m][x] # {} PROVE sat[m][val]
    <3>1. x \in M[m][x]
      BY <1>3, <2>3
    <3>. QED BY <1>1, <1>4, <2>1, <3>1 DEF Sound
  <2>4. sat[m][val] \in BOOLEAN
    BY <1>0, <1>4 DEF Setting, IsSat, AllHold, Wide
  <2>. QED BY <2>2, <2>3, <2>4
<1>. QED BY <1>3, <1>4

\* The first branch that matches stands for all: branches bind nothing new.
LEMMA OrAgrees ==
    ASSUME NEW q, NEW attrs, NEW values, NEW scope, NEW M, NEW sat,
           Setting(q, attrs, values, scope, M, sat),
           NEW l \in 1 .. Len(q), NEW i \in 1 .. Len(q[l]), q[l][i].kind = "or",
           LaterAgree(M, sat, q, values, scope, l),
           NEW x \in Binding(q, values), DOMAIN x = Seen(q, scope, l, i - 1)
    PROVE  ClauseAgrees(q, attrs, values, scope, M, sat, l, i, x)
<1> DEFINE c == q[l][i]
           K == 1 .. Len(c.branches)
           hit == {k \in K : M[c.branches[k]][x] # {}}
           first == CHOOSE k \in hit : \A j \in hit : k <= j
           test == hit # {}
<1>0. SeenGrows(q, scope, l, i)
  BY SeenNext DEF Setting
<1>1. \A k \in K : c.branches[k] \in l + 1 .. Len(q)
  <2>1. c.branches \in Seq(l + 1 .. Len(q))
    BY DEF Setting, IsQuery
  <2>. HIDE DEF c
  <2>. QED BY <2>1, ElementOfSeq
<1>2. \A k \in K : scope[c.branches[k]] = DOMAIN x /\ ListVars(q, c.branches[k]) \subseteq DOMAIN x
  BY DEF Setting, Scoped
<1>3. matchOneQuery(c, attrs, x, M) = IF hit = {} THEN {} ELSE M[c.branches[first]][x]
  BY DEF matchOneQuery, matchQueryOr
<1>4. \A val : Holds(c, q, attrs, values, val, sat) <=> \E k \in K : sat[c.branches[k]][val]
  BY DEF Holds
<1>5. Adds(c) = {}
  BY DEF Adds
<1>. HIDE DEF c
<1>6. ASSUME NEW k \in K
      PROVE  /\ M[c.branches[k]][x] \in SUBSET {x}
             /\ \A val : Wide(val, q, values, scope, l) /\ Close(x, val, DOMAIN x) /\ DOMAIN x \subseteq DOMAIN val =>
                   (sat[c.branches[k]][val] <=> M[c.branches[k]][x] # {})
  <2> DEFINE m == c.branches[k]
  <2>1. m \in l + 1 .. Len(q) /\ scope[m] = DOMAIN x /\ ListVars(q, m) \subseteq DOMAIN x
    BY <1>1, <1>2
  <2>. HIDE DEF m
  <2>2. Sound(M, sat, q, values, scope, m) /\ Complete(M, sat, q, values, scope, m)
    BY <2>1 DEF LaterAgree
  <2>3. /\ M[m][x] \in SUBSET {x}
        /\ \A val : Wide(val, q, values, scope, l) /\ Close(x, val, DOMAIN x) /\ DOMAIN x \subseteq DOMAIN val =>
              (sat[m][val] <=> M[m][x] # {})
    BY <2>1, <2>2, BranchAgrees
  <2>. QED BY <2>3 DEF m
<1>7. hit # {} => first \in hit
  <2>1. hit \in SUBSET Nat
    OBVIOUS
  <2>. HIDE DEF hit
  <2>. QED BY <2>1, LeastNumber
<1>8. matchOneQuery(c, attrs, x, M) = If(test, x)
  <2>1. CASE hit = {}
    BY <1>3, <2>1 DEF If
  <2>2. CASE hit # {}
    <3>1. first \in K /\ M[c.branches[first]][x] # {}
      BY <1>7, <2>2
    <3>. HIDE DEF first
    <3>2. M[c.branches[first]][x] = {x}
      BY <1>6, <3>1
    <3>. QED BY <1>3, <2>2, <3>2 DEF If
  <2>. QED BY <2>1, <2>2
<1>9. ASSUME NEW val, Wide(val, q, values, scope, l), Close(x, val, DOMAIN x)
      PROVE  Holds(c, q, attrs, values, val, sat) <=> test
  <2>1. DOMAIN x \subseteq DOMAIN val
    BY <1>0, <1>9 DEF Wide, SeenGrows
  <2>2. \A k \in K : sat[c.branches[k]][val] <=> M[c.branches[k]][x] # {}
    BY <1>6, <1>9, <2>1
  <2>3. Holds(c, q, attrs, values, val, sat) <=> \E k \in K : sat[c.branches[k]][val]
    BY <1>4
  <2>. QED BY <2>2, <2>3
<1>. HIDE DEF test
<1>. QED BY <1>5, <1>8, <1>9, TestAgrees DEF c

\* A valuation that also has values for what the body of a Not introduces.
Extended(val, e, own) == [v \in own \cup DOMAIN val |-> IF v \in own THEN e[v] ELSE val[v]]

Extends(val, e, own, q, values, scope, m) ==
    /\ Wide(Extended(val, e, own), q, values, scope, m)
    /\ \A v \in own : Extended(val, e, own)[v] = e[v]
    /\ \A v \in DOMAIN val : Extended(val, e, own)[v] = val[v]

\* A valuation extended by what a list introduces.
LEMMA ExtendedIsWide ==
    ASSUME NEW q, NEW attrs, NEW values, NEW scope, NEW M, NEW sat,
           Setting(q, attrs, values, scope, M, sat),
           NEW l \in 1 .. Len(q), NEW m \in l + 1 .. Len(q),
           NEW val, Wide(val, q, values, scope, l), scope[m] \subseteq DOMAIN val,
           NEW own, own = ListVars(q, m) \ DOMAIN val, NEW e \in [own -> values]
    PROVE  Extends(val, e, own, q, values, scope, m)
<1> DEFINE z == Extended(val, e, own)
<1>0. Len(q) \in Nat /\ m \in 1 .. Len(q)
  BY DEF Setting, IsQuery
<1>1. /\ DOMAIN z = own \cup DOMAIN val
      /\ \A v \in own : z[v] = e[v]
      /\ \A v \in DOMAIN val : z[v] = val[v]
      /\ z = [v \in DOMAIN z |-> z[v]]
  BY DEF Extended
<1>. HIDE DEF z
<1>2. val \in [DOMAIN val -> values] /\ DOMAIN val \subseteq Variables(q)
  BY BindingIs DEF Wide
<1>3. ListVars(q, m) \subseteq Variables(q)
  BY <1>0 DEF Variables
<1>4. z \in Binding(q, values)
  <2>1. z \in [DOMAIN z -> values] /\ DOMAIN z \subseteq Variables(q)
    BY <1>1, <1>2, <1>3
  <2>. QED BY <2>1, BindingIs
<1>5. Known(q, scope, m) \subseteq DOMAIN z
  BY <1>1, KnownIs
<1>6. ASSUME NEW n \in m + 1 .. Len(q) PROVE DOMAIN z \cap Introduced(q, scope, n) = {}
  <2>1. n \in l + 1 .. Len(q) /\ n \in 1 .. Len(q) /\ m \in 1 .. n - 1
    BY <1>0
  <2>2. DOMAIN val \cap Introduced(q, scope, n) = {}
    BY <2>1 DEF Wide
  <2>3. Introduced(q, scope, n) \cap Known(q, scope, m) = {}
    BY <2>1 DEF Setting, Scoped
  <2>4. own \subseteq Known(q, scope, m)
    BY KnownIs
  <2>. QED BY <1>1, <2>2, <2>3, <2>4
<1>7. Wide(z, q, values, scope, m)
  BY <1>4, <1>5, <1>6 DEF Wide
<1>. QED BY <1>1, <1>7 DEF z, Extends

\* A Not fails exactly if some value of what it introduces satisfies its body.
LEMMA NotAgrees ==
    ASSUME NEW q, NEW attrs, NEW values, NEW scope, NEW M, NEW sat,
           Setting(q, attrs, values, scope, M, sat),
           NEW l \in 1 .. Len(q), NEW i \in 1 .. Len(q[l]), q[l][i].kind = "not",
           LaterAgree(M, sat, q, values, scope, l),
           NEW x \in Binding(q, values), DOMAIN x = Seen(q, scope, l, i - 1)
    PROVE  ClauseAgrees(q, attrs, values, scope, M, sat, l, i, x)
<1> DEFINE c == q[l][i]
           m == c.body
           test == M[m][x] = {}
<1>0. SeenGrows(q, scope, l, i)
  BY SeenNext DEF Setting
<1>1. m \in l + 1 .. Len(q) /\ scope[m] = DOMAIN x
  BY DEF Setting, IsQuery, Scoped
<1>2. Adds(c) = {} /\ matchOneQuery(c, attrs, x, M) = If(test, x)
  BY DEF Adds, matchOneQuery, matchQueryNot
<1>3. ASSUME NEW val
      PROVE  LET own == ListVars(q, m) \ DOMAIN val IN
             Holds(c, q, attrs, values, val, sat) <=>
                ~\E e \in [own -> values] : sat[m][Extended(val, e, own)]
  BY DEF Holds, Extended
<1>. HIDE DEF c, m
<1>4. Sound(M, sat, q, values, scope, m) /\ Complete(M, sat, q, values, scope, m)
  BY <1>1 DEF LaterAgree
<1>5. M[m][x] \in SUBSET Binding(q, values)
  <2>1. m \in 1 .. Len(q)
    BY <1>1 DEF Setting, IsQuery
  <2>. QED BY <2>1 DEF Setting, IsMatcher
<1>6. ASSUME NEW val, Wide(val, q, values, scope, l), Close(x, val, DOMAIN x)
      PROVE  Holds(c, q, attrs, values, val, sat) <=> test
  <2> DEFINE own == ListVars(q, m) \ DOMAIN val
  <2>1. DOMAIN x \subseteq DOMAIN val
    BY <1>0, <1>6 DEF Wide, SeenGrows
  <2>2. ASSUME NEW e \in [own -> values]
        PROVE  /\ Wide(Extended(val, e, own), q, values, scope, m)
               /\ \A v \in own : Extended(val, e, own)[v] = e[v]
               /\ \A v \in DOMAIN val : Extended(val, e, own)[v] = val[v]
    <3>. HIDE DEF own
    <3>1. own = ListVars(q, m) \ DOMAIN val
      BY DEF own
    <3>2. Extends(val, e, own, q, values, scope, m)
      BY <1>1, <1>6, <2>1, <3>1, ExtendedIsWide
    <3>. QED BY <3>2 DEF Extends
  <2>3. ASSUME NEW e \in [own -> values], sat[m][Extended(val, e, own)] PROVE M[m][x] # {}
    <3>. HIDE DEF own
    <3>1. Close(x, Extended(val, e, own), scope[m])
      BY <1>1, <1>6, <2>1, <2>2 DEF Close
    <3>. QED BY <1>1, <1>4, <2>2, <2>3, <3>1 DEF Complete
  <2>4. ASSUME NEW y \in M[m][x] PROVE \E e \in [own -> values] : sat[m][Extended(val, e, own)]
    <3>1. /\ DOMAIN y = Known(q, scope, m)
          /\ \A v \in DOMAIN x : y[v] = x[v]
      BY <1>1, <1>4, <2>4 DEF Sound
    <3>2. y \in [DOMAIN y -> values]
      BY <1>5, <2>4, BindingIs
    <3>3. DOMAIN y = DOMAIN x \cup ListVars(q, m) /\ own \subseteq DOMAIN y
      BY <1>1, <3>1, KnownIs
    <3> DEFINE e == [v \in own |-> y[v]]
    <3>4. e \in [own -> values]
      BY <3>2, <3>3
    <3>5. own = ListVars(q, m) \ DOMAIN x
      <4>1. Introduced(q, scope, m) = ListVars(q, m) \ DOMAIN x
        BY <1>1 DEF Introduced
      <4>2. DOMAIN val \cap Introduced(q, scope, m) = {}
        BY <1>1, <1>6 DEF Wide
      <4>. QED BY <2>1, <4>1, <4>2
    <3>6. \A v \in own : e[v] = y[v]
      OBVIOUS
    <3>. HIDE DEF own, e
    <3>7. Close(y, Extended(val, e, own), Known(q, scope, m))
      <4>. SUFFICES ASSUME NEW v \in DOMAIN y
                    PROVE  equalQueryValues(y[v], Extended(val, e, own)[v])
        BY <3>1 DEF Close
      <4>1. CASE v \in DOMAIN x
        <5>1. y[v] = x[v] /\ Extended(val, e, own)[v] = val[v]
          BY <2>1, <2>2, <3>1, <3>4, <4>1
        <5>. QED BY <1>6, <4>1, <5>1 DEF Close
      <4>2. CASE v \notin DOMAIN x
        <5>1. v \in own
          BY <3>3, <3>5, <4>2
        <5>2. Extended(val, e, own)[v] = y[v]
          BY <2>2, <3>4, <3>6, <5>1
        <5>. QED BY <5>2, EqualReflexive
      <4>. QED BY <4>1, <4>2
    <3>8. sat[m][Extended(val, e, own)]
      BY <1>1, <1>4, <2>2, <2>4, <3>4, <3>7 DEF Sound
    <3>. QED BY <3>4, <3>8
  <2>5. Holds(c, q, attrs, values, val, sat) <=> ~\E e \in [own -> values] : sat[m][Extended(val, e, own)]
    BY <1>3
  <2>. HIDE DEF own
  <2>. QED BY <2>3, <2>4, <2>5
<1>. HIDE DEF test
<1>. QED BY <1>2, <1>6, TestAgrees DEF c

\* Every clause agrees with its meaning, given that the lists after l do.
LEMMA ClausesAgree ==
    ASSUME NEW q, NEW attrs, NEW values, NEW scope, NEW M, NEW sat,
           Setting(q, attrs, values, scope, M, sat),
           NEW l \in 1 .. Len(q), NEW i \in 1 .. Len(q[l]),
           LaterAgree(M, sat, q, values, scope, l),
           NEW x \in Binding(q, values), DOMAIN x = Seen(q, scope, l, i - 1)
    PROVE  ClauseAgrees(q, attrs, values, scope, M, sat, l, i, x)
<1> DEFINE c == q[l][i]
<1>1. CASE c.kind = "fulltext"
  <2> DEFINE test == matchQueryFullText(c, attrs)
  <2>1. Adds(c) = {} /\ matchOneQuery(c, attrs, x, M) = If(test, x)
    BY <1>1 DEF Adds, matchOneQuery
  <2>2. \A val : Holds(c, q, attrs, values, val, sat) <=> test
    BY <1>1 DEF Holds
  <2>. HIDE DEF test
  <2>. QED BY <2>1, <2>2, TestAgrees
<1>2. CASE c.kind \notin {"pattern", "predicate", "or", "not", "fulltext"}
  <2>1. Adds(c) = {} /\ matchOneQuery(c, attrs, x, M) = If(FALSE, x)
    BY <1>2 DEF Adds, matchOneQuery, If
  <2>2. \A val : Holds(c, q, attrs, values, val, sat) <=> FALSE
    BY <1>2 DEF Holds
  <2>. QED BY <2>1, <2>2, TestAgrees
<1>3. CASE c.kind = "pattern"
  BY <1>3, PatternAgrees
<1>4. CASE c.kind = "predicate"
  BY <1>4, PredicateAgrees
<1>5. CASE c.kind = "or"
  BY <1>5, OrAgrees
<1>6. CASE c.kind = "not"
  BY <1>6, NotAgrees
<1>. QED BY <1>1, <1>2, <1>3, <1>4, <1>5, <1>6

\* After i clauses: what is bound makes them hold, and nothing is missed.
SoundTo(W, sat, q, attrs, values, scope, l, b, i) ==
    \A x \in W[i] :
        /\ DOMAIN x = Seen(q, scope, l, i)
        /\ \A v \in scope[l] : x[v] = b[v]
        /\ \A val : Wide(val, q, values, scope, l) /\ Close(x, val, Seen(q, scope, l, i)) =>
               \A j \in 1 .. i : Holds(q[l][j], q, attrs, values, val, sat)

CompleteTo(W, sat, q, attrs, values, scope, l, b, i) ==
    \A val : /\ Wide(val, q, values, scope, l) /\ Close(b, val, scope[l])
             /\ \A j \in 1 .. i : Holds(q[l][j], q, attrs, values, val, sat)
             => \E x \in W[i] : Close(x, val, Seen(q, scope, l, i))

\* One more clause.
LEMMA WalkAgreesStep ==
    ASSUME NEW q, NEW attrs, NEW values, NEW scope, NEW M, NEW sat,
           Setting(q, attrs, values, scope, M, sat),
           NEW l \in 1 .. Len(q), LaterAgree(M, sat, q, values, scope, l),
           NEW b, NEW W, IsWalk(W, q, attrs, values, b, M, l), NEW i \in 1 .. Len(q[l]),
           SoundTo(W, sat, q, attrs, values, scope, l, b, i - 1),
           CompleteTo(W, sat, q, attrs, values, scope, l, b, i - 1)
    PROVE  /\ SoundTo(W, sat, q, attrs, values, scope, l, b, i)
           /\ CompleteTo(W, sat, q, attrs, values, scope, l, b, i)
<1>0. Len(q[l]) \in Nat /\ i - 1 \in 0 .. Len(q[l]) /\ 1 .. i = (1 .. i - 1) \cup {i}
  BY DEF Setting, IsQuery
<1>1. SeenGrows(q, scope, l, i) /\ scope[l] \subseteq Seen(q, scope, l, i - 1)
  BY SeenNext DEF Setting, Seen
<1>2. W[i] = UNION {matchOneQuery(q[l][i], attrs, x, M) : x \in W[i - 1]} /\ W[i - 1] \in SUBSET Binding(q, values)
  BY <1>0 DEF IsWalk, Through
<1>3. ASSUME NEW x \in W[i - 1]
      PROVE  /\ ClauseSound(q, attrs, values, scope, M, sat, l, i, x)
             /\ ClauseComplete(q, attrs, values, scope, M, sat, l, i, x)
  <2>1. x \in Binding(q, values) /\ DOMAIN x = Seen(q, scope, l, i - 1)
    BY <1>2, <1>3 DEF SoundTo
  <2>2. ClauseAgrees(q, attrs, values, scope, M, sat, l, i, x)
    BY <2>1, ClausesAgree
  <2>. QED BY <2>2 DEF ClauseAgrees
<1>4. SoundTo(W, sat, q, attrs, values, scope, l, b, i)
  <2>. SUFFICES ASSUME NEW y \in W[i]
                PROVE  /\ DOMAIN y = Seen(q, scope, l, i)
                       /\ \A v \in scope[l] : y[v] = b[v]
                       /\ \A val : Wide(val, q, values, scope, l) /\ Close(y, val, Seen(q, scope, l, i)) =>
                              \A j \in 1 .. i : Holds(q[l][j], q, attrs, values, val, sat)
    BY DEF SoundTo
  <2>1. PICK x \in W[i - 1] : y \in matchOneQuery(q[l][i], attrs, x, M)
    BY <1>2
  <2>2. /\ DOMAIN x = Seen(q, scope, l, i - 1)
        /\ \A v \in scope[l] : x[v] = b[v]
        /\ \A val : Wide(val, q, values, scope, l) /\ Close(x, val, Seen(q, scope, l, i - 1)) =>
               \A j \in 1 .. i - 1 : Holds(q[l][j], q, attrs, values, val, sat)
    BY <2>1 DEF SoundTo
  <2>3. /\ DOMAIN y = Seen(q, scope, l, i)
        /\ \A v \in DOMAIN x : y[v] = x[v]
        /\ \A val : Wide(val, q, values, scope, l) /\ Close(y, val, Seen(q, scope, l, i)) =>
               Holds(q[l][i], q, attrs, values, val, sat)
    BY <1>3, <2>1 DEF ClauseSound
  <2>4. \A v \in scope[l] : y[v] = b[v]
    BY <1>1, <2>2, <2>3
  <2>5. ASSUME NEW val, Wide(val, q, values, scope, l), Close(y, val, Seen(q, scope, l, i)), NEW j \in 1 .. i
        PROVE  Holds(q[l][j], q, attrs, values, val, sat)
    <3>1. CASE j = i
      BY <2>3, <2>5, <3>1
    <3>2. CASE j # i
      <4>1. j \in 1 .. i - 1
        BY <1>0, <3>2
      <4>2. Close(x, val, Seen(q, scope, l, i - 1))
        BY <1>1, <2>2, <2>3, <2>5 DEF Close, SeenGrows
      <4>. QED BY <2>2, <2>5, <4>1, <4>2
    <3>. QED BY <3>1, <3>2
  <2>. QED BY <2>3, <2>4, <2>5
<1>5. CompleteTo(W, sat, q, attrs, values, scope, l, b, i)
  <2>. SUFFICES ASSUME NEW val, Wide(val, q, values, scope, l), Close(b, val, scope[l]),
                       \A j \in 1 .. i : Holds(q[l][j], q, attrs, values, val, sat)
                PROVE  \E y \in W[i] : Close(y, val, Seen(q, scope, l, i))
    BY DEF CompleteTo
  <2>1. \A j \in 1 .. i - 1 : Holds(q[l][j], q, attrs, values, val, sat)
    BY <1>0
  <2>2. Holds(q[l][i], q, attrs, values, val, sat)
    BY <1>0
  <2>3. PICK x \in W[i - 1] : Close(x, val, Seen(q, scope, l, i - 1))
    BY <2>1 DEF CompleteTo
  <2>4. PICK y \in matchOneQuery(q[l][i], attrs, x, M) : Close(y, val, Seen(q, scope, l, i))
    BY <1>3, <2>2, <2>3 DEF ClauseComplete
  <2>. QED BY <1>2, <2>3, <2>4
<1>. QED BY <1>4, <1>5

\* A list agrees with its meaning when the later ones do.
LEMMA ListAgrees ==
    ASSUME NEW q, NEW attrs, NEW values, NEW scope, NEW M, NEW sat,
           Setting(q, attrs, values, scope, M, sat),
           NEW l \in 1 .. Len(q), LaterAgree(M, sat, q, values, scope, l)
    PROVE  Sound(M, sat, q, values, scope, l) /\ Complete(M, sat, q, values, scope, l)
<1> DEFINE N == Len(q[l])
<1>0. N \in Nat /\ Len(q) \in Nat
  BY DEF Setting, IsQuery
<1>1. TypedAfter(q, values, M, l)
  <2>1. \A m \in l + 1 .. Len(q) : m \in 1 .. Len(q)
    BY <1>0
  <2>. QED BY <2>1 DEF Setting, IsMatcher, TypedAfter
<1>2. ASSUME NEW b \in Binding(q, values), DOMAIN b = scope[l]
      PROVE  \E W : /\ M[l][b] = W[N]
                    /\ SoundTo(W, sat, q, attrs, values, scope, l, b, N)
                    /\ CompleteTo(W, sat, q, attrs, values, scope, l, b, N)
  <2> DEFINE W == matchAllQuery(q[l], attrs, b, M)
             OK == {i \in 0 .. N : /\ SoundTo(W, sat, q, attrs, values, scope, l, b, i)
                                   /\ CompleteTo(W, sat, q, attrs, values, scope, l, b, i)}
  <2>1. IsWalk(W, q, attrs, values, b, M, l)
    BY <1>1, WalkTable DEF Setting
  <2>2. M[l][b] = W[N]
    BY DEF Setting, IsMatcher, Does
  <2>. HIDE DEF W
  <2>3. Seen(q, scope, l, 0) = scope[l]
    BY DEF Seen, PatternVars
  <2>4. W[0] = {b}
    BY <2>1 DEF IsWalk
  <2>5. 0 \in OK
    <3>1. SoundTo(W, sat, q, attrs, values, scope, l, b, 0)
      BY <1>2, <2>3, <2>4 DEF SoundTo
    <3>2. CompleteTo(W, sat, q, attrs, values, scope, l, b, 0)
      BY <2>3, <2>4 DEF CompleteTo
    <3>. QED BY <1>0, <3>1, <3>2
  <2>6. ASSUME NEW i \in 1 .. N, i - 1 \in OK PROVE i \in OK
    <3>1. /\ SoundTo(W, sat, q, attrs, values, scope, l, b, i)
          /\ CompleteTo(W, sat, q, attrs, values, scope, l, b, i)
      BY <2>1, <2>6, WalkAgreesStep
    <3>. QED BY <1>0, <3>1
  <2>. HIDE DEF OK, N
  <2>7. 0 .. N \subseteq OK
    BY <1>0, <2>5, <2>6, UpTo
  <2>8. N \in OK
    BY <1>0, <2>7
  <2>. QED BY <2>2, <2>8 DEF OK
<1>3. Seen(q, scope, l, N) = Known(q, scope, l)
  BY DEF Known
<1>4. \A val \in Binding(q, values) :
         sat[l][val] <=> \A j \in 1 .. N : Holds(q[l][j], q, attrs, values, val, sat)
  BY DEF Setting, IsSat, AllHold
<1>5. Sound(M, sat, q, values, scope, l)
  <2>. SUFFICES ASSUME NEW b \in Binding(q, values), DOMAIN b = scope[l], NEW x \in M[l][b]
                PROVE  /\ DOMAIN x = Known(q, scope, l)
                       /\ \A v \in scope[l] : x[v] = b[v]
                       /\ \A val : Wide(val, q, values, scope, l) /\ Close(x, val, Known(q, scope, l)) =>
                              sat[l][val]
    BY DEF Sound
  <2>. HIDE DEF N
  <2>1. PICK W : M[l][b] = W[N] /\ SoundTo(W, sat, q, attrs, values, scope, l, b, N)
    BY <1>2
  <2>2. /\ DOMAIN x = Known(q, scope, l)
        /\ \A v \in scope[l] : x[v] = b[v]
        /\ \A val : Wide(val, q, values, scope, l) /\ Close(x, val, Known(q, scope, l)) =>
               \A j \in 1 .. N : Holds(q[l][j], q, attrs, values, val, sat)
    BY <1>3, <2>1 DEF SoundTo
  <2>. QED BY <1>4, <2>2 DEF Wide
<1>6. Complete(M, sat, q, values, scope, l)
  <2>. SUFFICES ASSUME NEW b \in Binding(q, values), DOMAIN b = scope[l],
                       NEW val, Wide(val, q, values, scope, l), Close(b, val, scope[l]), sat[l][val]
                PROVE  \E x \in M[l][b] : Close(x, val, Known(q, scope, l))
    BY DEF Complete
  <2>. HIDE DEF N
  <2>1. PICK W : M[l][b] = W[N] /\ CompleteTo(W, sat, q, attrs, values, scope, l, b, N)
    BY <1>2
  <2>2. \A j \in 1 .. N : Holds(q[l][j], q, attrs, values, val, sat)
    BY <1>4 DEF Wide
  <2>. QED BY <1>3, <2>1, <2>2 DEF CompleteTo
<1>. QED BY <1>5, <1>6

\* All lists agree with their meaning.
LEMMA ListsAgree ==
    ASSUME NEW q, NEW attrs, NEW values, NEW scope, NEW M, NEW sat,
           Setting(q, attrs, values, scope, M, sat)
    PROVE  \A l \in 1 .. Len(q) :
              Sound(M, sat, q, values, scope, l) /\ Complete(M, sat, q, values, scope, l)
<1> DEFINE L == Len(q)
           OK == {l \in 1 .. L : Sound(M, sat, q, values, scope, l) /\ Complete(M, sat, q, values, scope, l)}
<1>0. L \in Nat
  BY DEF Setting, IsQuery
<1>1. ASSUME NEW l \in 1 .. L, \A m \in l + 1 .. L : m \in OK PROVE l \in OK
  <2>1. LaterAgree(M, sat, q, values, scope, l)
    BY <1>1 DEF LaterAgree
  <2>. QED BY <2>1, ListAgrees
<1>. HIDE DEF OK, L
<1>2. 1 .. L \subseteq OK
  BY <1>0, <1>1, Downwards
<1>. QED BY <1>2 DEF OK, L

\* The composer finds a document exactly when some valuation of the variables
\* satisfies the query, for queries whose clauses are in an order it supports.
LEMMA MatcherAgrees ==
    ASSUME NEW q, IsQuery(q), Ordered(q), NEW attrs, NEW id
    PROVE  Matcher(q, attrs, Values(attrs, id))[1][Start(id)] # {} <=> Matches(q, attrs, id)
<1> DEFINE values == Values(attrs, id)
           M == Matcher(q, attrs, values)
           sat == Satisfies(q, attrs, values)
           b == Start(id)
<1>0. 1 \in 1 .. Len(q) /\ Len(q) \in Nat
  BY DEF IsQuery
<1>1. id \in values /\ \A a \in attrs : a.val \in values
  BY DEF Values
<1>2. PICK scope \in [1 .. Len(q) -> SUBSET Variables(q)] : Scoped(q, scope)
  BY DEF Ordered
<1>3. Setting(q, attrs, values, scope, M, sat)
  BY <1>1, <1>2, MatcherTable, SatTable DEF Setting
<1>4. scope[1] = {"?e"}
  BY <1>2 DEF Scoped
<1>. HIDE DEF values, M, sat
<1>5. Sound(M, sat, q, values, scope, 1) /\ Complete(M, sat, q, values, scope, 1)
  BY <1>0, <1>3, ListsAgree
<1>6. b \in Binding(q, values) /\ DOMAIN b = scope[1] /\ b["?e"] = id
  <2>1. DOMAIN b = {"?e"} /\ b["?e"] = id /\ b = [v \in DOMAIN b |-> b[v]]
    BY DEF Start
  <2>2. {"?e"} \subseteq Variables(q)
    BY DEF Variables
  <2>3. b \in [DOMAIN b -> values] /\ DOMAIN b \subseteq Variables(q)
    BY <1>1, <2>1, <2>2
  <2>. QED BY <1>4, <2>1, <2>3, BindingIs
<1>. HIDE DEF b
<1> DEFINE V == {"?e"} \cup ListVars(q, 1)
<1>7. Known(q, scope, 1) = V
  BY <1>4, KnownIs
<1>8. ASSUME NEW val \in [V -> values] PROVE Wide(val, q, values, scope, 1)
  <2>1. V \subseteq Variables(q)
    BY <1>0 DEF Variables
  <2>2. val \in Binding(q, values)
    BY <2>1, BindingIs
  <2>3. ASSUME NEW m \in 2 .. Len(q) PROVE V \cap Introduced(q, scope, m) = {}
    <3>1. m \in 1 .. Len(q) /\ 1 \in 1 .. m - 1
      BY <1>0
    <3>2. Introduced(q, scope, m) \cap Known(q, scope, 1) = {}
      BY <1>2, <3>1 DEF Scoped
    <3>. QED BY <1>7, <3>2
  <2>. HIDE DEF V
  <2>. QED BY <1>7, <2>2, <2>3 DEF Wide
<1>9. Matches(q, attrs, id) <=> \E val \in [V -> values] : val["?e"] = id /\ sat[1][val]
  BY DEF Matches, values, sat
<1>10. ASSUME NEW x \in M[1][b] PROVE \E val \in [V -> values] : val["?e"] = id /\ sat[1][val]
  <2>1. DOMAIN x = V /\ \A v \in scope[1] : x[v] = b[v]
    BY <1>5, <1>6, <1>7, <1>10 DEF Sound
  <2>2. x \in Binding(q, values)
    BY <1>0, <1>3, <1>6, <1>10 DEF Setting, IsMatcher
  <2>3. x \in [V -> values]
    BY <2>1, <2>2, BindingIs
  <2>4. Close(x, x, V)
    BY EqualReflexive DEF Close
  <2>5. sat[1][x]
    <3>. HIDE DEF V
    <3>. QED BY <1>5, <1>6, <1>7, <1>8, <1>10, <2>3, <2>4 DEF Sound
  <2>6. x["?e"] = id
    BY <1>4, <1>6, <2>1
  <2>. QED BY <2>3, <2>5, <2>6
<1>11. ASSUME NEW val \in [V -> values], val["?e"] = id, sat[1][val] PROVE M[1][b] # {}
  <2>1. Close(b, val, scope[1])
    BY <1>4, <1>6, <1>11, EqualReflexive DEF Close
  <2>2. Wide(val, q, values, scope, 1)
    BY <1>8
  <2>. QED BY <1>5, <1>6, <1>11, <2>1, <2>2 DEF Complete
<1>. QED BY <1>9, <1>10, <1>11 DEF M, b, values

----------------------------------------------------------------------------
(* The roll-ups.                                                           *)

\* The matches of a query: a number under a variable is one.
MatchesTyped(ms) ==
    /\ Len(ms) \in Nat
    /\ \A i \in 1 .. Len(ms) : \A v \in DOMAIN ms[i] : ms[i][v].kind = "num" => ms[i][v].num \in Int

\* The positions with a number, and the number there.
LEMMA NumericTyped ==
    ASSUME NEW t, NEW ms, MatchesTyped(ms), NEW P \in SUBSET (1 .. Len(ms)),
           NEW i \in Numeric(t, ms, P)
    PROVE  NumberOf(t, ms, i) \in Int /\ i \in P /\ i \in 1 .. Len(ms)
<1>1. i \in P /\ Bound(ms[i], t.var).kind = "num"
  BY DEF Numeric
<1>2. t.var \in DOMAIN ms[i]
  BY <1>1 DEF Bound, Nil
<1>. QED BY <1>1, <1>2 DEF MatchesTyped, Bound, NumberOf

\* A is the running sum over the members N.
IsSum(A, t, ms, N) ==
    /\ A \in [0 .. Len(ms) -> Int]
    /\ A[0] = 0
    /\ \A i \in 1 .. Len(ms) :
          A[i] = IF i \in N THEN A[i - 1] + NumberOf(t, ms, i) ELSE A[i - 1]

\* The loop of aggQuerySumOver runs match by match.
LEMMA SumTable ==
    ASSUME NEW t, NEW ms, MatchesTyped(ms), NEW P \in SUBSET (1 .. Len(ms))
    PROVE  IsSum(aggQuerySumOver(t, ms, P), t, ms, Numeric(t, ms, P))
<1> DEFINE n == Len(ms)
           N == Numeric(t, ms, P)
           To(x, i) == IF i \in N THEN x + NumberOf(t, ms, i) ELSE x
           step == [y \in Int \X (1 .. n) |-> To(y[1], y[2])]
           Good(f) == f = [i \in 0 .. n |-> IF i = 0 THEN 0 ELSE To(f[i - 1], i)]
           A == aggQuerySumOver(t, ms, P)
<1>0. n \in Nat
  BY DEF MatchesTyped
<1>1. ASSUME NEW x \in Int, NEW i \in 1 .. n PROVE To(x, i) \in Int
  BY NumericTyped
<1>. HIDE DEF To
<1>2. step \in [Int \X (1 .. n) -> Int]
  BY <1>1
<1>3. \E g : Solves(g, Int, 0, n, step)
  <2>. HIDE DEF step, n
  <2>1. 0 \in Int
    OBVIOUS
  <2>. QED BY <1>0, <1>2, <2>1, Recursion, Zenon
<1>4. PICK g : Solves(g, Int, 0, n, step)
  BY <1>3
<1>5. g \in [0 .. n -> Int] /\ g[0] = 0
  BY <1>4 DEF Solves
<1>6. ASSUME NEW i \in 1 .. n PROVE g[i] = To(g[i - 1], i)
  <2>1. g[i] = step[<<g[i - 1], i>>]
    BY <1>4 DEF Solves
  <2>2. <<g[i - 1], i>> \in Int \X (1 .. n)
    BY <1>0, <1>5
  <2>. QED BY <2>1, <2>2
<1>7. Good(g)
  <2>1. ASSUME NEW i \in 0 .. n PROVE g[i] = IF i = 0 THEN 0 ELSE To(g[i - 1], i)
    BY <1>0, <1>5, <1>6
  <2>. QED BY <1>5, <2>1
<1>8. A = CHOOSE f : Good(f)
  BY DEF aggQuerySumOver, To, NumberOf
<1>. HIDE DEF Good, A, n
<1>9. Good(A)
  BY <1>7, <1>8
<1>10. A[0] = 0 /\ \A i \in 1 .. n : A[i] = To(A[i - 1], i)
  BY <1>0, <1>9 DEF Good
<1> DEFINE OK == {i \in 0 .. n : A[i] \in Int}
<1>11. 0 \in OK
  BY <1>0, <1>10
<1>12. ASSUME NEW i \in 1 .. n, i - 1 \in OK PROVE i \in OK
  <2>1. A[i - 1] \in Int /\ A[i] = To(A[i - 1], i)
    BY <1>10, <1>12
  <2>2. To(A[i - 1], i) \in Int
    BY <1>1, <2>1
  <2>. QED BY <1>0, <2>1, <2>2
<1>. HIDE DEF OK
<1>13. 0 .. n \subseteq OK
  BY <1>0, <1>11, <1>12, UpTo
<1>14. A = [i \in 0 .. n |-> A[i]]
  BY <1>9 DEF Good
<1>15. A \in [0 .. n -> Int]
  BY <1>13, <1>14 DEF OK
<1>. QED BY <1>10, <1>15 DEF IsSum, A, n, To

\* The sum A is the one of B and the number of x.
AddsUp(A, B, t, ms, x) == A[Len(ms)] = NumberOf(t, ms, x) + B[Len(ms)]

\* A member adds its number to the sum.
LEMMA SumAdds ==
    ASSUME NEW t, NEW ms, Len(ms) \in Nat, NEW N \in SUBSET (1 .. Len(ms)), NEW x \in N,
           \A i \in N : NumberOf(t, ms, i) \in Int,
           NEW A, IsSum(A, t, ms, N), NEW B, IsSum(B, t, ms, N \ {x})
    PROVE  AddsUp(A, B, t, ms, x)
<1> DEFINE n == Len(ms)
           w(i) == NumberOf(t, ms, i)
           OK == {i \in 0 .. n : A[i] = B[i] + (IF x <= i THEN w(x) ELSE 0)}
<1>0. n \in Nat /\ x \in 1 .. n /\ \A i \in N : w(i) \in Int
  OBVIOUS
<1>1. /\ A \in [0 .. n -> Int] /\ A[0] = 0
      /\ \A i \in 1 .. n : A[i] = IF i \in N THEN A[i - 1] + w(i) ELSE A[i - 1]
  BY DEF IsSum
<1>2. /\ B \in [0 .. n -> Int] /\ B[0] = 0
      /\ \A i \in 1 .. n : B[i] = IF i \in N \ {x} THEN B[i - 1] + w(i) ELSE B[i - 1]
  BY DEF IsSum
<1>. HIDE DEF w, n
<1>3. 0 \in OK
  BY <1>0, <1>1, <1>2
<1>4. ASSUME NEW i \in 1 .. n, i - 1 \in OK PROVE i \in OK
  <2>1. A[i - 1] = B[i - 1] + (IF x <= i - 1 THEN w(x) ELSE 0)
    BY <1>4
  <2>2. B[i - 1] \in Int /\ A[i - 1] \in Int /\ i - 1 \in Int /\ x \in Int /\ w(x) \in Int /\ x \in N
    BY <1>0, <1>1, <1>2
  <2>3. CASE i = x
    BY <1>0, <1>1, <1>2, <2>1, <2>2, <2>3
  <2>4. CASE i # x /\ i \in N
    <3>1. w(i) \in Int /\ (x <= i <=> x <= i - 1)
      BY <1>0, <2>4
    <3>2. A[i] = A[i - 1] + w(i) /\ B[i] = B[i - 1] + w(i)
      BY <1>1, <1>2, <2>4
    <3>3. A[i] = B[i] + (IF x <= i THEN w(x) ELSE 0)
      <4>1. CASE x <= i
        <5>1. A[i - 1] = B[i - 1] + w(x)
          BY <2>1, <3>1, <4>1
        <5>. QED BY <2>2, <3>1, <3>2, <4>1, <5>1
      <4>2. CASE ~(x <= i)
        <5>1. A[i - 1] = B[i - 1]
          BY <2>1, <2>2, <3>1, <4>2
        <5>. QED BY <2>2, <3>1, <3>2, <4>2, <5>1
      <4>. QED BY <4>1, <4>2
    <3>. QED BY <1>0, <3>3
  <2>5. CASE i # x /\ i \notin N
    BY <1>0, <1>1, <1>2, <2>1, <2>2, <2>5
  <2>. QED BY <2>3, <2>4, <2>5
<1>. HIDE DEF OK
<1>5. 0 .. n \subseteq OK
  BY <1>0, <1>3, <1>4, UpTo
<1>6. A[n] = B[n] + w(x)
  BY <1>0, <1>5 DEF OK
<1>7. B[n] \in Int /\ w(x) \in Int
  BY <1>0, <1>2
<1>. QED BY <1>6, <1>7 DEF w, n, AddsUp

\* The fold over a set of members, and the loop over the matches, add up the
\* same numbers.
LEMMA SumIsSum ==
    ASSUME NEW t, NEW ms, MatchesTyped(ms), NEW P \in SUBSET (1 .. Len(ms))
    PROVE  SumOf(t, ms, Numeric(t, ms, P)) = aggQuerySumOver(t, ms, P)[Len(ms)]
<1> DEFINE n == Len(ms)
           N == Numeric(t, ms, P)
           pick(s) == CHOOSE x \in s : TRUE
           G(s) == aggQuerySumOver(t, ms, s)[n]
           To(f, s) == IF s = {} THEN 0 ELSE NumberOf(t, ms, pick(s)) + f[s \ {pick(s)}]
           Good(f) == f = [s \in SUBSET N |-> To(f, s)]
           it == CHOOSE f : Good(f)
           g == [s \in SUBSET N |-> G(s)]
<1>0. n \in Nat /\ N \in SUBSET (1 .. n) /\ IsFiniteSet(N)
  <2>1. n \in Nat /\ N \in SUBSET (1 .. n)
    BY DEF MatchesTyped, Numeric
  <2>2. IsFiniteSet(1 .. n)
    BY <2>1, FS_Interval
  <2>. QED BY <2>1, <2>2, FS_Subset
<1>1. SumOf(t, ms, N) = it[N]
  BY DEF SumOf, MapThenSumSet, MapThenFoldSet
<1>2. \A i \in N : NumberOf(t, ms, i) \in Int
  BY NumericTyped
<1>3. ASSUME NEW s \in SUBSET N PROVE IsSum(aggQuerySumOver(t, ms, s), t, ms, s)
  <2>1. s \in SUBSET (1 .. n)
    BY <1>0
  <2>2. Numeric(t, ms, s) = s
    BY DEF Numeric
  <2>. QED BY <2>1, <2>2, SumTable
<1>4. ASSUME NEW s \in SUBSET N, s # {} PROVE G(s) = NumberOf(t, ms, pick(s)) + G(s \ {pick(s)})
  <2> DEFINE x == pick(s)
  <2>1. x \in s
    BY <1>4
  <2>. HIDE DEF x
  <2>2. s \in SUBSET (1 .. n) /\ s \ {x} \in SUBSET N /\ \A i \in s : NumberOf(t, ms, i) \in Int
    BY <1>0, <1>2
  <2>3. IsSum(aggQuerySumOver(t, ms, s), t, ms, s) /\ IsSum(aggQuerySumOver(t, ms, s \ {x}), t, ms, s \ {x})
    BY <1>3, <2>2
  <2>4. AddsUp(aggQuerySumOver(t, ms, s), aggQuerySumOver(t, ms, s \ {x}), t, ms, x)
    BY <1>0, <2>1, <2>2, <2>3, SumAdds
  <2>. QED BY <2>4 DEF x, AddsUp
<1>5. G({}) = 0
  <2> DEFINE A == aggQuerySumOver(t, ms, {})
             OK == {i \in 0 .. n : A[i] = 0}
  <2>1. IsSum(A, t, ms, {})
    BY <1>3
  <2>2. A[0] = 0 /\ \A i \in 1 .. n : A[i] = A[i - 1]
    BY <2>1 DEF IsSum
  <2>. HIDE DEF A
  <2>3. 0 \in OK /\ \A i \in 1 .. n : i - 1 \in OK => i \in OK
    BY <1>0, <2>2
  <2>. HIDE DEF OK
  <2>4. 0 .. n \subseteq OK
    BY <1>0, <2>3, UpTo
  <2>. QED BY <1>0, <2>4 DEF OK, A
<1>. HIDE DEF pick, G, n, N
<1>6. Good(g)
  <2>1. ASSUME NEW s \in SUBSET N PROVE g[s] = To(g, s)
    <3>1. CASE s = {}
      BY <1>5, <3>1
    <3>2. CASE s # {}
      BY <1>4, <3>2
    <3>. QED BY <3>1, <3>2
  <2>. QED BY <2>1
<1>7. Good(it)
  <2>. HIDE DEF Good, g
  <2>. QED BY <1>6
<1>8. \A s \in SUBSET N : it[s] = To(it, s)
  <2>. HIDE DEF it, To
  <2>. QED BY <1>7
<1>. HIDE DEF it, Good, g
<1>9. \A s \in SUBSET N : it[s] = G(s)
  <2> DEFINE bad == {s \in SUBSET N : it[s] # G(s)}
             sizes == {Cardinality(s) : s \in bad}
  <2>. SUFFICES ASSUME bad # {} PROVE FALSE
    OBVIOUS
  <2>1. \A s \in SUBSET N : IsFiniteSet(s) /\ Cardinality(s) \in Nat
    BY <1>0, FS_Subset, FS_CardinalityType
  <2>2. sizes \in SUBSET Nat /\ sizes # {}
    BY <2>1
  <2>3. PICK m \in sizes : \A k \in sizes : m <= k
    <3>. HIDE DEF sizes
    <3>. QED BY <2>2, LeastNumber
  <2>4. PICK s \in bad : Cardinality(s) = m
    OBVIOUS
  <2>5. s # {}
    BY <1>5, <1>8
  <2>6. pick(s) \in s
    BY <2>5 DEF pick
  <2>7. s \ {pick(s)} \in SUBSET N /\ Cardinality(s \ {pick(s)}) = m - 1
    BY <2>1, <2>4, <2>6, FS_RemoveElement
  <2>8. s \ {pick(s)} \notin bad
    <3>1. m \in Nat
      BY <2>2, <2>3
    <3>2. m - 1 \notin sizes
      <4>. HIDE DEF sizes
      <4>. QED BY <2>3, <3>1
    <3>. QED BY <2>7, <3>2
  <2>9. it[s \ {pick(s)}] = G(s \ {pick(s)})
    BY <2>7, <2>8
  <2>. QED BY <1>4, <1>8, <2>4, <2>5, <2>9
<1>10. aggQuerySumOver(t, ms, N) = aggQuerySumOver(t, ms, P)
  <2>1. Numeric(t, ms, N) = Numeric(t, ms, P)
    BY DEF N, Numeric
  <2>. QED BY <2>1 DEF aggQuerySumOver
<1>. QED BY <1>1, <1>9, <1>10 DEF G, n, N

\* The loops for the largest (up) and the smallest number.
Better(up, x, y) == IF up THEN x > y ELSE x < y
BestOf(b, t, ms, N, up, i) ==
    IF i \in N /\ (b = NoValue \/ Better(up, NumberOf(t, ms, i), b.num))
    THEN Fraction(NumberOf(t, ms, i), 1) ELSE b
BestLoop(f, t, ms, N, up) ==
    f = [i \in 0 .. Len(ms) |-> IF i = 0 THEN NoValue ELSE BestOf(f[i - 1], t, ms, N, up, i)]

\* b is the best number of N, if N has one.
IsBest(b, t, ms, N, up) ==
    IF N = {} THEN b = NoValue
    ELSE \E k \in N : /\ b = Fraction(NumberOf(t, ms, k), 1)
                      /\ \A j \in N : ~Better(up, NumberOf(t, ms, j), NumberOf(t, ms, k))

\* One round of either loop.
LEMMA BestRound ==
    ASSUME NEW t, NEW ms, NEW n \in Nat, NEW N \in SUBSET (1 .. n),
           \A i \in N : NumberOf(t, ms, i) \in Int, NEW up \in BOOLEAN, NEW i \in 1 .. n,
           NEW b, IsBest(b, t, ms, N \cap 1 .. i - 1, up)
    PROVE  IsBest(BestOf(b, t, ms, N, up, i), t, ms, N \cap 1 .. i, up)
<1> DEFINE w(j) == NumberOf(t, ms, j)
           E == N \cap 1 .. i - 1
           F == N \cap 1 .. i
<1>0. \A j \in N : w(j) \in Int
  OBVIOUS
<1>. HIDE DEF w
<1>1. CASE i \notin N
  <2>1. F = E
    BY <1>1
  <2>2. BestOf(b, t, ms, N, up, i) = b
    BY <1>1 DEF BestOf
  <2>. QED BY <2>1, <2>2
<1>2. CASE i \in N
  <2>0. F = E \cup {i} /\ F # {} /\ i \in F /\ E \subseteq N
    BY <1>2
  <2>. HIDE DEF E, F
  <2>1. CASE E = {}
    <3>1. b = NoValue
      BY <2>1 DEF IsBest, E
    <3>2. BestOf(b, t, ms, N, up, i) = Fraction(w(i), 1)
      BY <1>2, <3>1 DEF BestOf, w
    <3>3. ~Better(up, w(i), w(i))
      BY <1>0, <1>2 DEF Better
    <3>. QED BY <2>0, <2>1, <3>2, <3>3 DEF IsBest, w, F
  <2>2. CASE E # {}
    <3>1. PICK k \in E : /\ b = Fraction(w(k), 1)
                         /\ \A j \in E : ~Better(up, w(j), w(k))
      BY <2>2 DEF IsBest, E, w
    <3>2. b # NoValue /\ b.num = w(k) /\ w(k) \in Int /\ w(i) \in Int /\ \A j \in E : w(j) \in Int
      BY <1>0, <1>2, <2>0, <3>1 DEF Fraction, NoValue
    <3>3. BestOf(b, t, ms, N, up, i) = IF Better(up, w(i), w(k)) THEN Fraction(w(i), 1) ELSE b
      BY <1>2, <3>2 DEF BestOf, w
    <3>4. CASE Better(up, w(i), w(k))
      <4>1. \A j \in F : ~Better(up, w(j), w(i))
        BY <2>0, <3>1, <3>2, <3>4 DEF Better
      <4>. QED BY <2>0, <3>3, <3>4, <4>1 DEF IsBest, w, F
    <3>5. CASE ~Better(up, w(i), w(k))
      <4>1. k \in F /\ \A j \in F : ~Better(up, w(j), w(k))
        BY <2>0, <3>1, <3>5
      <4>2. BestOf(b, t, ms, N, up, i) = Fraction(w(k), 1)
        BY <3>1, <3>3, <3>5
      <4>. QED BY <2>0, <4>1, <4>2 DEF IsBest, w, F
    <3>. QED BY <3>4, <3>5
  <2>. QED BY <2>1, <2>2
<1>. QED BY <1>1, <1>2

\* After all rounds.
LEMMA BestTable ==
    ASSUME NEW t, NEW ms, Len(ms) \in Nat, NEW N \in SUBSET (1 .. Len(ms)),
           \A i \in N : NumberOf(t, ms, i) \in Int, NEW up \in BOOLEAN
    PROVE  IsBest((CHOOSE f : BestLoop(f, t, ms, N, up))[Len(ms)], t, ms, N, up)
<1> DEFINE n == Len(ms)
           S == {NoValue} \cup {Fraction(p, 1) : p \in Int}
           To(b, i) == BestOf(b, t, ms, N, up, i)
           step == [y \in S \X (1 .. n) |-> To(y[1], y[2])]
           A == CHOOSE f : BestLoop(f, t, ms, N, up)
<1>0. n \in Nat /\ NoValue \in S
  OBVIOUS
<1>1. ASSUME NEW b \in S, NEW i \in 1 .. n PROVE To(b, i) \in S
  BY DEF BestOf
<1>. HIDE DEF To, S
<1>2. step \in [S \X (1 .. n) -> S]
  BY <1>1
<1>3. \E g : Solves(g, S, NoValue, n, step)
  <2>. HIDE DEF step, n
  <2>. QED BY <1>0, <1>2, Recursion, Zenon
<1>4. PICK g : Solves(g, S, NoValue, n, step)
  BY <1>3
<1>5. g \in [0 .. n -> S] /\ g[0] = NoValue
  BY <1>4 DEF Solves
<1>6. ASSUME NEW i \in 1 .. n PROVE g[i] = To(g[i - 1], i)
  <2>1. g[i] = step[<<g[i - 1], i>>]
    BY <1>4 DEF Solves
  <2>2. <<g[i - 1], i>> \in S \X (1 .. n)
    BY <1>0, <1>5
  <2>. QED BY <2>1, <2>2
<1>7. BestLoop(g, t, ms, N, up)
  <2>1. ASSUME NEW i \in 0 .. n PROVE g[i] = IF i = 0 THEN NoValue ELSE To(g[i - 1], i)
    BY <1>0, <1>5, <1>6
  <2>2. g = [i \in 0 .. n |-> IF i = 0 THEN NoValue ELSE To(g[i - 1], i)]
    BY <1>5, <2>1
  <2>. QED BY <2>2 DEF BestLoop, To
<1>8. BestLoop(A, t, ms, N, up)
  <2>. QED BY <1>7, Zenon
<1>. HIDE DEF A
<1>9. A[0] = NoValue /\ \A i \in 1 .. n : A[i] = To(A[i - 1], i)
  BY <1>0, <1>8 DEF BestLoop, To
<1> DEFINE OK == {i \in 0 .. n : IsBest(A[i], t, ms, N \cap 1 .. i, up)}
<1>10. 0 \in OK
  <2>1. N \cap 1 .. 0 = {}
    OBVIOUS
  <2>. QED BY <1>0, <1>9, <2>1 DEF IsBest
<1>11. ASSUME NEW i \in 1 .. n, i - 1 \in OK PROVE i \in OK
  <2>1. IsBest(A[i - 1], t, ms, N \cap 1 .. i - 1, up)
    BY <1>11
  <2>2. IsBest(BestOf(A[i - 1], t, ms, N, up, i), t, ms, N \cap 1 .. i, up)
    BY <1>0, <2>1, BestRound
  <2>3. A[i] = BestOf(A[i - 1], t, ms, N, up, i)
    BY <1>9 DEF To
  <2>. QED BY <1>0, <2>2, <2>3
<1>. HIDE DEF OK
<1>12. 0 .. n \subseteq OK
  BY <1>0, <1>10, <1>11, UpTo
<1>13. IsBest(A[n], t, ms, N \cap 1 .. n, up)
  <2>. HIDE DEF n
  <2>. QED BY <1>0, <1>12 DEF OK
<1>14. N \cap 1 .. n = N
  OBVIOUS
<1>. QED BY <1>13, <1>14 DEF A

\* aggQueryMinOver and aggQueryMaxOver.
LEMMA ExtremesAgree ==
    ASSUME NEW t, NEW ms, MatchesTyped(ms), NEW P \in SUBSET (1 .. Len(ms))
    PROVE  LET N == Numeric(t, ms, P) IN
           /\ aggQueryMinOver(t, ms, P)[Len(ms)] =
                 IF N = {} THEN NoValue ELSE Fraction(Min(NumbersOf(t, ms, N)), 1)
           /\ aggQueryMaxOver(t, ms, P)[Len(ms)] =
                 IF N = {} THEN NoValue ELSE Fraction(Max(NumbersOf(t, ms, N)), 1)
<1> DEFINE n == Len(ms)
           N == Numeric(t, ms, P)
           W == NumbersOf(t, ms, N)
<1>0. n \in Nat /\ N \in SUBSET (1 .. n)
  BY DEF MatchesTyped, Numeric
<1>1. \A i \in N : NumberOf(t, ms, i) \in Int
  BY NumericTyped
<1>2. /\ aggQueryMinOver(t, ms, P) = CHOOSE f : BestLoop(f, t, ms, N, FALSE)
      /\ aggQueryMaxOver(t, ms, P) = CHOOSE f : BestLoop(f, t, ms, N, TRUE)
  BY DEF aggQueryMinOver, aggQueryMaxOver, BestLoop, BestOf, Better, NumberOf
<1>. HIDE DEF N, n
<1>3. /\ IsBest(aggQueryMinOver(t, ms, P)[n], t, ms, N, FALSE)
      /\ IsBest(aggQueryMaxOver(t, ms, P)[n], t, ms, N, TRUE)
  BY <1>0, <1>1, <1>2, BestTable DEF n
<1>4. CASE N = {}
  BY <1>3, <1>4 DEF IsBest, n, N
<1>5. CASE N # {}
  <2>0. W \subseteq Int /\ \A i \in N : NumberOf(t, ms, i) \in W
    BY <1>1 DEF NumbersOf
  <2>1. PICK k \in N : /\ aggQueryMinOver(t, ms, P)[n] = Fraction(NumberOf(t, ms, k), 1)
                       /\ \A j \in N : ~Better(FALSE, NumberOf(t, ms, j), NumberOf(t, ms, k))
    BY <1>3, <1>5 DEF IsBest
  <2>2. PICK m \in N : /\ aggQueryMaxOver(t, ms, P)[n] = Fraction(NumberOf(t, ms, m), 1)
                       /\ \A j \in N : ~Better(TRUE, NumberOf(t, ms, j), NumberOf(t, ms, m))
    BY <1>3, <1>5 DEF IsBest
  <2>3. NumberOf(t, ms, k) \in W /\ \A y \in W : NumberOf(t, ms, k) <= y
    BY <1>1, <2>1 DEF Better, NumbersOf
  <2>4. NumberOf(t, ms, m) \in W /\ \A y \in W : NumberOf(t, ms, m) >= y
    BY <1>1, <2>2 DEF Better, NumbersOf
  <2>. HIDE DEF W
  <2>5. Min(W) = NumberOf(t, ms, k)
    <3>1. Min(W) \in W /\ \A y \in W : Min(W) <= y
      BY <2>3 DEF Min
    <3>2. Min(W) <= NumberOf(t, ms, k) /\ NumberOf(t, ms, k) <= Min(W)
      BY <2>3, <3>1
    <3>3. Min(W) \in Int /\ NumberOf(t, ms, k) \in Int
      BY <2>0, <2>3, <3>1
    <3>. QED BY <3>2, <3>3
  <2>6. Max(W) = NumberOf(t, ms, m)
    <3>1. Max(W) \in W /\ \A y \in W : Max(W) >= y
      BY <2>4 DEF Max
    <3>2. Max(W) >= NumberOf(t, ms, m) /\ NumberOf(t, ms, m) >= Max(W)
      BY <2>4, <3>1
    <3>3. Max(W) \in Int /\ NumberOf(t, ms, m) \in Int
      BY <2>0, <2>4, <3>1
    <3>. QED BY <3>2, <3>3
  <2>. QED BY <1>5, <2>1, <2>2, <2>5, <2>6 DEF n, N, W
<1>. QED BY <1>4, <1>5

\* computeQueryAggregate is the roll-up of the members.
LEMMA ComputeIsRollUp ==
    ASSUME NEW a, a.fn \in {"count", "sum", "total", "avg", "min", "max"},
           NEW ms, MatchesTyped(ms), NEW P \in SUBSET (1 .. Len(ms))
    PROVE  computeQueryAggregate(a, ms, P) = RollUp(a, ms, P)
<1> DEFINE N == Numeric(a.over, ms, P)
<1>1. SumOf(a.over, ms, N) = aggQuerySumOver(a.over, ms, P)[Len(ms)]
  BY SumIsSum
<1>2. /\ aggQueryMinOver(a.over, ms, P)[Len(ms)] =
            IF N = {} THEN NoValue ELSE Fraction(Min(NumbersOf(a.over, ms, N)), 1)
      /\ aggQueryMaxOver(a.over, ms, P)[Len(ms)] =
            IF N = {} THEN NoValue ELSE Fraction(Max(NumbersOf(a.over, ms, N)), 1)
  BY ExtremesAgree
<1>3. Cardinality(N) = 0 <=> N = {}
  <2>1. Len(ms) \in Nat /\ N \in SUBSET (1 .. Len(ms))
    BY DEF MatchesTyped, Numeric
  <2>2. IsFiniteSet(N)
    <3>1. IsFiniteSet(1 .. Len(ms))
      BY <2>1, FS_Interval
    <3>. QED BY <2>1, <3>1, FS_Subset
  <2>. QED BY <2>2, FS_EmptySet
<1>. HIDE DEF N
<1>. QED BY <1>1, <1>2, <1>3 DEF computeQueryAggregate, RollUp, N

\* runQueryAggregates has one row per combination of values, with the
\* roll-ups of its members, when no two combinations have one text.
LEMMA AggregatesAgree ==
    ASSUME NEW ms, MatchesTyped(ms), NEW groupBy, NEW aggs, ~decodeAggregatesFails(aggs),
           Unambiguous(ms, groupBy)
    PROVE  runQueryAggregates(ms, groupBy, aggs) = Grouping(ms, groupBy, aggs)
<1> DEFINE all == 1 .. Len(ms)
           cols(i) == GroupColumns(ms[i], groupBy)
           text(i) == aggGroupKeyString(cols(i))
           group(k) == {i \in all : text(i) = k}
           first(k) == CHOOSE i \in group(k) : \A j \in group(k) : i <= j
           row(key, P) == [key |-> key,
                           vals |-> [n \in 1 .. Len(aggs) |-> computeQueryAggregate(aggs[n], ms, P)]]
           members(k) == {i \in all : cols(i) = k}
           out(k) == [key |-> k,
                      vals |-> [n \in 1 .. Len(aggs) |-> RollUp(aggs[n], ms, members(k))]]
<1>0. Len(ms) \in Nat
  BY DEF MatchesTyped
<1>1. ASSUME NEW P \in SUBSET all, NEW n \in 1 .. Len(aggs)
      PROVE  computeQueryAggregate(aggs[n], ms, P) = RollUp(aggs[n], ms, P)
  <2>1. aggs[n].fn \in {"count", "sum", "total", "avg", "min", "max"}
    BY DEF decodeAggregatesFails
  <2>. QED BY <2>1, ComputeIsRollUp
<1>2. ASSUME NEW k PROVE out(k) = row(k, members(k))
  BY <1>1
<1>3. runQueryAggregates(ms, groupBy, aggs) =
        IF groupBy = <<>> THEN {row(<<>>, all)}
        ELSE {row(cols(first(k)), group(k)) : k \in {text(i) : i \in all}}
  BY DEF runQueryAggregates
<1>4. Grouping(ms, groupBy, aggs) =
        {out(k) : k \in IF groupBy = <<>> THEN {<<>>} ELSE {cols(i) : i \in all}}
  BY DEF Grouping
<1>5. CASE groupBy = <<>>
  <2>1. ASSUME NEW i \in all PROVE cols(i) = <<>>
    BY <1>5 DEF GroupColumns
  <2>2. members(<<>>) = all
    BY <2>1
  <2>. HIDE DEF cols, row, out, members, all
  <2>. QED BY <1>2, <1>3, <1>4, <1>5, <2>2
<1>6. CASE groupBy # <<>>
  <2>1. \A i, j \in all : text(i) = text(j) => cols(i) = cols(j)
    BY DEF Unambiguous
  <2>2. ASSUME NEW i \in all PROVE group(text(i)) = members(cols(i)) /\ cols(first(text(i))) = cols(i)
    <3> DEFINE g == group(text(i))
    <3>1. g = members(cols(i))
      <4>. HIDE DEF cols
      <4>. QED BY <2>1
    <3>2. g \in SUBSET Nat /\ i \in g
      <4>. HIDE DEF cols
      <4>. QED BY <1>0
    <3>3. \E m \in g : \A j \in g : m <= j
      <4>. HIDE DEF g
      <4>. QED BY <3>2, LeastNumber
    <3>4. first(text(i)) \in g
      <4>. HIDE DEF cols, text
      <4>. QED BY <3>3
    <3>. HIDE DEF first, cols, text
    <3>. QED BY <3>1, <3>4
  <2>3. ASSUME NEW i \in all PROVE row(cols(first(text(i))), group(text(i))) = out(cols(i))
    <3>. HIDE DEF row, out, cols, text, group, members, first
    <3>. QED BY <1>2, <2>2
  <2>. HIDE DEF row, out, cols, text, group, members, first, all
  <2>. QED BY <1>3, <1>4, <1>6, <2>3
<1>. QED BY <1>5, <1>6
=============================================================================
