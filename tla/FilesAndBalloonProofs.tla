------------------------ MODULE FilesAndBalloonProofs ------------------------
(* Machine-checked proofs about what the tracers print into their /proc       *)
(* files, and about what the balloon daemon asks for.                         *)
(*                                                                            *)
(* The histograms: for every measured time, every sampling period and every   *)
(* number of buckets, each tracer counts the time in the bucket whose printed *)
(* range contains it.                                                         *)
(* The indices are defined by recursion on the time.  What they are is proved *)
(* by looking at the least time for which it would not hold.                  *)
(*                                                                            *)
(* The stacks: a reader prints complete stacks in order until a clear.        *)
(*                                                                            *)
(* The balloon: each request is made from sizes that were read one after the  *)
(* other; what it does to the guest follows from what was read.               *)
EXTENDS TracerOutput, Balloon, FiniteSetTheorems, WellFoundedInduction, TLAPS

------------------------------------------------------------------------------
(* Least elements and powers of two. *)

\* A set of natural numbers has a least element: the induction that the loops
\* over a time need.
LEMMA Least ==
  ASSUME NEW T, T \subseteq Nat, T # {}
  PROVE  \E x \in T : \A y \in T : x <= y
<1> DEFINE R == OpToRel(<, Nat)
<1>1. \E x \in T : \A y \in T : ~(<<y, x>> \in R)
  BY NatLessThanWellFounded, WFMin, Zenon
<1>2. ASSUME NEW x \in Nat, NEW y \in Nat, y < x
      PROVE  <<y, x>> \in R
  <2>1. <<y, x>> \in Nat \X Nat /\ <<y, x>>[1] = y /\ <<y, x>>[2] = x
    OBVIOUS
  <2>2. <<y, x>>[1] < <<y, x>>[2]
    BY <1>2, <2>1
  <2>3. <<y, x>> \in {ss \in Nat \X Nat : ss[1] < ss[2]}
    BY <2>1, <2>2
  <2> QED
    BY <2>3, Zenon DEF OpToRel
<1> HIDE DEF R
<1>3. PICK x \in T : \A y \in T : ~(<<y, x>> \in R)
  BY <1>1, Zenon
<1>4. ASSUME NEW y \in T
      PROVE  x <= y
  <2>1. x \in Nat /\ y \in Nat
    OBVIOUS
  <2>2. y < x => <<y, x>> \in R
    BY <1>2, <2>1, Zenon
  <2>3. ~(y < x)
    BY <1>3, <2>2, Zenon
  <2> QED
    BY <2>1, <2>3
<1> QED
  BY <1>4

\* The powers of two that scale_min and scale_max print, counted as sets of
\* subsets.
LEMMA Power ==
  ASSUME NEW n \in Nat
  PROVE  /\ 2 ^ n \in Nat \ {0}
         /\ 2 ^ (n + 1) = 2 * 2 ^ n
<1> DEFINE S == 1 .. n
           T == 1 .. (n + 1)
           P == SUBSET S
           Q == {A \in SUBSET T : n + 1 \in A}
           f == [A \in P |-> A \cup {n + 1}]
<1>1. /\ IsFiniteSet(S) /\ Cardinality(S) = n
      /\ IsFiniteSet(T) /\ Cardinality(T) = n + 1
  BY FS_Interval
<1>2. T = S \cup {n + 1} /\ n + 1 \notin S
  OBVIOUS
<1> HIDE DEF S, T
<1>3. /\ IsFiniteSet(P) /\ Cardinality(P) = 2 ^ n
      /\ Cardinality(SUBSET T) = 2 ^ (n + 1)
  BY <1>1, FS_SUBSET, Zenon
<1>4. ExistsBijection(P, Q)
  <2>1. f \in [P -> Q]
    BY <1>2
  <2>2. \A A, B \in P : f[A] = f[B] => A = B
    BY <1>2
  <2>3. ASSUME NEW B \in Q
        PROVE  \E A \in P : f[A] = B
    <3>1. B \ {n + 1} \in P /\ f[B \ {n + 1}] = B
      BY <1>2
    <3> QED
      BY <3>1, Zenon
  <2>4. f \in Bijection(P, Q)
    <3> HIDE DEF f, P, Q
    <3> QED
      BY <2>1, <2>2, <2>3 DEF Bijection, Injection, Surjection, IsInjective
  <2> QED
    BY <2>4, Zenon DEF ExistsBijection
<1>5. SUBSET T = P \cup Q /\ P \cap Q = {}
  BY <1>2
<1>6. P # {}
  OBVIOUS
<1> HIDE DEF P, Q
<1>7. IsFiniteSet(Q) /\ Cardinality(Q) = Cardinality(P)
  BY <1>3, <1>4, FS_Bijection
<1>8. Cardinality(P \cup Q) = Cardinality(P) + Cardinality(Q) - Cardinality(P \cap Q)
  BY <1>3, <1>7, FS_Union
<1>9. Cardinality(P) \in Nat /\ Cardinality(P \cap Q) = 0
  BY <1>3, <1>5, FS_CardinalityType, FS_EmptySet, Zenon
<1>10. Cardinality(P) # 0
  BY <1>3, <1>6, FS_EmptySet
<1>11. Cardinality(SUBSET T) = 2 * Cardinality(P) /\ Cardinality(P) \in Nat \ {0}
  <2>1. Cardinality(SUBSET T) = Cardinality(P \cup Q)
    BY <1>5, Zenon
  <2> DEFINE p == Cardinality(P)
  <2>2. p \in Nat /\ p # 0 /\ Cardinality(P \cup Q) = p + p - 0
    BY <1>7, <1>8, <1>9, <1>10, Zenon
  <2> HIDE DEF p
  <2>3. p + p - 0 = 2 * p
    BY <2>2
  <2> QED
    BY <2>1, <2>2, <2>3, Zenon DEF p
<1> QED
  BY <1>3, <1>11, Zenon

\* A larger exponent gives a larger power.
LEMMA PowerMonotonic ==
  ASSUME NEW m \in Nat, NEW n \in Nat, m <= n
  PROVE  2 ^ m <= 2 ^ n
<1> DEFINE T == {k \in Nat : m <= k /\ ~(2 ^ m <= 2 ^ k)}
<1> SUFFICES ASSUME T # {} PROVE FALSE
  OBVIOUS
<1>1. PICK x \in T : \A y \in T : x <= y
  BY Least, Zenon
<1>2. x \in Nat /\ m <= x /\ ~(2 ^ m <= 2 ^ x)
  OBVIOUS
<1>3. 2 ^ m \in Nat /\ 2 ^ x \in Nat
  BY <1>2, Power
<1>4. x # m
  BY <1>2, <1>3
<1> DEFINE y == x - 1
<1>5. y \in Nat /\ m <= y /\ y + 1 = x
  BY <1>2, <1>4
<1>6. y \notin T
  BY <1>1, <1>5
<1> HIDE DEF y
<1>7. 2 ^ m <= 2 ^ y
  BY <1>5, <1>6
<1>8. 2 ^ y \in Nat /\ 2 ^ (y + 1) = 2 * 2 ^ y
  BY <1>5, Power
<1>9. 2 ^ x = 2 * 2 ^ y
  BY <1>5, <1>8, Zenon
<1> QED
  BY <1>2, <1>3, <1>7, <1>8, <1>9

------------------------------------------------------------------------------
(* The halving loops have a value for every time. *)

\* The body of the three loops: a time in Stop ends the loop with the value v,
\* any other time is halved.
Body(f, Stop, v, d) == IF d \in Stop THEN v ELSE 1 + f[d \div 2]

\* The functions that the loop computes for the times up to n.
Upto(n, Stop, v) ==
  {g \in [0 .. n -> Int] : \A d \in 0 .. n : g[d] = Body(g, Stop, v, d)}

\* The sets of times at which a halving loop ends: 0 has to be one of them.
Stops == {Stop \in SUBSET Nat : 0 \in Stop}

\* Halving a time that does not end the loop gives a smaller one.
LEMMA HalfSmaller ==
  ASSUME NEW Stop \in Stops, NEW d \in Nat, d \notin Stop
  PROVE  d \div 2 \in 0 .. d - 1
<1>1. d # 0
  BY DEF Stops
<1> QED
  BY <1>1

\* The loop has a value for the times up to every bound.
LEMMA UptoExists ==
  ASSUME NEW Stop \in Stops, NEW v \in Int, NEW n \in Nat
  PROVE  \E g : g \in Upto(n, Stop, v)
<1> DEFINE T == {m \in Nat : ~\E g : g \in Upto(m, Stop, v)}
<1> SUFFICES ASSUME T # {} PROVE FALSE
  OBVIOUS
<1>1. PICK x \in T : \A y \in T : x <= y
  BY Least, Zenon
<1>2. x \in Nat /\ ~\E g : g \in Upto(x, Stop, v)
  OBVIOUS
<1>3. CASE x = 0
  <2> DEFINE g == [d \in 0 .. 0 |-> v]
  <2>1. g \in [0 .. 0 -> Int] /\ \A d \in 0 .. 0 : d \in Stop /\ g[d] = v
    BY DEF Stops
  <2>2. g \in Upto(0, Stop, v)
    BY <2>1 DEF Upto, Body
  <2> QED
    BY <1>2, <1>3, <2>2
<1>4. CASE x # 0
  <2>1. x - 1 \in Nat /\ x - 1 \notin T
    BY <1>1, <1>2, <1>4
  <2>2. PICK g : g \in Upto(x - 1, Stop, v)
    BY <2>1
  <2>3. /\ g \in [0 .. x - 1 -> Int]
        /\ \A d \in 0 .. x - 1 : g[d] = Body(g, Stop, v, d)
    BY <2>2 DEF Upto
  <2> HIDE DEF T
  <2> DEFINE h == [d \in 0 .. x |-> IF d < x THEN g[d] ELSE Body(g, Stop, v, x)]
  <2>4. Body(g, Stop, v, x) \in Int
    BY <1>2, <2>3, HalfSmaller DEF Body
  <2>5. /\ h \in [0 .. x -> Int]
        /\ \A d \in 0 .. x - 1 : h[d] = g[d]
        /\ h[x] = Body(g, Stop, v, x)
    BY <1>2, <2>3, <2>4
  <2> HIDE DEF h
  <2>6. ASSUME NEW d \in 0 .. x
        PROVE  h[d] = Body(h, Stop, v, d)
    <3>1. Body(h, Stop, v, d) = Body(g, Stop, v, d)
      <4>1. CASE d \in Stop
        BY <4>1 DEF Body
      <4>2. CASE d \notin Stop
        <5>1. d \div 2 \in 0 .. x - 1
          BY <1>2, <4>2, HalfSmaller
        <5> QED
          BY <2>5, <5>1 DEF Body
      <4> QED
        BY <4>1, <4>2
    <3>2. CASE d = x
      BY <2>5, <3>1, <3>2
    <3>3. CASE d # x
      BY <1>2, <2>3, <2>5, <3>1, <3>3
    <3> QED
      BY <3>2, <3>3
  <2>7. h \in Upto(x, Stop, v)
    BY <2>5, <2>6 DEF Upto
  <2> QED
    BY <1>2, <2>7
<1> QED
  BY <1>3, <1>4

\* Two such functions agree on the times both have.
LEMMA UptoAgree ==
  ASSUME NEW Stop \in Stops, NEW v \in Int, NEW n \in Nat, NEW m \in Nat,
         NEW g \in Upto(n, Stop, v), NEW h \in Upto(m, Stop, v),
         NEW d \in 0 .. n, d \in 0 .. m
  PROVE  g[d] = h[d]
<1> DEFINE T == {k \in Nat : k \in 0 .. n /\ k \in 0 .. m /\ g[k] # h[k]}
<1> SUFFICES ASSUME T # {} PROVE FALSE
  OBVIOUS
<1>1. PICK x \in T : \A y \in T : x <= y
  BY Least, Zenon
<1>2. x \in Nat /\ x \in 0 .. n /\ x \in 0 .. m /\ g[x] # h[x]
  OBVIOUS
<1>3. g[x] = Body(g, Stop, v, x) /\ h[x] = Body(h, Stop, v, x)
  BY <1>2 DEF Upto
<1>4. CASE x \in Stop
  BY <1>2, <1>3, <1>4 DEF Body
<1>5. CASE x \notin Stop
  <2>1. x \div 2 \in 0 .. x - 1
    BY <1>2, <1>5, HalfSmaller
  <2>2. x \div 2 \notin T
    BY <1>1, <1>2, <2>1
  <2>3. g[x \div 2] = h[x \div 2]
    BY <1>2, <2>1, <2>2
  <2> QED
    BY <1>2, <1>3, <1>5, <2>3 DEF Body
<1> QED
  BY <1>4, <1>5

\* So the loop defines a function on all times.
LEMMA SolutionExists ==
  ASSUME NEW Stop \in Stops, NEW v \in Int
  PROVE  \E f : f = [d \in Nat |-> Body(f, Stop, v, d)]
<1> DEFINE G(n) == CHOOSE g : g \in Upto(n, Stop, v)
           F == [d \in Nat |-> G(d)[d]]
<1>1. \A n \in Nat : G(n) \in Upto(n, Stop, v)
  BY UptoExists, Zenon
<1> HIDE DEF G
<1>2. ASSUME NEW d \in Nat
      PROVE  F[d] = Body(F, Stop, v, d)
  <2>1. F[d] = G(d)[d] /\ G(d)[d] = Body(G(d), Stop, v, d)
    BY <1>1 DEF Upto
  <2>2. CASE d \in Stop
    BY <2>1, <2>2 DEF Body
  <2>3. CASE d \notin Stop
    <3> DEFINE e == d \div 2
    <3>1. e \in 0 .. d - 1
      BY <2>3, HalfSmaller
    <3> HIDE DEF e
    <3>2. e \in Nat /\ e \in 0 .. d /\ e \in 0 .. e
      BY <3>1
    <3>3. F[e] = G(e)[e] /\ G(e) \in Upto(e, Stop, v) /\ G(d) \in Upto(d, Stop, v)
      BY <1>1, <3>2
    <3>4. G(e)[e] = G(d)[e]
      BY <3>2, <3>3, UptoAgree
    <3> QED
      BY <2>1, <2>3, <3>3, <3>4 DEF Body, e
  <2> QED
    BY <2>2, <2>3
<1>3. F = [d \in Nat |-> Body(F, Stop, v, d)]
  BY <1>2
<1> QED
  BY <1>3, Zenon

------------------------------------------------------------------------------
(* Bands: the ranges that the buckets stand for. *)

\* The time d is at least step doubled k times, and less than step doubled once
\* more: the range that histogram_show prints for bucket k.
In(d, step, k) == step * 2 ^ k <= d /\ d < step * 2 ^ (k + 1)

\* The lower bound of a band.
LEMMA BandBound ==
  ASSUME NEW step \in Nat \ {0}, NEW k \in Nat
  PROVE  /\ step * 2 ^ k \in Nat /\ step <= step * 2 ^ k
         /\ step * 2 ^ (k + 1) = 2 * (step * 2 ^ k)
<1> DEFINE p == 2 ^ k
<1>1. p \in Nat \ {0} /\ 2 ^ (k + 1) = 2 * p
  BY Power, Zenon
<1> HIDE DEF p
<1>2. step * p \in Nat /\ step <= step * p /\ step * (2 * p) = 2 * (step * p)
  BY <1>1
<1> QED
  BY <1>1, <1>2, Zenon DEF p

\* A time in a band is at least step.
LEMMA BandAtLeast ==
  ASSUME NEW step \in Nat \ {0}, NEW d \in Nat, NEW k \in Nat, In(d, step, k)
  PROVE  step <= d
<1> DEFINE a == step * 2 ^ k
<1>1. a \in Nat /\ step <= a
  BY BandBound
<1>2. a <= d
  BY DEF In
<1> HIDE DEF a
<1> QED
  BY <1>1, <1>2

\* 2^0 is 1.
LEMMA PowerZero == 2 ^ 0 = 1
<1>1. Cardinality(SUBSET {}) = 2 ^ Cardinality({})
  BY FS_SUBSET, FS_EmptySet, Zenon
<1>2. Cardinality({}) = 0 /\ Cardinality({{}}) = 1
  BY FS_EmptySet, FS_Singleton, Zenon
<1>3. SUBSET {} = {{}}
  OBVIOUS
<1> QED
  BY <1>1, <1>2, <1>3, Zenon

\* The lowest band.
LEMMA FirstBand ==
  ASSUME NEW step \in Nat \ {0}, NEW d \in Nat
  PROVE  In(d, step, 0) <=> step <= d /\ d < 2 * step
<1>1. step * 2 ^ 0 = step
  <2>1. step * 1 = step
    OBVIOUS
  <2> QED
    BY <2>1, PowerZero, Zenon
<1>2. step * 2 ^ (0 + 1) = 2 * (step * 2 ^ 0)
  BY BandBound
<1> DEFINE a == step * 2 ^ 0
           b == step * 2 ^ (0 + 1)
<1>3. In(d, step, 0) <=> a <= d /\ d < b
  BY DEF In
<1>4. a = step /\ b = 2 * a
  BY <1>1, <1>2, Zenon
<1> HIDE DEF a, b
<1> QED
  BY <1>3, <1>4

\* Halving a time moves it down by one band.
LEMMA HalfBand ==
  ASSUME NEW step \in Nat \ {0}, NEW d \in Nat, NEW k \in Nat
  PROVE  In(d, step, k + 1) <=> In(d \div 2, step, k)
<1> DEFINE a == step * 2 ^ k
           b == step * 2 ^ (k + 1)
           c == step * 2 ^ (k + 1 + 1)
<1>1. a \in Nat /\ b = 2 * a /\ c = 2 * b
  BY BandBound
<1>2. /\ In(d, step, k + 1) <=> b <= d /\ d < c
      /\ In(d \div 2, step, k) <=> a <= d \div 2 /\ d \div 2 < b
  BY DEF In
<1> HIDE DEF a, b, c
<1> QED
  BY <1>1, <1>2

\* Every time that is at least step is in a band.
LEMMA BandExists ==
  ASSUME NEW step \in Nat \ {0}, NEW d \in Nat, step <= d
  PROVE  \E k \in Nat : In(d, step, k)
<1> DEFINE T == {e \in Nat : step <= e /\ ~\E k \in Nat : In(e, step, k)}
<1> SUFFICES ASSUME T # {} PROVE FALSE
  OBVIOUS
<1>1. PICK x \in T : \A y \in T : x <= y
  BY Least, Zenon
<1>2. x \in Nat /\ step <= x /\ ~\E k \in Nat : In(x, step, k)
  OBVIOUS
<1>3. 2 * step <= x
  BY <1>2, FirstBand
<1> DEFINE h == x \div 2
<1>4. h \in Nat /\ step <= h /\ h < x
  BY <1>2, <1>3
<1>5. h \notin T
  BY <1>1, <1>2, <1>4
<1>6. PICK k \in Nat : In(h, step, k)
  BY <1>4, <1>5
<1>7. In(x, step, k + 1) <=> In(h, step, k)
  BY <1>2, HalfBand, Zenon
<1>8. k + 1 \in Nat /\ In(x, step, k + 1)
  BY <1>6, <1>7
<1> QED
  BY <1>2, <1>8, Zenon

\* A time is in one band only.
LEMMA BandUnique ==
  ASSUME NEW step \in Nat \ {0}, NEW d \in Nat,
         NEW k \in Nat, NEW l \in Nat, In(d, step, k), In(d, step, l)
  PROVE  k = l
<1>1. ASSUME NEW m \in Nat, NEW n \in Nat, In(d, step, m), In(d, step, n), m < n
      PROVE  FALSE
  <2> DEFINE p == 2 ^ (m + 1)
             q == 2 ^ n
  <2>1. m + 1 \in Nat /\ m + 1 <= n
    BY <1>1
  <2>2. p \in Nat /\ q \in Nat /\ p <= q
    BY <2>1, Power, PowerMonotonic
  <2>3. d < step * p /\ step * q <= d
    BY <1>1 DEF In
  <2> HIDE DEF p, q
  <2>4. step * p <= step * q
    BY <2>2
  <2> QED
    BY <2>2, <2>3, <2>4
<1> QED
  BY <1>1

------------------------------------------------------------------------------
(* The buckets the three loops choose. *)

\* hist_update of trace_noschedule.c: -1 below one step, the band from there on.
LEMMA NoschedBand ==
  ASSUME NEW step \in Nat \ {0}, NEW delta \in Nat
  PROVE  /\ delta < step => NoschedIndex(delta, step) = -1
         /\ \A k \in Nat : In(delta, step, k) => NoschedIndex(delta, step) = k
<1> DEFINE f[d \in Nat] == IF d < step THEN -1 ELSE 1 + f[d \div 2]
           Stop == {d \in Nat : d < step}
<1>1. f = [d \in Nat |-> IF d < step THEN -1 ELSE 1 + f[d \div 2]]
  <2>1. Stop \in Stops /\ -1 \in Int
    BY DEF Stops
  <2>2. PICK g : g = [d \in Nat |-> Body(g, Stop, -1, d)]
    BY <2>1, SolutionExists, Zenon
  <2>3. g = [d \in Nat |-> IF d < step THEN -1 ELSE 1 + g[d \div 2]]
    BY <2>2 DEF Body
  <2> QED
    BY <2>3, Zenon
<1>2. NoschedIndex(delta, step) = f[delta]
  BY Zenon DEF NoschedIndex
<1> HIDE DEF f
<1>3. \A d \in Nat : f[d] = IF d < step THEN -1 ELSE 1 + f[d \div 2]
  BY <1>1
<1> DEFINE T == {d \in Nat : \E k \in Nat : In(d, step, k) /\ f[d] # k}
<1>4. T = {}
  <2> SUFFICES ASSUME T # {} PROVE FALSE
    OBVIOUS
  <2>1. PICK x \in T : \A y \in T : x <= y
    BY Least, Zenon
  <2>2. PICK k \in Nat : x \in Nat /\ In(x, step, k) /\ f[x] # k
    OBVIOUS
  <2>3. step <= x
    BY <2>2, BandAtLeast, Zenon
  <2> DEFINE h == x \div 2
  <2>4. h \in Nat /\ h < x /\ f[x] = 1 + f[h]
    BY <1>3, <2>2, <2>3
  <2>5. CASE k = 0
    <3>1. x < 2 * step
      BY <2>2, <2>5, FirstBand
    <3>2. h < step
      BY <2>2, <3>1
    <3> HIDE DEF h
    <3> QED
      BY <1>3, <2>2, <2>4, <2>5, <3>2
  <2>6. CASE k # 0
    <3>1. k - 1 \in Nat /\ (k - 1) + 1 = k
      BY <2>6
    <3>2. In(x, step, (k - 1) + 1) <=> In(h, step, k - 1)
      BY <2>2, <3>1, HalfBand, Zenon
    <3>3. In(h, step, k - 1)
      BY <2>2, <3>1, <3>2, Zenon
    <3> HIDE DEF h
    <3>4. f[h] = k - 1
      BY <2>1, <2>2, <2>4, <3>1, <3>3
    <3> QED
      BY <2>2, <2>4, <3>4
  <2> QED
    BY <2>5, <2>6
<1> QED
  BY <1>2, <1>3, <1>4

\* latency_histogram_store of trace_runqlat.c: the band of the milliseconds.
LEMMA RunqlatBand ==
  ASSUME NEW ms \in Nat
  PROVE  /\ ms = 0 => Halvings[ms] = 0
         /\ \A k \in Nat : In(ms, 1, k) => Halvings[ms] = k
<1> DEFINE Stop == {d \in Nat : d < 2}
<1>1. Halvings = [d \in Nat |-> IF d < 2 THEN 0 ELSE 1 + Halvings[d \div 2]]
  <2>1. Stop \in Stops /\ 0 \in Int
    BY DEF Stops
  <2>2. PICK g : g = [d \in Nat |-> Body(g, Stop, 0, d)]
    BY <2>1, SolutionExists, Zenon
  <2>3. g = [d \in Nat |-> IF d < 2 THEN 0 ELSE 1 + g[d \div 2]]
    BY <2>2 DEF Body
  <2> QED
    BY <2>3, Zenon DEF Halvings
<1>2. \A d \in Nat : Halvings[d] = IF d < 2 THEN 0 ELSE 1 + Halvings[d \div 2]
  BY <1>1
<1> DEFINE T == {d \in Nat : \E k \in Nat : In(d, 1, k) /\ Halvings[d] # k}
<1>3. T = {}
  <2> SUFFICES ASSUME T # {} PROVE FALSE
    OBVIOUS
  <2>1. PICK x \in T : \A y \in T : x <= y
    BY Least, Zenon
  <2>2. PICK k \in Nat : x \in Nat /\ In(x, 1, k) /\ Halvings[x] # k
    OBVIOUS
  <2>3. 1 <= x
    BY <2>2, BandAtLeast, 1 \in Nat \ {0}, Zenon
  <2> DEFINE h == x \div 2
  <2>4. CASE k = 0
    <3>1. x < 2
      BY <2>2, <2>4, FirstBand
    <3> QED
      BY <1>2, <2>2, <2>4, <3>1
  <2>5. CASE k # 0
    <3>1. k - 1 \in Nat /\ (k - 1) + 1 = k
      BY <2>5
    <3>2. In(x, 1, (k - 1) + 1) <=> In(h, 1, k - 1)
      BY <2>2, <3>1, HalfBand, 1 \in Nat \ {0}, Zenon
    <3>3. In(h, 1, k - 1)
      BY <2>2, <3>1, <3>2, Zenon
    <3>4. h \in Nat /\ 1 <= h
      BY <2>2, <3>1, <3>3, BandAtLeast
    <3>5. h < x /\ Halvings[x] = 1 + Halvings[h]
      BY <1>2, <2>2, <3>4
    <3> HIDE DEF h
    <3>6. Halvings[h] = k - 1
      BY <2>1, <2>2, <3>1, <3>3, <3>4, <3>5
    <3> QED
      BY <2>2, <3>5, <3>6
  <2> QED
    BY <2>4, <2>5
<1> QED
  BY <1>2, <1>3

\* The loop of trace_irqoff_record, which also ends when the time is equal to
\* the throttle: one halving more than the band, unless the throttle is hit.
LEMMA IrqoffLoop ==
  ASSUME NEW throttle \in Nat \ {0}, NEW f,
         \A d \in Nat : f[d] = IF d <= throttle THEN 0 ELSE 1 + f[d \div 2],
         NEW d \in Nat, NEW k \in Nat, In(d, throttle, k)
  PROVE  f[d] = IF d < (throttle + 1) * 2 ^ k THEN k ELSE k + 1
<1> DEFINE Up(j) == (throttle + 1) * 2 ^ j
           Is(e, j) == f[e] = IF e < Up(j) THEN j ELSE j + 1
           T == {e \in Nat : \E j \in Nat : In(e, throttle, j) /\ ~Is(e, j)}
<1>1. \A j \in Nat : Up(j) \in Nat /\ Up(j + 1) = 2 * Up(j)
  <2>1. throttle + 1 \in Nat \ {0}
    OBVIOUS
  <2> QED
    BY <2>1, BandBound, Zenon
<1>2. Up(0) = throttle + 1
  <2>1. (throttle + 1) * 1 = throttle + 1
    OBVIOUS
  <2> QED
    BY <2>1, PowerZero, Zenon
<1> HIDE DEF Up
<1>3. T = {}
  <2> SUFFICES ASSUME T # {} PROVE FALSE
    OBVIOUS
  <2>1. PICK x \in T : \A y \in T : x <= y
    BY Least, Zenon
  <2>2. PICK j \in Nat : x \in Nat /\ In(x, throttle, j) /\ ~Is(x, j)
    OBVIOUS
  <2>3. throttle <= x
    BY <2>2, BandAtLeast, Zenon
  <2>4. f[x] = IF x <= throttle THEN 0 ELSE 1 + f[x \div 2]
    BY <2>2
  <2> DEFINE h == x \div 2
  <2>5. CASE j = 0
    <3>1. x < 2 * throttle
      BY <2>2, <2>5, FirstBand
    <3>2. h \in Nat /\ h <= throttle
      BY <2>2, <3>1
    <3>3. f[h] = 0
      BY <3>2
    <3> HIDE DEF h, T
    <3>4. f[x] = IF x <= throttle THEN 0 ELSE 1 + f[h]
      BY <2>4, Zenon DEF h
    <3> QED
      BY <1>2, <2>2, <2>3, <2>5, <3>3, <3>4
  <2>6. CASE j # 0
    <3>1. PICK i \in Nat : i + 1 = j
      BY <2>6, j - 1 \in Nat, (j - 1) + 1 = j
    <3>2. In(x, throttle, i + 1) <=> In(h, throttle, i)
      BY <2>2, <3>1, HalfBand, Zenon
    <3>3. In(h, throttle, i)
      BY <2>2, <3>1, <3>2, Zenon
    <3>4. h \in Nat /\ throttle <= h
      BY <2>2, <3>3, BandAtLeast
    <3>5. h < x /\ throttle < x
      BY <2>2, <3>4
    <3>6. Is(h, i)
      BY <2>1, <2>2, <3>3, <3>4, <3>5
    <3>7. h < Up(i) <=> x < Up(j)
      BY <1>1, <2>2, <3>1
    <3>8. f[x] = 1 + f[h]
      BY <2>2, <2>4, <3>5
    <3> HIDE DEF h, T
    <3> QED
      BY <2>2, <3>1, <3>6, <3>7, <3>8
  <2> QED
    BY <2>5, <2>6
<1>4. Is(d, k)
  BY <1>3
<1> QED
  BY <1>4 DEF Up

\* trace_irqoff_record: the band, or one below it when the loop meets the
\* throttle exactly.
LEMMA IrqoffBand ==
  ASSUME NEW throttle \in Nat \ {0}, NEW delta \in Nat, NEW k \in Nat,
         In(delta, throttle, k)
  PROVE  IrqoffIndex(delta, throttle) =
           IF k # 0 /\ delta < (throttle + 1) * 2 ^ k THEN k - 1 ELSE k
<1> DEFINE f[d \in Nat] == IF d <= throttle THEN 0 ELSE 1 + f[d \div 2]
           Stop == {d \in Nat : d <= throttle}
<1>1. f = [d \in Nat |-> IF d <= throttle THEN 0 ELSE 1 + f[d \div 2]]
  <2>1. Stop \in Stops /\ 0 \in Int
    BY DEF Stops
  <2>2. PICK g : g = [d \in Nat |-> Body(g, Stop, 0, d)]
    BY <2>1, SolutionExists, Zenon
  <2>3. g = [d \in Nat |-> IF d <= throttle THEN 0 ELSE 1 + g[d \div 2]]
    BY <2>2 DEF Body
  <2> QED
    BY <2>3, Zenon
<1>2. throttle <= delta
  BY BandAtLeast, Zenon
<1> DEFINE h == delta \div 2
<1>3. IrqoffIndex(delta, throttle) = f[h]
  <2>1. IrqoffIndex(delta, throttle) = IF delta < throttle THEN -1 ELSE f[h]
    BY Zenon DEF IrqoffIndex
  <2> HIDE DEF f
  <2> QED
    BY <1>2, <2>1
<1> HIDE DEF f
<1>4. \A d \in Nat : f[d] = IF d <= throttle THEN 0 ELSE 1 + f[d \div 2]
  BY <1>1
<1>5. h \in Nat
  OBVIOUS
<1>6. CASE k = 0
  <2>1. h <= throttle
    BY <1>6, FirstBand
  <2> QED
    BY <1>3, <1>4, <1>5, <1>6, <2>1
<1>7. CASE k # 0
  <2>1. PICK i \in Nat : i + 1 = k
    BY <1>7, k - 1 \in Nat, (k - 1) + 1 = k
  <2>2. In(delta, throttle, i + 1) <=> In(h, throttle, i)
    BY <2>1, HalfBand, Zenon
  <2>3. In(h, throttle, i)
    BY <2>1, <2>2, Zenon
  <2> DEFINE u == (throttle + 1) * 2 ^ i
             w == (throttle + 1) * 2 ^ k
  <2> HIDE DEF h
  <2>4. f[h] = IF h < u THEN i ELSE i + 1
    BY <1>4, <1>5, <2>3, IrqoffLoop
  <2>5. u \in Nat /\ (throttle + 1) * 2 ^ (i + 1) = 2 * u
    BY BandBound
  <2>6. w = 2 * u
    BY <2>1, <2>5, Zenon
  <2> HIDE DEF u, w
  <2>7. h < u <=> delta < w
    BY <2>5, <2>6 DEF h
  <2>8. IrqoffIndex(delta, throttle) = IF k # 0 /\ delta < w THEN k - 1 ELSE k
    BY <1>3, <1>7, <2>1, <2>4, <2>7
  <2> QED
    BY <2>8, Zenon DEF w
<1> QED
  BY <1>6, <1>7

------------------------------------------------------------------------------
(* The printed ranges. *)

\* Comparing a quotient is comparing the dividend with the multiple.
LEMMA DivBound ==
  ASSUME NEW d \in Nat, NEW n \in Nat \ {0}, NEW a \in Nat
  PROVE  d \div n \in Nat /\ (a * n <= d <=> a <= d \div n)
<1> DEFINE q == d \div n
           rest == d % n
<1>1. q \in Nat /\ rest \in Nat /\ rest < n /\ d = n * q + rest
  BY SMTT(30)
<1> HIDE DEF q, rest
<1>2. ASSUME a <= q PROVE a * n <= d
  <2>1. a * n <= q * n
    BY <1>1, <1>2
  <2> QED
    BY <1>1, <2>1
<1>3. ASSUME ~(a <= q) PROVE ~(a * n <= d)
  <2>1. (q + 1) * n <= a * n
    BY <1>1, <1>3
  <2>2. (q + 1) * n = n * q + n /\ a * n \in Nat /\ n * q \in Nat
    BY <1>1
  <2> DEFINE x == a * n
             y == n * q
             z == (q + 1) * n
  <2>3. z <= x /\ z = y + n /\ x \in Nat /\ y \in Nat /\ d = y + rest
    BY <1>1, <2>1, <2>2, Zenon
  <2> HIDE DEF x, y, z
  <2>4. ~(x <= d)
    BY <1>1, <2>3
  <2> QED
    BY <2>4, Zenon DEF x
<1> QED
  BY <1>1, <1>2, <1>3 DEF q

\* histogram_show prints for bucket k, with buckets of factor ms, a range that
\* contains every time of band k, and for the last bucket at most the lower
\* bound of every later band.
LEMMA BandShown ==
  ASSUME NEW delta \in Nat, NEW ns \in Nat \ {0}, NEW factor \in Nat \ {0},
         NEW size \in Nat \ {0}, NEW k \in Nat, In(delta, factor * ns, k)
  PROVE  Shown(k, factor, delta \div ns, size)
<1> DEFINE i == Clamp(k, size)
           ms == delta \div ns
<1>1. i \in Nat /\ i <= k /\ (i < size - 1 => i = k)
  BY DEF Clamp
<1> HIDE DEF i
<1> DEFINE a == 2 ^ i
           b == 2 ^ k
           c == 2 ^ (k + 1)
<1>2. a \in Nat \ {0} /\ b \in Nat \ {0} /\ c = 2 * b /\ a <= b
  BY <1>1, Power, PowerMonotonic
<1>3. factor * ns * b <= delta /\ delta < factor * ns * c
  BY DEF In
<1>4. scale_min(i, factor) = a * factor
  <2>1. i = 0 => a = 1
    BY PowerZero, Zenon
  <2> QED
    BY <2>1 DEF scale_min
<1>5. i = k => scale_max(i, factor) = c * factor - 1
  BY Zenon DEF scale_max
<1> HIDE DEF a, b, c
<1>6. a * factor <= ms
  <2> DEFINE x == a * factor
  <2>1. x \in Nat /\ x * ns <= factor * ns * b
    <3>1. x \in Nat /\ a * factor <= b * factor
      BY <1>2
    <3>2. a * factor * ns <= b * factor * ns
      BY <1>2, <3>1
    <3>3. b * factor * ns = factor * ns * b
      BY <1>2
    <3> QED
      BY <3>1, <3>2, <3>3, Zenon
  <2>2. factor * ns * b \in Nat /\ x * ns \in Nat
    BY <1>2, <2>1
  <2>3. x * ns <= delta
    BY <1>3, <2>1, <2>2
  <2> HIDE DEF x, ms
  <2>4. x <= ms
    BY <2>1, <2>3, DivBound DEF ms
  <2> QED
    BY <2>4, Zenon DEF x
<1>7. ms <= c * factor - 1
  <2> DEFINE x == c * factor
  <2>1. x \in Nat /\ x * ns = factor * ns * c
    BY <1>2
  <2>2. x * ns \in Nat
    BY <2>1
  <2>3. ~(x * ns <= delta)
    BY <1>3, <2>1, <2>2
  <2> HIDE DEF x, ms
  <2>4. ms \in Nat /\ ~(x <= ms)
    BY <2>1, <2>3, DivBound DEF ms
  <2> HIDE DEF ms
  <2>5. ms <= x - 1
    BY <2>1, <2>4
  <2> QED
    BY <2>5, Zenon DEF x
<1>8. scale_min(i, factor) <= ms /\ (i < size - 1 => ms <= scale_max(i, factor))
  BY <1>1, <1>4, <1>5, <1>6, <1>7, Zenon
<1> QED
  BY <1>8, Zenon DEF Shown, i

\* The loop of trace_irqoff_record meets the throttle exactly after k halvings
\* when the time is within rounding of the lower bound of band k.
LEMMA ThrottleMet ==
  ASSUME NEW step \in Nat \ {0}, NEW delta \in Nat, NEW k \in Nat
  PROVE  delta \div 2 ^ k = step <=>
           step * 2 ^ k <= delta /\ delta < (step + 1) * 2 ^ k
<1> DEFINE p == 2 ^ k
<1>1. p \in Nat \ {0}
  BY Power
<1> HIDE DEF p
<1>2. delta \div p \in Nat /\ (step * p <= delta <=> step <= delta \div p)
  BY <1>1, DivBound
<1>3. (step + 1) * p <= delta <=> step + 1 <= delta \div p
  BY <1>1, DivBound
<1>4. (step + 1) * p \in Nat
  BY <1>1
<1> DEFINE q == delta \div p
           x == step * p
           y == (step + 1) * p
<1>5. q \in Nat /\ y \in Nat /\ (x <= delta <=> step <= q) /\ (y <= delta <=> step + 1 <= q)
  BY <1>2, <1>3, <1>4
<1> HIDE DEF q, x, y
<1>6. q = step <=> x <= delta /\ delta < y
  BY <1>5
<1> QED
  BY <1>6, Zenon DEF p, q, x, y

\* A time near the lower bound of band k is in band k.
LEMMA ThrottleBand ==
  ASSUME NEW step \in Nat \ {0}, NEW delta \in Nat, NEW k \in Nat,
         step * 2 ^ k <= delta, delta < (step + 1) * 2 ^ k
  PROVE  In(delta, step, k)
<1> DEFINE p == 2 ^ k
<1>1. p \in Nat \ {0} /\ 2 ^ (k + 1) = 2 * p
  BY Power, Zenon
<1>2. step * p <= delta /\ delta < (step + 1) * p
  OBVIOUS
<1> HIDE DEF p
<1>3. (step + 1) * p <= step * (2 * p) /\ step * (2 * p) \in Nat /\ (step + 1) * p \in Nat
  <2>1. step * (2 * p) = (step + step) * p
    BY <1>1
  <2>2. (step + 1) * p <= (step + step) * p
    BY <1>1
  <2> QED
    BY <1>1, <2>1, <2>2
<1>4. delta < step * (2 * p)
  BY <1>2, <1>3
<1> QED
  BY <1>1, <1>2, <1>4, Zenon DEF In, p

\* Two indices from the last bucket on are counted in the same bucket.
LEMMA ShownLast ==
  ASSUME NEW size \in Nat \ {0}, NEW k \in Nat, NEW l \in Nat, NEW factor, NEW ms,
         size <= k, size <= l, Shown(k, factor, ms, size)
  PROVE  Shown(l, factor, ms, size)
<1>1. Clamp(k, size) = Clamp(l, size)
  BY DEF Clamp
<1> QED
  BY <1>1, Zenon DEF Shown

\* hist_update, latency_histogram_store, trace_irqoff_record and histogram_show:
\* for every time, every sampling period of whole milliseconds and every number
\* of buckets, the time is counted in the bucket whose printed range contains it,
\* with the exceptions that RightBucket names.
THEOREM RightBucketTheorem ==
  ASSUME NEW delta \in Nat, NEW period \in Nat \ {0}, NEW NsPerMs \in Nat \ {0},
         NEW size \in Nat \ {0}
  PROVE  RightBucket(delta, period * NsPerMs, NsPerMs, size)
<1> DEFINE ms == delta \div NsPerMs
           step == period * NsPerMs * 2
           factor == step \div NsPerMs
<1>1. step \in Nat \ {0} /\ step = 2 * period * NsPerMs
  BY SMTT(30)
<1>2. factor \in Nat \ {0} /\ step = factor * NsPerMs
  <2>1. (2 * period * NsPerMs) \div NsPerMs = 2 * period
    <3> DEFINE a == 2 * period
    <3>1. a \in Nat
      OBVIOUS
    <3> HIDE DEF a
    <3>2. a * NsPerMs \in Nat /\ a * NsPerMs < (a + 1) * NsPerMs
      BY <3>1
    <3> DEFINE d == a * NsPerMs
               q == d \div NsPerMs
    <3>3. a * NsPerMs <= d /\ ~((a + 1) * NsPerMs <= d)
      BY <3>1, <3>2
    <3> HIDE DEF d
    <3>4. d \in Nat
      BY <3>2 DEF d
    <3>5. q \in Nat /\ a <= q /\ ~(a + 1 <= q)
      BY <3>1, <3>3, <3>4, DivBound
    <3> HIDE DEF q
    <3>6. q = a
      BY <3>1, <3>5
    <3> QED
      BY <3>6, Zenon DEF a, d, q
  <2>2. factor = 2 * period
    BY <1>1, <2>1, Zenon
  <2> HIDE DEF step, factor
  <2> QED
    BY <1>1, <2>2
<1>3. ms \in Nat
  BY DivBound
<1> HIDE DEF step, factor, ms
<1>4. /\ delta < step => NoschedIndex(delta, step) = -1
      /\ ~(delta < step) => Shown(NoschedIndex(delta, step), factor, ms, size)
  <2>1. CASE delta < step
    BY <1>1, <2>1, NoschedBand
  <2>2. CASE ~(delta < step)
    <3>1. PICK k \in Nat : In(delta, step, k)
      BY <1>1, <2>2, BandExists
    <3>2. NoschedIndex(delta, step) = k
      BY <1>1, <3>1, NoschedBand
    <3>3. Shown(k, factor, ms, size)
      BY <1>2, <3>1, BandShown, Zenon DEF ms
    <3> QED
      BY <2>2, <3>2, <3>3, Zenon
  <2> QED
    BY <2>1, <2>2
<1>5. /\ ms = 0 => Halvings[ms] = 0
      /\ ms # 0 => Shown(Halvings[ms], 1, ms, size)
  <2>1. ms = 0 => Halvings[ms] = 0
    BY <1>3, RunqlatBand
  <2>2. ASSUME ms # 0
        PROVE  Shown(Halvings[ms], 1, ms, size)
    <3>1. PICK k \in Nat : In(ms, 1, k)
      BY <1>3, <2>2, BandExists
    <3>2. Halvings[ms] = k
      BY <1>3, <3>1, RunqlatBand
    <3>3. 1 * 1 = 1 /\ ms \div 1 = ms /\ 1 \in Nat \ {0}
      BY <1>3
    <3>4. In(ms, 1 * 1, k)
      BY <3>1, <3>3, Zenon
    <3>5. Shown(k, 1, ms \div 1, size)
      BY <1>3, <3>3, <3>4, BandShown, Zenon
    <3> QED
      BY <3>2, <3>3, <3>5, Zenon
  <2> QED
    BY <2>1, <2>2, Zenon
<1>6. ASSUME delta >= step
      PROVE  IF \E k \in 1 .. size : delta \div 2 ^ k = step
             THEN Shown(IrqoffIndex(delta, step) + 1, factor, ms, size)
             ELSE Shown(IrqoffIndex(delta, step), factor, ms, size)
  <2>1. PICK K \in Nat : In(delta, step, K)
    BY <1>1, <1>6, BandExists
  <2>2. Shown(K, factor, ms, size)
    BY <1>2, <2>1, BandShown, Zenon DEF ms
  <2> DEFINE met == delta < (step + 1) * 2 ^ K
             index == IrqoffIndex(delta, step)
  <2>3. index = IF K # 0 /\ met THEN K - 1 ELSE K
    BY <1>1, <2>1, IrqoffBand, Zenon
  <2>4. step * 2 ^ K <= delta
    BY <2>1, Zenon DEF In
  <2>5. CASE \E k \in 1 .. size : delta \div 2 ^ k = step
    <3>1. PICK k \in 1 .. size : delta \div 2 ^ k = step
      BY <2>5
    <3>2. k \in Nat /\ k # 0
      BY <3>1
    <3>3. step * 2 ^ k <= delta /\ delta < (step + 1) * 2 ^ k
      BY <1>1, <3>1, <3>2, ThrottleMet, Zenon
    <3>4. In(delta, step, k)
      BY <1>1, <3>2, <3>3, ThrottleBand, Zenon
    <3>5. k = K
      BY <1>1, <2>1, <3>2, <3>4, BandUnique, Zenon
    <3>6. K # 0 /\ met
      BY <3>2, <3>3, <3>5, Zenon
    <3> HIDE DEF met, index
    <3>7. index + 1 = K
      BY <2>3, <3>6
    <3>8. Shown(index + 1, factor, ms, size)
      BY <2>2, <3>7, Zenon
    <3> QED
      BY <2>5, <3>8, Zenon DEF index
  <2>6. CASE ~\E k \in 1 .. size : delta \div 2 ^ k = step
    <3>1. CASE K # 0 /\ met
      <4>1. delta \div 2 ^ K = step
        BY <1>1, <2>4, <3>1, ThrottleMet, Zenon
      <4>2. K \notin 1 .. size
        BY <2>6, <4>1, Zenon
      <4> HIDE DEF met, index
      <4>3. size < K /\ index = K - 1 /\ K - 1 \in Nat /\ size <= K - 1 /\ size <= K
        BY <2>3, <3>1, <4>2
      <4>4. Shown(K - 1, factor, ms, size)
        BY <2>2, <4>3, ShownLast, Zenon
      <4> QED
        BY <2>6, <4>3, <4>4, Zenon DEF index
    <3>2. CASE ~(K # 0 /\ met)
      BY <2>2, <2>3, <2>6, <3>2, Zenon
    <3> QED
      BY <3>1, <3>2, Zenon
  <2> QED
    BY <2>5, <2>6, Zenon
<1> QED
  BY <1>4, <1>5, <1>6, Zenon DEF RightBucket, step, factor, ms

------------------------------------------------------------------------------
(* Reading trace_latency. *)

\* What a step of trace_latency_show_one, save_trace or smp_clear_stack_trace
\* keeps as long as nothing is cleared: record k + 1 is in slot k, the slots
\* below nr_irqoff_trace are complete, and the reader is at the stack behind
\* the ones it has printed, below the number it has read.
SlotsExact ==
  /\ nr_irqoff_trace = IF filling = NULL THEN records ELSE records - 1
  /\ \A k \in SlotIdx, part \in Part :
       \/ k < nr_irqoff_trace
       \/ filling # NULL /\ k = nr_irqoff_trace /\ part \notin filling
       => slot[k][part] = k + 1
ReaderExact ==
  /\ \A k \in DOMAIN shown : shown[k] = <<k, k>>
  /\ reader # NULL =>
       /\ reader.nr <= nr_irqoff_trace /\ reader.i = Len(shown) /\ reader.i < reader.nr
       /\ reader.head \in {NULL, reader.i + 1}
ShowType ==
  /\ nr_irqoff_trace \in 0 .. MAX_STACE_TRACE_ENTRIES /\ records \in Nat /\ clears \in Nat
  /\ slot \in [SlotIdx -> [Part -> Nat]]
  /\ filling = NULL \/ filling \subseteq Part
  /\ filling # NULL => nr_irqoff_trace < MAX_STACE_TRACE_ENTRIES
  /\ reader = NULL \/ reader \in Reading
  /\ reader # NULL => reader.i < reader.nr /\ reader.nr <= MAX_STACE_TRACE_ENTRIES
  /\ shown \in Seq((Nat \cup {NULL}) \X Nat)
ShowInv == ShowType /\ (clears = 0 => SlotsExact /\ ReaderExact)

\* The empty buffer.
LEMMA ShowStarts ==
  ASSUME ShowInit
  PROVE  ShowInv
<1> USE ShowAssumption
<1>1. ShowType
  BY DEF ShowInit, ShowType, SlotIdx, Part
<1>2. SlotsExact
  BY DEF ShowInit, SlotsExact, SlotIdx
<1>3. ReaderExact
  BY DEF ShowInit, ReaderExact
<1> QED
  BY <1>1, <1>2, <1>3, Zenon DEF ShowInv

\* save_trace finds room, and its record is one more than the stacks in the buffer.
LEMMA SaveTrace ==
  ASSUME ShowInv, save_trace
  PROVE  ShowInv'
<1> USE ShowAssumption
<1>1. ShowType'
  BY DEF ShowInv, ShowType, save_trace
<1>2. SlotsExact => SlotsExact'
  BY DEF ShowInv, ShowType, SlotsExact, save_trace, SlotIdx
<1>3. ReaderExact => ReaderExact'
  BY DEF ReaderExact, save_trace
<1> QED
  BY <1>1, <1>2, <1>3 DEF ShowInv, save_trace

\* A part of the record goes to the first slot that is not counted yet, where
\* no reader looks.
LEMMA StorePart ==
  ASSUME ShowInv, NEW p \in Part, store_part(p)
  PROVE  ShowInv'
<1> USE ShowAssumption
<1>1. /\ nr_irqoff_trace \in SlotIdx /\ filling # NULL
      /\ filling \subseteq Part /\ filling' # NULL
  BY DEF ShowInv, ShowType, store_part, SlotIdx
<1>2. ShowType'
  BY <1>1 DEF ShowInv, ShowType, store_part
<1>3. SlotsExact => SlotsExact'
  <2> SUFFICES ASSUME SlotsExact, NEW k \in SlotIdx, NEW q \in Part,
                      k < nr_irqoff_trace \/ (k = nr_irqoff_trace /\ q \notin filling')
               PROVE  slot'[k][q] = k + 1
    BY <1>1 DEF SlotsExact, store_part
  <2>1. records = nr_irqoff_trace + 1 /\ k # nr_irqoff_trace + 1
    BY <1>1 DEF SlotsExact, ShowInv, ShowType, SlotIdx
  <2>2. CASE k = nr_irqoff_trace /\ q = p
    BY <1>1, <2>1, <2>2 DEF ShowInv, ShowType, store_part
  <2>3. CASE ~(k = nr_irqoff_trace /\ q = p)
    <3>1. slot \in [SlotIdx -> [Part -> Nat]]
      BY DEF ShowInv, ShowType
    <3>2. slot' = [slot EXCEPT ![nr_irqoff_trace][p] = records]
      BY DEF store_part
    <3>3. k # nr_irqoff_trace => slot'[k][q] = slot[k][q]
      BY <3>1, <3>2
    <3>4. k = nr_irqoff_trace /\ q # p => slot'[k][q] = slot[k][q]
      BY <3>1, <3>2, <1>1
    <3>5. slot'[k][q] = slot[k][q]
      BY <2>3, <3>3, <3>4, Zenon
    <3>6. k < nr_irqoff_trace \/ (filling # NULL /\ k = nr_irqoff_trace /\ q \notin filling)
      BY <1>1, <2>3 DEF store_part
    <3> QED
      BY <3>5, <3>6, Zenon DEF SlotsExact
  <2> QED
    BY <2>2, <2>3, Zenon
<1>4. ReaderExact => ReaderExact'
  BY DEF ReaderExact, store_part
<1> QED
  BY <1>2, <1>3, <1>4 DEF ShowInv, store_part

\* The release counts a slot whose parts are all stored.
LEMMA StoreRelease ==
  ASSUME ShowInv, store_release
  PROVE  ShowInv'
<1> USE ShowAssumption
<1>1. filling # NULL
  BY DEF store_release
<1>2. ShowType'
  BY <1>1 DEF ShowInv, ShowType, store_release
<1>3. SlotsExact => SlotsExact'
  <2> SUFFICES ASSUME SlotsExact
               PROVE  SlotsExact'
    OBVIOUS
  <2>1. /\ nr_irqoff_trace \in Nat /\ records \in Nat /\ nr_irqoff_trace' = nr_irqoff_trace + 1
        /\ slot' = slot /\ records' = records /\ filling' = NULL /\ filling = {}
    BY DEF ShowInv, ShowType, store_release
  <2>2. nr_irqoff_trace' = records'
    BY <1>1, <2>1 DEF SlotsExact
  <2>3. ASSUME NEW k \in SlotIdx, NEW q \in Part, k < nr_irqoff_trace'
        PROVE  slot'[k][q] = k + 1
    <3>1. k < nr_irqoff_trace \/ k = nr_irqoff_trace
      BY <2>1, <2>3 DEF SlotIdx
    <3> QED
      BY <1>1, <2>1, <3>1, Zenon DEF SlotsExact
  <2> QED
    BY <2>1, <2>2, <2>3, Zenon DEF SlotsExact
<1>4. ReaderExact => ReaderExact'
  BY DEF ShowInv, ShowType, ReaderExact, store_release, Reading
<1> QED
  BY <1>2, <1>3, <1>4 DEF ShowInv, store_release

\* smp_clear_stack_trace ends what ExactUntilCleared is about.
LEMMA ClearStackTrace ==
  ASSUME ShowInv, smp_clear_stack_trace
  PROVE  ShowInv'
<1> USE ShowAssumption
<1>1. ShowType'
  BY DEF ShowInv, ShowType, smp_clear_stack_trace
<1>2. clears' # 0
  BY DEF ShowInv, ShowType, smp_clear_stack_trace
<1> QED
  BY <1>1, <1>2, Zenon DEF ShowInv

\* A reader starts with the stacks that are counted, and has printed nothing.
LEMMA ShowOne ==
  ASSUME ShowInv, trace_latency_show_one
  PROVE  ShowInv'
<1> USE ShowAssumption
<1>1. /\ reader' = NULL \/ (/\ nr_irqoff_trace # 0
                            /\ reader' = [nr |-> nr_irqoff_trace, i |-> 0, head |-> NULL])
      /\ shown' = <<>>
  BY DEF trace_latency_show_one
<1>2. ShowType'
  BY <1>1 DEF ShowInv, ShowType, trace_latency_show_one, Reading
<1>3. SlotsExact => SlotsExact'
  BY DEF SlotsExact, trace_latency_show_one
<1>4. ReaderExact'
  BY <1>1 DEF ShowInv, ShowType, ReaderExact, trace_latency_show_one
<1> QED
  BY <1>2, <1>3, <1>4 DEF ShowInv, trace_latency_show_one

\* The head comes from a slot that was complete when the reader started, and
\* still is.
LEMMA ShowHead ==
  ASSUME ShowInv, show_head
  PROVE  ShowInv'
<1> USE ShowAssumption
<1>1. /\ reader \in Reading /\ reader.i < reader.nr /\ reader.nr <= MAX_STACE_TRACE_ENTRIES
      /\ slot \in [SlotIdx -> [Part -> Nat]] /\ nr_irqoff_trace \in Nat
  BY DEF ShowInv, ShowType, show_head
<1>2. reader.i \in SlotIdx /\ "head" \in Part
  BY <1>1 DEF SlotIdx, Part, Reading
<1>3. slot[reader.i]["head"] \in Nat
  BY <1>1, <1>2
<1>4. /\ reader' \in Reading /\ reader'.nr = reader.nr /\ reader'.i = reader.i
      /\ reader'.head = slot[reader.i]["head"]
  BY <1>1, <1>3 DEF Reading, show_head
<1>5. ShowType'
  BY <1>1, <1>4 DEF ShowInv, ShowType, show_head
<1>6. SlotsExact => SlotsExact'
  BY DEF SlotsExact, show_head
<1>7. SlotsExact /\ ReaderExact => ReaderExact'
  <2> SUFFICES ASSUME SlotsExact, ReaderExact
               PROVE  ReaderExact'
    OBVIOUS
  <2>1. reader.nr <= nr_irqoff_trace /\ reader.i = Len(shown)
    BY DEF ReaderExact, show_head
  <2>2. reader.i < nr_irqoff_trace
    BY <1>1, <2>1 DEF Reading
  <2>3. slot[reader.i]["head"] = reader.i + 1
    BY <1>2, <2>2, Zenon DEF SlotsExact
  <2> QED
    BY <1>1, <1>4, <2>1, <2>3 DEF ReaderExact, show_head
<1> QED
  BY <1>5, <1>6, <1>7 DEF ShowInv, show_head

\* The stack comes from the same slot as the head before it.
LEMMA PrintStackTrace ==
  ASSUME ShowInv, seq_print_stack_trace
  PROVE  ShowInv'
<1> USE ShowAssumption
<1> DEFINE pair == <<reader.head, slot[reader.i]["stack"]>>
<1>1. /\ reader \in Reading /\ reader.i < reader.nr /\ reader.nr <= MAX_STACE_TRACE_ENTRIES
      /\ slot \in [SlotIdx -> [Part -> Nat]] /\ nr_irqoff_trace \in Nat
      /\ shown \in Seq((Nat \cup {NULL}) \X Nat) /\ reader.head # NULL
  BY DEF ShowInv, ShowType, seq_print_stack_trace
<1>2. reader.i \in SlotIdx /\ "stack" \in Part
  BY <1>1 DEF SlotIdx, Part, Reading
<1>3. pair \in (Nat \cup {NULL}) \X Nat
  BY <1>1, <1>2 DEF Reading
<1>4. shown' = Append(shown, pair)
  BY DEF seq_print_stack_trace
<1>5. \/ reader' = NULL
      \/ /\ reader' \in Reading /\ reader'.nr = reader.nr /\ reader'.i = reader.i + 1
         /\ reader'.head = NULL /\ reader'.i < reader'.nr
  <2> DEFINE next == [reader EXCEPT !.i = @ + 1, !.head = NULL]
  <2>1. reader' = NULL \/ (reader.i + 1 # reader.nr /\ reader' = next)
    BY DEF seq_print_stack_trace
  <2>2. reader.i \in Nat /\ reader.nr \in Nat
    BY <1>1 DEF Reading
  <2>3. /\ next \in Reading /\ next.nr = reader.nr /\ next.i = reader.i + 1
        /\ next.head = NULL
    <3> DEFINE n == reader.i + 1
    <3>1. n \in Nat
      BY <2>2
    <3>2. next = [reader EXCEPT !.i = n, !.head = NULL]
      BY Zenon
    <3> HIDE DEF n, next
    <3>3. /\ next \in Reading /\ next.nr = reader.nr /\ next.i = n
          /\ next.head = NULL
      BY <1>1, <3>1, <3>2, Zenon DEF Reading
    <3> QED
      BY <3>3 DEF n
  <2> HIDE DEF next
  <2>4. reader.i + 1 # reader.nr => reader.i + 1 < reader.nr
    BY <1>1, <2>2
  <2> QED
    BY <2>1, <2>3, <2>4, Zenon
<1> HIDE DEF pair
<1>6. shown' \in Seq((Nat \cup {NULL}) \X Nat)
  BY <1>1, <1>3, <1>4
<1>7. ShowType'
  BY <1>1, <1>5, <1>6 DEF ShowInv, ShowType, seq_print_stack_trace
<1>8. SlotsExact => SlotsExact'
  BY DEF SlotsExact, seq_print_stack_trace
<1>9. SlotsExact /\ ReaderExact => ReaderExact'
  <2> SUFFICES ASSUME SlotsExact, ReaderExact
               PROVE  ReaderExact'
    OBVIOUS
  <2>1. /\ reader.nr <= nr_irqoff_trace /\ reader.i = Len(shown)
        /\ reader.head = reader.i + 1
    BY <1>1, Zenon DEF ReaderExact, seq_print_stack_trace
  <2>2. reader.i < nr_irqoff_trace
    BY <1>1, <2>1 DEF Reading
  <2>3. slot[reader.i]["stack"] = reader.i + 1
    BY <1>2, <2>2, Zenon DEF SlotsExact
  <2>4. pair = <<Len(shown) + 1, Len(shown) + 1>>
    BY <2>1, <2>3, Zenon DEF pair
  <2>5. \A k \in DOMAIN shown : shown[k] = <<k, k>>
    BY DEF ReaderExact
  <2>6. Len(shown') = Len(shown) + 1 /\ \A k \in DOMAIN shown' : shown'[k] = <<k, k>>
    BY <1>1, <1>3, <1>4, <2>4, <2>5
  <2>7. nr_irqoff_trace' = nr_irqoff_trace
    BY DEF seq_print_stack_trace
  <2> QED
    BY <1>5, <2>1, <2>6, <2>7 DEF ReaderExact
<1> QED
  BY <1>7, <1>8, <1>9 DEF ShowInv, seq_print_stack_trace

\* Every step of the handler and of the reader keeps it.
LEMMA ShowStep ==
  ASSUME ShowInv, [ShowNext]_<<show, clears>>
  PROVE  ShowInv'
<1>1. CASE ShowNext
  <2>1. ASSUME NEW p \in Part, store_part(p)
        PROVE  ShowInv'
    BY <2>1, StorePart, Zenon
  <2> QED
    BY <1>1, <2>1, SaveTrace, StoreRelease, ClearStackTrace, ShowOne, ShowHead,
       PrintStackTrace, Zenon DEF ShowNext
<1>2. CASE UNCHANGED <<show, clears>>
  BY <1>2 DEF show, ShowInv, ShowType, SlotsExact, ReaderExact
<1> QED
  BY <1>1, <1>2

\* trace_latency_show_one: for any number of slots and of records, a reader prints
\* whole stacks in the order they were saved in until the buffer is cleared, however
\* often it reads and although save_trace stores the next one meanwhile.
THEOREM ExactTheorem == ShowSpec => []ExactUntilCleared
<1>1. ShowInv => ExactUntilCleared
  BY Zenon DEF ShowInv, ReaderExact, ExactUntilCleared
<1>2. ShowInit => ShowInv
  BY ShowStarts
<1>3. ShowInv /\ [ShowNext]_<<show, clears>> => ShowInv'
  BY ShowStep
<1> QED
  BY <1>1, <1>2, <1>3, PTL DEF ShowSpec

\* A measured time is a number of ns, and a sampling period one of ms.
Measured ==
  elapsed \in Nat /\ sampling \in {p * NsPerMilli : p \in SamplingPeriods}

\* hist_update, latency_histogram_store, trace_irqoff_record: every time that is
\* measured, at every sampling period but 0 that can be written, is counted in the
\* row that histogram_show prints for it, with the exceptions of RightBucket.
THEOREM CountedTheorem == MeasureSpec => []CountedWhereShown
<1>1. ASSUME Measured
      PROVE  CountedWhereShown
  <2>1. PICK p \in SamplingPeriods : sampling = p * NsPerMilli
    BY <1>1, Zenon DEF Measured
  <2>2. p \in Nat \ {0} /\ NsPerMilli \in Nat \ {0} /\ Buckets \in Nat \ {0}
    BY HistogramAssumption
  <2>3. elapsed \in Nat
    BY <1>1, Zenon DEF Measured
  <2>4. RightBucket(elapsed, p * NsPerMilli, NsPerMilli, Buckets)
    BY <2>2, <2>3, RightBucketTheorem, Zenon
  <2> QED
    BY <2>1, <2>4, Zenon DEF CountedWhereShown
<1>2. MeasureInit => Measured
  BY DEF MeasureInit, Measured
<1>3. Measured /\ [Measure]_histogram => Measured'
  <2> SUFFICES ASSUME Measured, [Measure]_histogram
               PROVE  Measured'
    OBVIOUS
  <2>1. elapsed \in Nat
    BY Zenon DEF Measured
  <2>2. elapsed' \in Nat /\ sampling' = sampling
    BY <2>1 DEF Measure, histogram
  <2> QED
    BY <2>2, Zenon DEF Measured
<1> QED
  BY <1>1, <1>2, <1>3, PTL DEF MeasureSpec

------------------------------------------------------------------------------
(* The balloon daemon. *)

\* What every request of dom_balloon was made from: the sizes that were read,
\* and, if the guest did not change between the queries, what they say of it.
Request(a) ==
  /\ a.dom \in allowed_vms \cap Domains /\ a.way \in {"grow", "shrink"}
  /\ a.from \in 0 .. total_ram /\ a.used \in Nat
  /\ LET want == IF a.way = "grow" THEN a.from + Quarter(a.used) ELSE a.from - Quarter(a.used)
     IN  a.to = IF want > total_ram THEN total_ram ELSE want
  /\ a.way = "shrink" => a.from > dom_keep_usable(a.dom)
  /\ a.same =>
       /\ a.used < a.from
       /\ a.way = "grow" => a.from - a.used < dom_keep_usable(a.dom)
       /\ a.way = "shrink" => 2 * (a.from - a.used) > 3 * dom_keep_usable(a.dom)

\* The step is at least 1 and at most a quarter of the use, or 1.
LEMMA QuarterBounds ==
  ASSUME NEW used \in Nat
  PROVE  Quarter(used) \in Nat /\ 1 <= Quarter(used)
         /\ (Quarter(used) = 1 \/ 4 * Quarter(used) <= used)
<1> DEFINE x == used \div 4
           m == x % SZ_32MiB
<1>1. x \in Nat /\ 4 * x <= used
  OBVIOUS
<1> HIDE DEF x
<1>2. m \in Nat /\ m <= x
  BY <1>1, BalloonAssumption
<1> HIDE DEF m
<1>3. ALIGN_DOWN(x, SZ_32MiB) = x - m
  BY Zenon DEF ALIGN_DOWN, m
<1>4. Quarter(used) = IF x - m = 0 THEN 1 ELSE x - m
  BY <1>3, Zenon DEF Quarter, x
<1> QED
  BY <1>1, <1>2, <1>4

\* What is to be kept free: something, and a quarter if it is not configured.
LEMMA KeepBounds ==
  ASSUME NEW d \in Domains
  PROVE  /\ dom_keep_usable(d) \in 1 .. total_ram
         /\ keep_free_kb[d] = 0 => total_ram <= 4 * dom_keep_usable(d) + 3
BY BalloonAssumption DEF dom_keep_usable

\* A request that was made from the sizes of a guest that did not change
\* leaves it something, and what it uses.
LEMMA RequestFits ==
  ASSUME NEW a, Request(a)
  PROVE  /\ a.to <= total_ram /\ (a.same => a.to > 0)
         /\ a.same /\ a.way = "shrink"
              /\ (keep_free_kb[a.dom] = 0 \/ Quarter(a.used) <= dom_keep_usable(a.dom)) =>
              2 * (a.to - a.used) > dom_keep_usable(a.dom)
<1> DEFINE q == Quarter(a.used)
           k == dom_keep_usable(a.dom)
<1>1. q \in Nat /\ 1 <= q /\ (q = 1 \/ 4 * q <= a.used)
  BY QuarterBounds DEF Request
<1>2. k \in 1 .. total_ram /\ (keep_free_kb[a.dom] = 0 => total_ram <= 4 * k + 3)
  BY KeepBounds, Zenon DEF Request, k
<1>3. /\ a.from \in 0 .. total_ram /\ a.used \in Nat /\ total_ram \in Nat
      /\ a.way \in {"grow", "shrink"}
  BY BalloonAssumption DEF Request
<1>4. a.way = "grow" => a.to = IF a.from + q > total_ram THEN total_ram ELSE a.from + q
  BY Zenon DEF Request, q
<1>5. a.way = "shrink" => /\ a.to = IF a.from - q > total_ram THEN total_ram ELSE a.from - q
                          /\ a.from > k
  BY DEF Request
<1>6. a.same => a.used < a.from /\ (a.way = "shrink" => 2 * (a.from - a.used) > 3 * k)
  BY Zenon DEF Request, k
<1> HIDE DEF q, k
<1>7. CASE a.way = "grow"
  BY <1>1, <1>2, <1>3, <1>4, <1>7
<1>8. CASE a.way = "shrink"
  <2>1. a.to = a.from - q
    BY <1>1, <1>3, <1>5, <1>8
  <2>2. a.to <= total_ram /\ (a.same => a.to > 0)
    BY <1>1, <1>2, <1>3, <1>5, <1>6, <1>8, <2>1
  <2>3. ASSUME a.same, keep_free_kb[a.dom] = 0 \/ q <= k
        PROVE  2 * (a.to - a.used) > k
    BY <1>1, <1>2, <1>3, <1>5, <1>6, <1>8, <2>1, <2>3
  <2> QED
    BY <2>2, <2>3, Zenon DEF k, q
<1> QED
  BY <1>3, <1>7, <1>8, Zenon

\* Two requests for a guest that uses the same, the second made once the first
\* is carried out, go the same way.
LEMMA RequestsSettle ==
  ASSUME NEW a, NEW b, Request(a), Request(b), a.same, b.same, a.dom = b.dom, a.used = b.used,
         a.to = b.from, 2 * Quarter(a.used) <= dom_keep_usable(a.dom)
  PROVE  a.way = b.way
<1> DEFINE q == Quarter(a.used)
           k == dom_keep_usable(a.dom)
<1>1. q \in Nat /\ 1 <= q
  BY QuarterBounds DEF Request
<1>2. k \in 1 .. total_ram
  BY KeepBounds, Zenon DEF Request, k
<1>3. /\ a.from \in 0 .. total_ram /\ b.from \in 0 .. total_ram /\ a.used \in Nat
      /\ total_ram \in Nat /\ a.way \in {"grow", "shrink"} /\ b.way \in {"grow", "shrink"}
  BY BalloonAssumption DEF Request
<1>4. a.way = "grow" => /\ a.to = IF a.from + q > total_ram THEN total_ram ELSE a.from + q
                        /\ a.from - a.used < k
  BY DEF Request
<1>5. a.way = "shrink" => /\ a.to = IF a.from - q > total_ram THEN total_ram ELSE a.from - q
                          /\ 2 * (a.from - a.used) > 3 * k
  BY DEF Request
<1>6. /\ b.way = "grow" => b.from - b.used < k
      /\ b.way = "shrink" => 2 * (b.from - b.used) > 3 * k
  BY Zenon DEF Request, k
<1>7. 2 * q <= k
  OBVIOUS
<1> HIDE DEF q, k
<1>8. ~(a.way = "grow" /\ b.way = "shrink")
  BY <1>1, <1>2, <1>3, <1>4, <1>6, <1>7
<1>9. ~(a.way = "shrink" /\ b.way = "grow")
  BY <1>1, <1>2, <1>3, <1>5, <1>6, <1>7
<1> QED
  BY <1>3, <1>8, <1>9, Zenon

Guest == [up : BOOLEAN, stats : BOOLEAN, actual : 0 .. total_ram, used : Nat,
          target : 0 .. total_ram]
Readings == [actual : Nat, used : Nat, same : BOOLEAN]
Requests == [dom : Domains, to : Int, way : {"grow", "shrink"}, used : Nat, same : BOOLEAN,
             from : Nat]

\* A guest uses no more than it has; one without a driver is never told to change.
Sound(g) ==
  /\ g \in Guest
  /\ g.used <= g.actual /\ (~g.stats => g.target = g.actual)

\* What the daemon has read of guest g, and concluded, before it goes on at label
\* at; what it says of the guest as it is holds if the guest has not changed.
Seen(d, g, x, at) ==
  /\ x.actual <= total_ram
  /\ x.same => x.actual = g.actual
  /\ at = "used" => g.stats \/ x.actual = g.actual
  /\ at # "used" => g.stats /\ (x.same => x.used = g.used /\ x.used < x.actual)
  /\ at = "grow" /\ x.same => x.actual - x.used < dom_keep_usable(d)
  /\ at = "shrink" => /\ x.actual > dom_keep_usable(d)
                      /\ x.same => 2 * (x.actual - x.used) > 3 * dom_keep_usable(d)

Reads == {"used", "ratio", "grow", "shrink"}
BalloonInv ==
  /\ DOMAIN guest = Domains /\ \A d \in Domains : Sound(guest[d])
  /\ guest = [d \in Domains |-> guest[d]]
  /\ domainIDs \subseteq Domains /\ r \in Readings
  /\ ba_pc \in {"list", "died"} \/ dom \in Domains
  /\ ba_pc = "actual" \/ ba_pc \in Reads => dom \in allowed_vms
  /\ ba_pc \in Reads => Seen(dom, guest[dom], r, ba_pc)
  /\ asked \in Seq(Requests)
  /\ \A i \in DOMAIN asked : Request(asked[i]) /\ guest[asked[i].dom].stats

\* The daemon starts with sound guests and no request.
LEMMA BalloonStarts ==
  ASSUME BalloonInit
  PROVE  BalloonInv
<1>1. PICK used \in Uses, actual \in Sizes, stats \in BOOLEAN :
        /\ used <= actual
        /\ guest = [d \in Domains |-> [up |-> TRUE, stats |-> stats, actual |-> actual,
                                       used |-> used, target |-> actual]]
  BY Zenon DEF BalloonInit
<1>2. used \in Nat /\ actual \in 0 .. total_ram
  BY BalloonAssumption
<1> DEFINE g == [up |-> TRUE, stats |-> stats, actual |-> actual, used |-> used,
                 target |-> actual]
<1>3. Sound(g)
  BY <1>1, <1>2 DEF Sound, Guest
<1> HIDE DEF g
<1>4. /\ DOMAIN guest = Domains /\ \A d \in Domains : guest[d] = g
      /\ guest = [d \in Domains |-> guest[d]]
  BY <1>1, Zenon DEF g
<1>5. /\ domainIDs = {} /\ ba_pc = "list" /\ r = NotRead /\ asked = <<>>
  BY DEF BalloonInit
<1>6. NotRead \in Readings
  BY DEF NotRead, Readings
<1> QED
  BY <1>3, <1>4, <1>5, <1>6 DEF BalloonInv, Reads

\* A guest that changes while it is looked at is no longer the same to the
\* daemon; one that has no driver keeps its size.
LEMMA SeenChanged ==
  ASSUME NEW d, NEW g, NEW h, NEW x \in Readings, NEW at, Seen(d, g, x, at), h.stats = g.stats,
         h.stats \/ h.actual = g.actual
  PROVE  [x EXCEPT !.same = FALSE] \in Readings /\ Seen(d, h, [x EXCEPT !.same = FALSE], at)
<1> DEFINE y == [x EXCEPT !.same = FALSE]
<1>1. y \in Readings /\ y.actual = x.actual /\ y.used = x.used /\ ~y.same
  BY Zenon DEF Readings
<1> HIDE DEF y
<1>2. Seen(d, h, y, at)
  BY <1>1 DEF Seen
<1> QED
  BY <1>1, <1>2, Zenon DEF y

\* One guest changes, and stays sound and with its driver: everything the daemon
\* knows stays true.
LEMMA GuestChanges ==
  ASSUME BalloonInv, NEW d \in Domains, NEW g, Sound(g), guest' = [guest EXCEPT ![d] = g],
         g.stats = guest[d].stats, g.stats \/ g.actual = guest[d].actual,
         r' = IF d = dom THEN [r EXCEPT !.same = FALSE] ELSE r,
         UNCHANGED <<dom, domainIDs, ba_pc, asked>>
  PROVE  BalloonInv'
<1>1. /\ DOMAIN guest = Domains /\ \A e \in Domains : Sound(guest[e])
      /\ guest = [e \in Domains |-> guest[e]]
  BY Zenon DEF BalloonInv
<1>2. /\ DOMAIN guest' = Domains /\ guest'[d] = g
      /\ \A e \in Domains : e # d => guest'[e] = guest[e]
      /\ guest' = [e \in Domains |-> guest'[e]]
  BY <1>1
<1>3. \A e \in Domains : Sound(guest'[e]) /\ guest'[e].stats = guest[e].stats
  BY <1>1, <1>2, Zenon
<1>4. /\ domainIDs \subseteq Domains /\ r \in Readings /\ asked \in Seq(Requests)
      /\ ba_pc \in {"list", "died"} \/ dom \in Domains
  BY Zenon DEF BalloonInv
<1>5. r' \in Readings
  BY <1>4, Zenon DEF Readings
<1>6. ASSUME ba_pc \in Reads
      PROVE  dom' \in allowed_vms /\ Seen(dom', guest'[dom'], r', ba_pc')
  <2>1. dom' = dom /\ dom \in Domains /\ ba_pc' = ba_pc
    BY <1>4, <1>6 DEF Reads
  <2>2. dom \in allowed_vms /\ Seen(dom, guest[dom], r, ba_pc)
    BY <1>6, Zenon DEF BalloonInv
  <2>3. CASE d = dom
    <3>1. r' = [r EXCEPT !.same = FALSE]
      BY <2>1, <2>3, Zenon
    <3>2. Seen(d, guest[d], r, ba_pc) /\ r \in Readings
      BY <1>4, <2>2, <2>3, Zenon
    <3>3. Seen(d, g, [r EXCEPT !.same = FALSE], ba_pc)
      BY <3>2, SeenChanged
    <3> QED
      BY <1>2, <2>1, <2>2, <2>3, <3>1, <3>3, Zenon
  <2>4. CASE d # dom
    BY <1>2, <2>1, <2>2, <2>4, Zenon
  <2> QED
    BY <2>3, <2>4, Zenon
<1>7. ba_pc = "actual" => dom \in allowed_vms
  BY Zenon DEF BalloonInv
<1>8. ASSUME NEW i \in DOMAIN asked
      PROVE  Request(asked[i]) /\ guest'[asked[i].dom].stats
  <2>1. Request(asked[i]) /\ guest[asked[i].dom].stats
    BY <1>8, Zenon DEF BalloonInv
  <2>2. asked[i].dom \in Domains
    BY <2>1, Zenon DEF Request
  <2> QED
    BY <1>3, <2>1, <2>2, Zenon
<1> QED
  BY <1>2, <1>3, <1>4, <1>5, <1>6, <1>7, <1>8, Zenon DEF BalloonInv

\* External: a guest uses more or less, shuts down, or carries out a request.
LEMMA GuestStep ==
  ASSUME BalloonInv, NEW d \in Domains, Change(d) \/ Inflate(d)
  PROVE  BalloonInv'
<1> DEFINE g == guest[d]
<1>1. Sound(g) /\ guest = [e \in Domains |-> guest[e]]
  BY Zenon DEF BalloonInv
<1>2. ASSUME NEW h, Sound(h), h.stats = g.stats, h.stats \/ h.actual = g.actual,
             guest' = [guest EXCEPT ![d] = h]
      PROVE  BalloonInv'
  <2>1. /\ r' = IF d = dom THEN [r EXCEPT !.same = FALSE] ELSE r
        /\ UNCHANGED <<dom, domainIDs, ba_pc, asked>>
    BY DEF Change, Inflate
  <2> QED
    BY <1>2, <2>1, GuestChanges, Zenon
<1>3. ASSUME NEW used \in Uses, used <= g.actual, guest' = [guest EXCEPT ![d].used = used]
      PROVE  BalloonInv'
  <2> DEFINE h == [g EXCEPT !.used = used]
  <2>1. used \in Nat
    BY BalloonAssumption
  <2>2. Sound(h) /\ h.stats = g.stats /\ h.actual = g.actual
    BY <1>1, <1>3, <2>1 DEF Sound, Guest
  <2>3. guest' = [guest EXCEPT ![d] = h]
    BY <1>3, Zenon
  <2> HIDE DEF h, g
  <2> QED
    BY <1>2, <2>2, <2>3, Zenon
<1>4. ASSUME guest' = [guest EXCEPT ![d].up = FALSE]
      PROVE  BalloonInv'
  <2> DEFINE h == [g EXCEPT !.up = FALSE]
  <2>1. Sound(h) /\ h.stats = g.stats /\ h.actual = g.actual
    BY <1>1, Zenon DEF Sound, Guest
  <2>2. guest' = [guest EXCEPT ![d] = h]
    BY <1>4, Zenon
  <2> HIDE DEF h, g
  <2> QED
    BY <1>2, <2>1, <2>2, Zenon
<1>5. ASSUME Inflate(d)
      PROVE  BalloonInv'
  <2> DEFINE u == IF g.used > g.target THEN g.target ELSE g.used
             h == [g EXCEPT !.actual = g.target, !.used = u]
  <2>1. u \in Nat /\ u <= g.target /\ g.target \in 0 .. total_ram /\ (~g.stats => g.target = g.actual)
    BY <1>1, BalloonAssumption DEF Sound, Guest
  <2>2. g.actual # g.target
    BY <1>5 DEF Inflate
  <2>3. guest' = [guest EXCEPT ![d] = h]
    BY <1>1, <1>5, Zenon DEF Inflate
  <2> HIDE DEF u
  <2>4. Sound(h) /\ h.stats = g.stats /\ h.stats
    BY <1>1, <2>1, <2>2, Zenon DEF Sound, Guest
  <2> HIDE DEF h, g
  <2> QED
    BY <1>2, <2>3, <2>4, Zenon
<1> QED
  BY <1>3, <1>4, <1>5 DEF Change

\* The daemon goes on to another domain, or to sleep, with nothing read.
LEMMA ProcessStep ==
  ASSUME BalloonInv, NEW ids \in SUBSET Domains, Process(ids), UNCHANGED <<guest, asked>>
  PROVE  BalloonInv'
<1>1. r' \in Readings /\ domainIDs' \subseteq Domains
  BY DEF Process, Readings, NotRead
<1>2. ba_pc' \notin Reads \cup {"actual"} /\ (ba_pc' = "list" \/ dom' \in Domains)
  BY DEF Process, Reads
<1> QED
  BY <1>1, <1>2 DEF BalloonInv

\* The steps of process_domainID up to the request.
LEMMA QueryStep ==
  ASSUME BalloonInv,
         listDomainsID \/ libvirtError \/ lookupByID \/ dom_ram_actual \/ dom_ram_used
           \/ dom_usable_ratio
  PROVE  BalloonInv'
<1>1. /\ UNCHANGED <<guest, asked>> /\ domainIDs \subseteq Domains /\ r \in Readings
      /\ ba_pc \in {"list", "died"} \/ dom \in Domains
  BY DEF BalloonInv, listDomainsID, libvirtError, lookupByID, dom_ram_actual, dom_ram_used,
         dom_usable_ratio, Goto, guests
<1>2. ASSUME NextDomain
      PROVE  BalloonInv'
  BY <1>1, <1>2, ProcessStep DEF NextDomain
<1>3. ASSUME dom \in Domains, dom' = dom, domainIDs' = domainIDs, r' \in Readings,
             dom \in allowed_vms, ba_pc' \in Reads => Seen(dom, guest[dom], r', ba_pc')
      PROVE  BalloonInv'
  BY <1>1, <1>3 DEF BalloonInv
<1>4. CASE listDomainsID
  <2>1. CASE Process({d \in Domains : guest[d].up})
    BY <1>1, <2>1, ProcessStep
  <2>2. CASE UNCHANGED <<dom, domainIDs, ba_pc, r>>
    BY <1>1, <2>2 DEF BalloonInv
  <2> QED
    BY <1>4, <2>1, <2>2, Zenon DEF listDomainsID
<1>5. CASE libvirtError
  BY <1>1, <1>5 DEF BalloonInv, libvirtError, Goto, Reads
<1>6. CASE lookupByID
  BY <1>1, <1>2, <1>3, <1>6 DEF lookupByID, Reads
<1>7. CASE dom_ram_actual
  <2> DEFINE g == guest[dom]
  <2>1. /\ dom \in Domains /\ dom' = dom /\ domainIDs' = domainIDs /\ ba_pc' = "used"
        /\ r' = [r EXCEPT !.actual = g.actual, !.same = TRUE] /\ ba_pc = "actual"
    BY <1>1, <1>7, Zenon DEF dom_ram_actual, Goto
  <2>2. g.actual \in 0 .. total_ram /\ total_ram \in Nat /\ dom \in allowed_vms
    BY <2>1, BalloonAssumption DEF BalloonInv, Sound, Guest
  <2> HIDE DEF g
  <2>3. r' \in Readings /\ r'.actual = g.actual
    <3>1. g.actual \in Nat
      BY <2>2
    <3> QED
      BY <1>1, <2>1, <3>1, Zenon DEF Readings
  <2>4. Seen(dom, g, r', "used")
    BY <2>2, <2>3 DEF Seen
  <2> QED
    BY <1>3, <2>1, <2>2, <2>3, <2>4, Zenon DEF g
<1>8. CASE dom_ram_used
  <2> DEFINE g == guest[dom]
             x == [r EXCEPT !.used = g.used]
  <2>1. dom \in Domains /\ ba_pc = "used" /\ dom \in allowed_vms /\ Seen(dom, g, r, "used") /\ Sound(g)
    BY <1>1, <1>8 DEF dom_ram_used, BalloonInv, Reads
  <2>2. \/ NextDomain
        \/ /\ g.stats /\ g.used # r.actual /\ ba_pc' = "ratio" /\ r' = x
           /\ UNCHANGED <<dom, domainIDs>>
    BY <1>8, <2>1 DEF dom_ram_used, unused, Seen, Sound, Guest
  <2>3. x \in Readings /\ x.actual = r.actual /\ x.same = r.same /\ x.used = g.used
    BY <1>1, <2>1 DEF Readings, Sound, Guest
  <2> HIDE DEF x, g
  <2>4. g.stats /\ g.used # r.actual => Seen(dom, g, x, "ratio")
    BY <1>1, <2>1, <2>3 DEF Seen, Sound, Readings, Guest
  <2> QED
    BY <1>2, <1>3, <2>1, <2>2, <2>3, <2>4, Zenon DEF g
<1>9. CASE dom_usable_ratio
  <2> DEFINE g == guest[dom]
  <2>1. dom \in Domains /\ ba_pc = "ratio" /\ dom \in allowed_vms /\ Seen(dom, g, r, "ratio") /\ Sound(g)
    BY <1>1, <1>9 DEF dom_usable_ratio, BalloonInv, Reads
  <2>2. unused(dom) = g.actual - g.used
    BY <2>1 DEF unused, Seen
  <2>3. \/ NextDomain
        \/ /\ g.actual - g.used < dom_keep_usable(dom)
           /\ ba_pc' = "grow" /\ UNCHANGED <<dom, domainIDs, r>>
        \/ /\ 2 * (g.actual - g.used) > 3 * dom_keep_usable(dom) /\ r.actual > dom_keep_usable(dom)
           /\ ba_pc' = "shrink" /\ UNCHANGED <<dom, domainIDs, r>>
    BY <1>9, <2>2 DEF dom_usable_ratio
  <2> HIDE DEF g
  <2>4. g.actual - g.used < dom_keep_usable(dom) => Seen(dom, g, r, "grow")
    BY <2>1 DEF Seen
  <2>5. 2 * (g.actual - g.used) > 3 * dom_keep_usable(dom) /\ r.actual > dom_keep_usable(dom)
          => Seen(dom, g, r, "shrink")
    BY <2>1 DEF Seen
  <2> QED
    BY <1>1, <1>2, <1>3, <2>1, <2>3, <2>4, <2>5, Zenon DEF g
<1> QED
  BY <1>4, <1>5, <1>6, <1>7, <1>8, <1>9

\* dom_balloon: the request is made from what was read; a size that setMemory
\* accepts becomes the guest's target.
LEMMA RequestStep ==
  ASSUME BalloonInv, dom_balloon
  PROVE  BalloonInv'
<1> DEFINE g == guest[dom]
           want == IF ba_pc = "grow" THEN r.actual + diff ELSE r.actual - diff
           to == IF want > total_ram THEN total_ram ELSE want
           a == [dom |-> dom, to |-> to, way |-> ba_pc, used |-> r.used, same |-> r.same,
                 from |-> r.actual]
<1>1. ba_pc \in {"grow", "shrink"} /\ dom \in Domains /\ dom \in allowed_vms
  BY DEF dom_balloon, BalloonInv, Reads
<1>2. r \in Readings /\ Sound(g) /\ Seen(dom, g, r, ba_pc) /\ g.stats
  BY <1>1 DEF BalloonInv, Reads, Seen
<1>3. r.actual \in Nat /\ r.used \in Nat /\ r.same \in BOOLEAN /\ total_ram \in Nat
  BY <1>2, BalloonAssumption DEF Readings
<1>4. diff = Quarter(r.used)
  BY Zenon DEF diff, Quarter
<1>5. diff \in Nat
  BY <1>3, <1>4, QuarterBounds
<1>6. to \in Int /\ to <= total_ram
  BY <1>3, <1>5
<1>7. asked' = Append(asked, a)
  BY Zenon DEF dom_balloon
<1>8. /\ a.dom = dom /\ a.to = to /\ a.way = ba_pc /\ a.used = r.used /\ a.same = r.same
      /\ a.from = r.actual
  OBVIOUS
<1>9. a \in Requests
  BY <1>1, <1>3, <1>6 DEF Requests
<1>10. Request(a)
  <2>1. a.to = IF want > total_ram THEN total_ram ELSE want
    BY <1>8, Zenon
  <2>2. want = IF a.way = "grow" THEN a.from + Quarter(a.used) ELSE a.from - Quarter(a.used)
    BY <1>4, <1>8, Zenon
  <2> HIDE DEF a, want, to, g
  <2>3. a.from \in 0 .. total_ram
    BY <1>2, <1>3, <1>8 DEF Seen
  <2>4. a.way = "shrink" => a.from > dom_keep_usable(a.dom)
    BY <1>2, <1>8, Zenon DEF Seen
  <2>5. a.same => /\ a.used < a.from
                  /\ a.way = "grow" => a.from - a.used < dom_keep_usable(a.dom)
                  /\ a.way = "shrink" => 2 * (a.from - a.used) > 3 * dom_keep_usable(a.dom)
    BY <1>1, <1>2, <1>8 DEF Seen
  <2> QED
    BY <1>1, <1>3, <1>8, <2>1, <2>2, <2>3, <2>4, <2>5, Zenon DEF Request
<1> HIDE DEF a
<1>11. asked \in Seq(Requests) /\ \A i \in DOMAIN asked : Request(asked[i]) /\ guest[asked[i].dom].stats
  BY Zenon DEF BalloonInv
<1>12. /\ asked' \in Seq(Requests)
       /\ \A i \in DOMAIN asked' : asked'[i] = a \/ (i \in DOMAIN asked /\ asked'[i] = asked[i])
  BY <1>7, <1>9, <1>11
<1>13. ASSUME DOMAIN guest' = Domains, guest' = [e \in Domains |-> guest'[e]],
              \A e \in Domains : Sound(guest'[e]) /\ guest'[e].stats = guest[e].stats,
              r' \in Readings, domainIDs' \subseteq Domains, ba_pc' \notin Reads \cup {"actual"},
              ba_pc' \in {"list", "died"} \/ dom' \in Domains
       PROVE  BalloonInv'
  <2>1. ASSUME NEW i \in DOMAIN asked'
        PROVE  Request(asked'[i]) /\ guest'[asked'[i].dom].stats
    <3>1. Request(asked'[i]) /\ guest[asked'[i].dom].stats
      BY <1>2, <1>8, <1>10, <1>11, <1>12, <2>1, Zenon
    <3> QED
      BY <1>13, <3>1, Zenon DEF Request
  <2> QED
    BY <1>12, <1>13, <2>1, Zenon DEF BalloonInv
<1>14. /\ DOMAIN guest = Domains /\ guest = [e \in Domains |-> guest[e]]
       /\ \A e \in Domains : Sound(guest[e])
       /\ domainIDs \subseteq Domains
  BY Zenon DEF BalloonInv
<1>15. CASE to > 0
  <2> DEFINE h == [g EXCEPT !.target = to]
  <2>1. guest' = [guest EXCEPT ![dom] = h] /\ NextDomain
    BY <1>15 DEF dom_balloon
  <2> HIDE DEF to
  <2>2. Sound(h) /\ h.stats = g.stats
    <3>1. to \in 0 .. total_ram
      BY <1>3, <1>6, <1>15
    <3> QED
      BY <1>2, <3>1, Zenon DEF Sound, Guest
  <2> HIDE DEF h, g
  <2>3. /\ DOMAIN guest' = Domains /\ guest' = [e \in Domains |-> guest'[e]]
        /\ guest'[dom] = h /\ \A e \in Domains : e # dom => guest'[e] = guest[e]
    BY <1>1, <1>14, <2>1
  <2>4. \A e \in Domains : Sound(guest'[e]) /\ guest'[e].stats = guest[e].stats
    BY <1>14, <2>2, <2>3, Zenon DEF g
  <2>5. /\ r' \in Readings /\ domainIDs' \subseteq Domains /\ ba_pc' \notin Reads \cup {"actual"}
        /\ ba_pc' \in {"list", "died"} \/ dom' \in Domains
    BY <1>14, <2>1 DEF NextDomain, Process, Readings, NotRead, Reads
  <2> QED
    BY <1>13, <2>3, <2>4, <2>5, Zenon
<1>16. CASE ~(to > 0)
  <2>1. ba_pc' = "died" /\ guest' = guest /\ domainIDs' = domainIDs /\ r' = r
    BY <1>16 DEF dom_balloon
  <2>2. "died" \notin Reads \cup {"actual"}
    BY DEF Reads
  <2> QED
    BY <1>2, <1>13, <1>14, <2>1, <2>2, Zenon
<1> QED
  BY <1>15, <1>16, Zenon

\* In every behaviour of the daemon and the guests.
LEMMA BalloonInductive == BalloonSpec => []BalloonInv
<1>1. BalloonInit => BalloonInv
  BY BalloonStarts
<1>2. BalloonInv /\ [BalloonNext]_balloon => BalloonInv'
  <2> SUFFICES ASSUME BalloonInv, [BalloonNext]_balloon
               PROVE  BalloonInv'
    OBVIOUS
  <2>1. CASE UNCHANGED balloon
    BY <2>1 DEF BalloonInv, balloon
  <2>2. CASE BalloonNext
    BY <2>2, GuestStep, QueryStep, RequestStep, Zenon DEF BalloonNext, daemon
  <2> QED
    BY <2>1, <2>2
<1> QED
  BY <1>1, <1>2, PTL DEF BalloonSpec

\* libvirt-autoballoon: for any domains, configuration, memory sizes and behaviour
\* of the guests, a request is within bounds.  If the guest did not change between
\* the queries, shrinking leaves it what it uses and half of what is to be kept
\* free, where keep_free_kb is not given or not less than the step; and no later
\* request takes it back, where the step is at most half of what is to be kept.
THEOREM BalloonTheorem == BalloonSpec => []Ballooned
<1>1. BalloonInv => Ballooned
  <2> SUFFICES ASSUME BalloonInv
               PROVE  Ballooned
    OBVIOUS
  <2>1. /\ asked \in Seq(Requests)
        /\ \A i \in DOMAIN asked : Request(asked[i]) /\ guest[asked[i].dom].stats
    BY Zenon DEF BalloonInv
  <2>2. Within
    BY <2>1, RequestFits DEF Within, Request
  <2>3. UsedKept
    BY <2>1, RequestFits, Zenon DEF UsedKept
  <2>4. Settles
    <3>1. ASSUME NEW i \in DOMAIN asked, NEW j \in DOMAIN asked, asked[i].dom = asked[j].dom,
                 asked[i].same, asked[j].same, asked[i].used = asked[j].used,
                 asked[i].to = asked[j].from,
                 2 * Quarter(asked[i].used) <= dom_keep_usable(asked[i].dom)
          PROVE  asked[i].way = asked[j].way
      <4>1. Request(asked[i]) /\ Request(asked[j])
        BY <2>1, <3>1, Zenon
      <4> QED
        BY <3>1, <4>1, RequestsSettle, Zenon
    <3> QED
      BY <3>1, Zenon DEF Settles
  <2> QED
    BY <2>2, <2>3, <2>4, Zenon DEF Ballooned
<1> QED
  BY <1>1, BalloonInductive, PTL
==============================================================================
