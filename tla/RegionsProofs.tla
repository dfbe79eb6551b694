---------------------------- MODULE RegionsProofs ----------------------------
(***************************************************************************)
(* Proofs about module Regions, for any users, distances and world: the    *)
(* queue leads every user to the levels its center asks for, regions count *)
(* their observers, and changes find what they change, as long as no       *)
(* opposite changes met in the queue.                                      *)
(*                                                                         *)
(* The heap comes first: what a push and a pop do to its entries, and that *)
(* they keep it ordered by a weight wherever the order of its entries      *)
(* agrees with that weight. Where it does not, an entry may be anywhere,   *)
(* and nothing below relies on it. Then the entries a request brings, and  *)
(* what a change does to a region.                                         *)
(*                                                                         *)
(* Induction is over sets of naturals with a least or greatest member.     *)
(***************************************************************************)
EXTENDS Regions, TLAPS, SequenceTheorems, FiniteSetTheorems, WellFoundedInduction

\* A set of naturals has a least member.
LEMMA Least ==
  ASSUME NEW T \in SUBSET Nat, T # {}
  PROVE \E x \in T: \A y \in T: x <= y
<1> DEFINE R == OpToRel(<, Nat)
<1>1. IsWellFoundedOn(R, Nat)
  BY NatLessThanWellFounded
<1>2. \A x, y \in Nat: <<y, x>> \in R <=> y < x
  BY DEF OpToRel
<1> HIDE DEF R
<1>3. PICK x \in T: \A y \in T: ~(<<y, x>> \in R)
  BY <1>1, WFMin
<1>4. ASSUME NEW y \in T PROVE x <= y
  <2>1. x \in Nat /\ y \in Nat /\ ~(y < x)
    BY <1>2, <1>3
  <2> QED
    BY <2>1
<1> QED
  BY <1>4

\* A set of naturals below n has a greatest member.
LEMMA Greatest ==
  ASSUME NEW n \in Nat, NEW T \in SUBSET (1 .. n), T # {}
  PROVE \E x \in T: \A y \in T: y <= x
<1> DEFINE U == {i \in Nat : \E t \in T : i = n - t}
<1>1. U \in SUBSET Nat /\ U # {}
  <2>1. PICK t \in T: TRUE
    OBVIOUS
  <2>2. n - t \in Nat
    BY <2>1
  <2> QED
    BY <2>1, <2>2
<1>2. \A t \in T: n - t \in U
  OBVIOUS
<1>3. PICK x \in U: \A y \in U: x <= y
  <2> HIDE DEF U
  <2> QED
    BY <1>1, Least
<1>4. PICK t \in T: x = n - t
  OBVIOUS
<1>5. ASSUME NEW s \in T PROVE s <= t
  <2>1. x <= n - s
    BY <1>2, <1>3, <1>5
  <2>2. s \in Int /\ t \in Int /\ n \in Int
    OBVIOUS
  <2> QED
    BY <1>4, <2>1, <2>2
<1> QED
  BY <1>5

\* Induction, with a set for the property: from n to n + 1 ...
LEMMA Upwards ==
  ASSUME NEW S, 0 \in S, \A n \in Nat: n \in S => n + 1 \in S
  PROVE \A n \in Nat: n \in S
<1> SUFFICES ASSUME NEW m \in Nat, m \notin S PROVE FALSE
  OBVIOUS
<1> DEFINE T == {i \in Nat : i \notin S}
<1>1. PICK x \in T: \A y \in T: x <= y
  <2>1. T \in SUBSET Nat /\ T # {}
    OBVIOUS
  <2> HIDE DEF T
  <2> QED
    BY <2>1, Least
<1>2. x # 0 /\ x \in Nat /\ x - 1 \in Nat
  OBVIOUS
<1>3. x - 1 \notin T
  BY <1>1, <1>2
<1>4. (x - 1) + 1 \in S
  BY <1>2, <1>3
<1> QED
  BY <1>2, <1>4

\* ... and from the parent of an entry of a heap to the entry.
LEMMA Downwards ==
  ASSUME NEW S, 0 \in S, \A n \in Nat \ {0}: n \div 2 \in S => n \in S
  PROVE \A n \in Nat: n \in S
<1> SUFFICES ASSUME NEW m \in Nat, m \notin S PROVE FALSE
  OBVIOUS
<1> DEFINE T == {i \in Nat : i \notin S}
<1>1. PICK x \in T: \A y \in T: x <= y
  <2>1. T \in SUBSET Nat /\ T # {}
    OBVIOUS
  <2> HIDE DEF T
  <2> QED
    BY <2>1, Least
<1>2. x \in Nat \ {0}
  OBVIOUS
<1>3. x \div 2 \in Nat /\ x \div 2 < x
  BY <1>2
<1>4. x \div 2 \notin T
  BY <1>1, <1>2, <1>3
<1>5. x \div 2 \in S
  BY <1>3, <1>4
<1> QED
  BY <1>2, <1>5

-----------------------------------------------------------------------------
(* Heaps. *)

\* Halves, as the provers need them.
LEMMA Halves ==
  ASSUME NEW i \in Nat, i > 0
  PROVE /\ i \div 2 \in Nat /\ i \div 2 < i
        /\ i = 2 * (i \div 2) \/ i = 2 * (i \div 2) + 1
        /\ i > 1 => i \div 2 > 0
        /\ (2 * i) \div 2 = i /\ (2 * i + 1) \div 2 = i
OBVIOUS

\* The function Ancestors is what its definition says.
LEMMA AncestorsDef ==
  \A i \in Nat: Ancestors[i] = IF i = 0 THEN {} ELSE {i} \cup Ancestors[i \div 2]
<1> DEFINE Closed(S, i) == i \in S /\ \A q \in S: q \div 2 \in S
           F == [i \in Nat |-> {p \in 1 .. i : \A S \in SUBSET Nat : Closed(S, i) => p \in S}]
           G(f) == [i \in Nat |-> IF i = 0 THEN {} ELSE {i} \cup f[i \div 2]]
<1>1. ASSUME NEW i \in Nat, i # 0 PROVE F[i] = {i} \cup F[i \div 2]
  <2> DEFINE h == i \div 2
  <2>0. h \in Nat /\ h < i
    BY <1>1, Halves
  <2>1. i \in F[i]
    BY <1>1
  <2>2. ASSUME NEW p \in F[h] PROVE p \in F[i]
    <3>1. p \in 1 .. h /\ p \in 1 .. i
      BY <2>0
    <3>2. ASSUME NEW S \in SUBSET Nat, Closed(S, i) PROVE p \in S
      <4>1. Closed(S, h)
        BY <3>2
      <4> QED
        BY <2>0, <2>2, <4>1
    <3> QED
      BY <3>1, <3>2
  <2>3. ASSUME NEW p \in F[i], p # i PROVE p \in F[h]
    <3>1. ASSUME NEW S \in SUBSET Nat, Closed(S, h) PROVE p \in S
      <4>1. Closed(S \cup {i}, i) /\ S \cup {i} \in SUBSET Nat
        BY <3>1
      <4> QED
        BY <2>3, <4>1
    <3>2. p \in 1 .. h
      <4> DEFINE S == {i} \cup 0 .. h
      <4>1. \A q \in 0 .. h: q \div 2 \in 0 .. h
        <5>1. \A q \in Nat: q \div 2 \in Nat /\ q \div 2 <= q
          OBVIOUS
        <5> QED
          BY <2>0, <5>1
      <4>2. Closed(S, i) /\ S \in SUBSET Nat
        BY <2>0, <4>1
      <4>3. p \in S
        BY <2>3, <4>2
      <4> QED
        BY <2>3, <4>3
    <3> QED
      BY <2>0, <3>1, <3>2
  <2> QED
    BY <2>1, <2>2, <2>3
<1>2. F[0] = {}
  OBVIOUS
<1>3. F = G(F)
  <2> HIDE DEF Closed
  <2>1. \A i \in Nat: F[i] = G(F)[i]
    <3> HIDE DEF F
    <3> QED
      BY <1>1, <1>2
  <2> QED
    BY <2>1
<1>4. \E f: f = G(f)
  BY <1>3
<1>5. Ancestors = CHOOSE f: f = G(f)
  BY DEF Ancestors
<1>6. Ancestors = G(Ancestors)
  <2> HIDE DEF G
  <2> QED
    BY <1>4, <1>5
<1> QED
  BY <1>6

\* The ancestors of an entry: it and those of its parent, up to the first.
LEMMA Path ==
  ASSUME NEW i \in Nat \ {0}
  PROVE /\ i \in Ancestors[i] /\ 1 \in Ancestors[i]
        /\ Ancestors[i] \subseteq 1 .. i
        /\ \A p \in Ancestors[i]: p > 1 => p \div 2 \in Ancestors[i]
        /\ \A p \in Ancestors[i]: p < i => \E q \in Ancestors[i]: q \div 2 = p
        /\ \A p, q \in Ancestors[i]: p < q => p <= q \div 2
<1> DEFINE Good(j) ==
             /\ j \in Ancestors[j] /\ 1 \in Ancestors[j]
             /\ Ancestors[j] \subseteq 1 .. j
             /\ \A p \in Ancestors[j]: p > 1 => p \div 2 \in Ancestors[j]
             /\ \A p \in Ancestors[j]: p < j => \E q \in Ancestors[j]: q \div 2 = p
             /\ \A p, q \in Ancestors[j]: p < q => p <= q \div 2
           S == {j \in Nat : j = 0 \/ Good(j)}
<1>1. 0 \in S
  OBVIOUS
<1>2. ASSUME NEW n \in Nat \ {0}, n \div 2 \in S PROVE n \in S
  <2> DEFINE h == n \div 2
  <2>1. h \in Nat /\ h < n /\ (n > 1 => h > 0)
    BY Halves
  <2>2. Ancestors[n] = {n} \cup Ancestors[h]
    BY AncestorsDef
  <2>3. CASE n = 1
    <3>1. h = 0
      BY <2>3
    <3>2. Ancestors[n] = {1}
      BY <2>2, <2>3, <3>1, AncestorsDef
    <3> QED
      BY <2>3, <3>2
  <2>4. CASE n # 1
    <3> HIDE DEF h
    <3>1. h > 0
      BY <2>1, <2>4
    <3>2. Good(h)
      BY <1>2, <3>1 DEF h
    <3>3. n \in Ancestors[n] /\ 1 \in Ancestors[n] /\ Ancestors[n] \subseteq 1 .. n
      BY <2>1, <2>2, <3>2
    <3>4. \A p \in Ancestors[n]: p > 1 => p \div 2 \in Ancestors[n]
      BY <2>2, <3>2 DEF h
    <3>5. ASSUME NEW p \in Ancestors[n], p < n PROVE \E q \in Ancestors[n]: q \div 2 = p
      <4>1. p \in Ancestors[h] /\ p \in 1 .. h
        BY <2>2, <3>2, <3>5
      <4>2. p = h \/ p < h
        BY <2>1, <4>1
      <4> QED
        BY <2>2, <3>2, <4>1, <4>2 DEF h
    <3>6. ASSUME NEW p \in Ancestors[n], NEW q \in Ancestors[n], p < q PROVE p <= q \div 2
      <4>1. p \in 1 .. n /\ q \in 1 .. n
        BY <3>3
      <4>2. p # n
        BY <3>6, <4>1
      <4>3. p \in Ancestors[h] /\ p \in 1 .. h
        BY <2>2, <3>2, <4>2
      <4> QED
        BY <2>2, <3>2, <3>6, <4>3 DEF h
    <3> QED
      BY <3>3, <3>4, <3>5, <3>6
  <2> QED
    BY <2>3, <2>4
<1>3. \A n \in Nat: n \in S
  <2> HIDE DEF S
  <2> QED
    BY <1>1, <1>2, Downwards
<1> QED
  BY <1>3

\* g has the entries of h, each as often.
Shuffle(g, h) ==
  \E p \in [DOMAIN h -> DOMAIN h]:
    /\ \A i, j \in DOMAIN h: p[i] = p[j] => i = j
    /\ \A k \in DOMAIN h: \E i \in DOMAIN h: p[i] = k
    /\ g = [j \in DOMAIN h |-> h[p[j]]]

\* At most one entry of q is one of K.
Single(q, K) == \A i, j \in DOMAIN q: q[i] \in K /\ q[j] \in K => i = j

\* No entry weighs more than its parent, and the order of entries is that of
\* their weights.
Ordered(h, w) == \A j \in 2 .. Len(h): w[h[j]] <= w[h[j \div 2]]

Fits(E, w) ==
  \A e, f \in E: /\ w[e] \in Nat
                 /\ Le(e, f) => w[e] <= w[f]
                 /\ ~Le(e, f) => w[f] <= w[e]

\* A bijection of positions keeps the entries, and single ones single.
LEMMA Shuffled ==
  ASSUME NEW E, NEW h \in Seq(E), NEW g, Shuffle(g, h)
  PROVE /\ g \in Seq(E) /\ Len(g) = Len(h) /\ Range(g) = Range(h)
        /\ \A K: Single(h, K) => Single(g, K)
<1>1. PICK p \in [DOMAIN h -> DOMAIN h]:
        /\ \A i, j \in DOMAIN h: p[i] = p[j] => i = j
        /\ \A k \in DOMAIN h: \E i \in DOMAIN h: p[i] = k
        /\ g = [j \in DOMAIN h |-> h[p[j]]]
  BY DEF Shuffle
<1>2. DOMAIN h = 1 .. Len(h) /\ Len(h) \in Nat /\ \A i \in DOMAIN h: h[i] \in E
  BY LenProperties
<1>3. g \in Seq(E) /\ Len(g) = Len(h) /\ DOMAIN g = DOMAIN h
  <2>1. g \in [1 .. Len(h) -> E]
    BY <1>1, <1>2
  <2> QED
    BY <1>2, <2>1
<1>4. Range(g) = Range(h)
  BY <1>1, <1>3 DEF Range
<1>5. ASSUME NEW K, Single(h, K) PROVE Single(g, K)
  BY <1>1, <1>3, <1>5 DEF Single
<1> QED
  BY <1>3, <1>4, <1>5

\* ... and so do two of them.
LEMMA ShuffledTwice ==
  ASSUME NEW f, NEW g, NEW h, Shuffle(f, g), Shuffle(g, h)
  PROVE Shuffle(f, h)
<1> DEFINE D == DOMAIN h
<1>1. PICK p \in [D -> D]:
        /\ \A i, j \in D: p[i] = p[j] => i = j
        /\ \A k \in D: \E i \in D: p[i] = k
        /\ g = [j \in D |-> h[p[j]]]
  BY DEF Shuffle
<1>2. DOMAIN g = D
  BY <1>1
<1>3. PICK o \in [DOMAIN g -> DOMAIN g]:
        /\ \A i, j \in DOMAIN g: o[i] = o[j] => i = j
        /\ \A k \in DOMAIN g: \E i \in DOMAIN g: o[i] = k
        /\ f = [j \in DOMAIN g |-> g[o[j]]]
  BY DEF Shuffle
<1> HIDE DEF D
<1>4. /\ o \in [D -> D]
      /\ \A i, j \in D: o[i] = o[j] => i = j
      /\ \A k \in D: \E i \in D: o[i] = k
      /\ f = [j \in D |-> g[o[j]]]
  BY <1>2, <1>3
<1> DEFINE r == [j \in D |-> p[o[j]]]
<1>5. r \in [D -> D]
  BY <1>1, <1>4
<1>6. ASSUME NEW i \in D, NEW j \in D, r[i] = r[j] PROVE i = j
  <2>1. o[i] \in D /\ o[j] \in D /\ p[o[i]] = p[o[j]]
    BY <1>4, <1>6
  <2>2. o[i] = o[j]
    BY <1>1, <2>1
  <2> QED
    BY <1>4, <2>2
<1>7. ASSUME NEW k \in D PROVE \E i \in D: r[i] = k
  <2>1. PICK i \in D: p[i] = k
    BY <1>1
  <2>2. PICK j \in D: o[j] = i
    BY <1>4
  <2> QED
    BY <2>1, <2>2
<1>8. f = [j \in D |-> h[r[j]]]
  BY <1>1, <1>4
<1> HIDE DEF r
<1> QED
  BY <1>5, <1>6, <1>7, <1>8 DEF Shuffle, D

\* Going up shuffles a heap, and orders one that only its leaf i may disturb.
LEMMA GoingUp ==
  ASSUME NEW E, NEW h \in Seq(E), NEW i \in 1 .. Len(h)
  PROVE /\ Shuffle(SiftUp(h, i), h)
        /\ \A w: Fits(E, w) /\ 2 * i > Len(h)
                 /\ (\A j \in 2 .. Len(h): j # i => w[h[j]] <= w[h[j \div 2]])
                 => Ordered(SiftUp(h, i), w)
<1> DEFINE path == Ancestors[i]
           Stops(p) == p = 1 \/ Le(h[i], h[p \div 2])
           Top(p) == Stops(p) /\ \A q \in path: q > p => ~Le(h[i], h[q \div 2])
           top == CHOOSE p \in path: Top(p)
           g == SiftUp(h, i)
<1>1. DOMAIN h = 1 .. Len(h) /\ Len(h) \in Nat /\ \A j \in DOMAIN h: h[j] \in E
  BY LenProperties
<1>2. i \in Nat \ {0} /\ i <= Len(h)
  BY <1>1
<1>3. /\ i \in path /\ 1 \in path /\ path \subseteq 1 .. i
      /\ \A p \in path: p > 1 => p \div 2 \in path
      /\ \A p \in path: p < i => \E q \in path: q \div 2 = p
      /\ \A p, q \in path: p < q => p <= q \div 2
  BY <1>2, Path
<1>4. \A j \in DOMAIN h: path \subseteq DOMAIN h /\ (j > 1 => j \div 2 \in DOMAIN h /\ j \div 2 < j)
  BY <1>1, <1>2, <1>3
<1> HIDE DEF path
<1>5. \E p \in path: Top(p)
  <2> DEFINE T == {p \in path : Stops(p)}
  <2>1. T \in SUBSET (1 .. i) /\ T # {}
    BY <1>3
  <2>2. PICK p \in T: \A q \in T: q <= p
    <3> HIDE DEF T
    <3> QED
      BY <1>2, <2>1, Greatest
  <2>3. ASSUME NEW q \in path, q > p PROVE ~Le(h[i], h[q \div 2])
    <3>1. q \notin T
      BY <1>3, <2>2, <2>3
    <3> QED
      BY <3>1
  <2> QED
    BY <2>2, <2>3
<1> HIDE DEF Top
<1>6. top \in path /\ Top(top)
  BY <1>5
<1>7. g = [j \in DOMAIN h |-> IF j = top THEN h[i]
                              ELSE IF j \in path /\ j > top THEN h[j \div 2] ELSE h[j]]
  BY DEF SiftUp, Top, path
<1>8. top \in 1 .. i /\ Stops(top) /\ \A q \in path: q > top => ~Le(h[i], h[q \div 2])
  BY <1>3, <1>6 DEF Top
<1> HIDE DEF top, g, Stops
<1>9. Shuffle(g, h)
  <2> DEFINE p == [j \in DOMAIN h |-> IF j = top THEN i
                                      ELSE IF j \in path /\ j > top THEN j \div 2 ELSE j]
  <2>1. p \in [DOMAIN h -> DOMAIN h]
    <3>1. ASSUME NEW j \in path, j > top PROVE j \div 2 \in DOMAIN h
      BY <1>1, <1>2, <1>3, <1>4, <1>8, <3>1
    <3> QED
      BY <1>1, <1>2, <3>1
  <2>2. ASSUME NEW j \in DOMAIN h, NEW k \in DOMAIN h, p[j] = p[k], j < k PROVE FALSE
    <3>1. j \in Nat /\ k \in Nat /\ top \in Nat
      BY <1>1, <1>8
    <3>2. CASE j = top
      <4>1. p[j] = i
        BY <3>2
      <4>2. CASE k \in path
        <5>1. p[k] = k \div 2 /\ k <= i
          BY <1>3, <2>2, <3>1, <3>2, <4>2
        <5> QED
          BY <1>2, <2>2, <3>1, <4>1, <5>1
      <4>3. CASE k \notin path
        BY <1>3, <2>2, <3>2, <4>1, <4>3
      <4> QED
        BY <4>2, <4>3
    <3>3. CASE j \in path /\ j > top
      <4>1. p[j] = j \div 2 /\ j \div 2 \in path /\ top <= j \div 2
        BY <1>3, <1>6, <1>8, <3>1, <3>3
      <4>2. CASE k \in path
        <5>1. p[k] = k \div 2 /\ j <= k \div 2
          BY <1>3, <2>2, <3>1, <3>3, <4>2
        <5> QED
          BY <2>2, <3>1, <3>3, <4>1, <5>1
      <4>3. CASE k \notin path
        BY <1>6, <2>2, <4>1, <4>3
      <4> QED
        BY <4>2, <4>3
    <3>4. CASE j # top /\ ~(j \in path /\ j > top)
      <4>1. p[j] = j
        BY <3>4
      <4>2. CASE k = top
        BY <1>3, <1>8, <2>2, <3>1, <4>1, <4>2
      <4>3. CASE k \in path /\ k > top
        <5>1. p[k] = k \div 2 /\ k \div 2 \in path /\ top <= k \div 2
          BY <1>3, <1>6, <1>8, <3>1, <4>3
        <5> QED
          BY <2>2, <3>1, <3>4, <4>1, <5>1
      <4>4. CASE k # top /\ ~(k \in path /\ k > top)
        BY <2>2, <3>1, <4>1, <4>4
      <4> QED
        BY <4>2, <4>3, <4>4
    <3> QED
      BY <3>2, <3>3, <3>4
  <2>3. ASSUME NEW k \in DOMAIN h PROVE \E j \in DOMAIN h: p[j] = k
    <3>1. CASE k = i
      BY <1>4, <1>6, <3>1
    <3>2. CASE k \in path /\ top <= k /\ k < i
      <4>1. PICK q \in path: q \div 2 = k
        BY <1>3, <3>2
      <4>2. q \in DOMAIN h /\ q > top /\ q # top
        <5>1. q \in Nat \ {0} /\ k \in Nat /\ top \in Nat
          BY <1>1, <1>3, <1>8
        <5>2. k < q
          BY <4>1, <5>1, Halves
        <5>3. q \in DOMAIN h
          BY <1>4
        <5> QED
          BY <3>2, <5>1, <5>2, <5>3
      <4> QED
        BY <4>1, <4>2
    <3>3. CASE k # i /\ ~(k \in path /\ top <= k)
      <4>1. p[k] = k
        BY <1>3, <1>6, <1>8, <3>3
      <4> QED
        BY <4>1
    <3>4. k \in path => k <= i
      BY <1>3
    <3>5. k \in Nat
      BY <1>1
    <3> QED
      BY <1>2, <3>1, <3>2, <3>3, <3>4, <3>5
  <2>4. g = [j \in DOMAIN h |-> h[p[j]]]
    BY <1>7
  <2>5. \A j, k \in DOMAIN h: p[j] = p[k] => j = k
    <3>1. \A j, k \in DOMAIN h: j < k \/ j = k \/ k < j
      BY <1>1
    <3> HIDE DEF p
    <3> QED
      BY <2>2, <3>1
  <2> HIDE DEF p
  <2> QED
    BY <2>1, <2>3, <2>4, <2>5 DEF Shuffle
<1>10. ASSUME NEW w, Fits(E, w), 2 * i > Len(h),
              \A j \in 2 .. Len(h): j # i => w[h[j]] <= w[h[j \div 2]]
       PROVE Ordered(g, w)
  <2>1. Len(g) = Len(h)
    BY <1>9, Shuffled
  <2> SUFFICES ASSUME NEW j \in 2 .. Len(h) PROVE w[g[j]] <= w[g[j \div 2]]
    BY <2>1 DEF Ordered
  <2> DEFINE a == j \div 2
  <2>2. j \in DOMAIN h /\ a \in DOMAIN h /\ a < j /\ j \in Nat /\ a \in Nat /\ j > 1 /\ 2 * a <= j
    BY <1>1
  <2>3. \A k \in DOMAIN h: w[h[k]] \in Nat
    BY <1>1, <1>10 DEF Fits
  <2>4. a # i
    BY <1>1, <1>2, <1>10, <2>2
  <2>5. j # i => w[h[j]] <= w[h[a]]
    BY <1>10
  <2>6. top \in Nat /\ top \in DOMAIN h /\ i \in DOMAIN h
    BY <1>1, <1>2, <1>4, <1>6, <1>8
  <2>7. a \in path /\ a > top => a > 1 /\ a \div 2 \in DOMAIN h /\ w[h[a]] <= w[h[a \div 2]]
    <3> SUFFICES ASSUME a \in path, a > top PROVE a > 1 /\ a \div 2 \in DOMAIN h /\ w[h[a]] <= w[h[a \div 2]]
      OBVIOUS
    <3> HIDE DEF a
    <3>1. a \in 2 .. Len(h)
      BY <1>1, <1>8, <2>2, <2>6
    <3>2. w[h[a]] <= w[h[a \div 2]]
      BY <1>10, <2>4, <3>1
    <3> QED
      BY <1>4, <2>2, <3>1, <3>2
  <2> HIDE DEF a
  <2>8. CASE j = top
    <3>1. a \in path
      BY <1>3, <1>6, <2>2, <2>8 DEF a
    <3>2. g[j] = h[i] /\ g[a] = h[a]
      BY <1>7, <2>2, <2>6, <2>8
    <3>3. Le(h[i], h[a])
      BY <1>8, <2>2, <2>8 DEF Stops, a
    <3> QED
      BY <1>1, <1>10, <2>2, <2>6, <3>2, <3>3 DEF Fits, a
  <2>9. CASE j \in path /\ j > top
    <3>1. a \in path /\ top <= a
      BY <1>3, <1>6, <2>2, <2>9 DEF a
    <3>2. g[j] = h[a]
      BY <1>7, <2>2, <2>6, <2>9 DEF a
    <3>3. CASE a = top
      <4>1. g[a] = h[i]
        BY <1>7, <2>2, <3>3
      <4>2. ~Le(h[i], h[a])
        BY <1>8, <2>9 DEF a
      <4> QED
        BY <1>1, <1>10, <2>2, <2>6, <3>2, <4>1, <4>2 DEF Fits, a
    <3>4. CASE a # top
      <4>1. a > top
        BY <2>2, <2>6, <3>1, <3>4
      <4>2. g[a] = h[a \div 2]
        BY <1>7, <2>2, <2>6, <3>1, <4>1
      <4> QED
        BY <2>7, <3>1, <3>2, <4>1, <4>2 DEF a
    <3> QED
      BY <3>3, <3>4
  <2>10. CASE j # top /\ ~(j \in path /\ j > top)
    <3>1. g[j] = h[j]
      BY <1>7, <2>2, <2>10
    <3>2. j # i
      BY <1>3, <1>8, <2>6, <2>10
    <3>3. CASE a = top
      <4>1. g[a] = h[i] /\ top < i
        BY <1>7, <1>8, <2>2, <2>4, <3>3
      <4>2. PICK q \in path: q \div 2 = top
        BY <1>3, <1>6, <4>1
      <4>3. q > top
        <5>1. q \in Nat \ {0}
          BY <1>3
        <5> QED
          BY <2>6, <4>2, <5>1, Halves
      <4>4. ~Le(h[i], h[a])
        BY <1>8, <3>3, <4>2, <4>3
      <4>5. w[h[a]] <= w[h[i]]
        BY <1>1, <1>10, <2>2, <2>6, <4>4 DEF Fits
      <4> QED
        BY <2>2, <2>3, <2>5, <2>6, <3>1, <3>2, <4>1, <4>5 DEF a
    <3>4. CASE a \in path /\ a > top
      <4>1. g[a] = h[a \div 2]
        BY <1>7, <2>2, <2>6, <3>4
      <4>2. w[h[j]] <= w[h[a]] /\ w[h[a]] <= w[h[a \div 2]]
        BY <2>5, <2>7, <3>2, <3>4
      <4>3. w[h[j]] \in Nat /\ w[h[a]] \in Nat /\ w[h[a \div 2]] \in Nat
        BY <2>2, <2>3, <2>7, <3>4
      <4> QED
        BY <3>1, <4>1, <4>2, <4>3 DEF a
    <3>5. CASE a # top /\ ~(a \in path /\ a > top)
      <4>1. g[a] = h[a]
        BY <1>7, <2>2, <3>5
      <4> QED
        BY <2>5, <3>1, <3>2, <4>1 DEF a
    <3> QED
      BY <3>3, <3>4, <3>5
  <2> QED
    BY <2>8, <2>9, <2>10
<1> QED
  BY <1>9, <1>10 DEF g

\* Going down shuffles a heap, and orders it but for its bottom where it was
\* ordered but for the first entry.
LEMMA GoingDown ==
  ASSUME NEW E, NEW h \in Seq(E), Len(h) > 0
  PROVE LET b == Bottom(h) IN
        /\ b \in 1 .. Len(h) /\ 2 * b > Len(h)
        /\ Shuffle(SiftDown(h, b), h)
        /\ \A w: Fits(E, w) /\ (\A j \in 2 .. Len(h): j \div 2 # 1 => w[h[j]] <= w[h[j \div 2]])
                 => \A j \in 2 .. Len(h): j # b =>
                      w[SiftDown(h, b)[j]] <= w[SiftDown(h, b)[j \div 2]]
<1> DEFINE n == Len(h)
           Down(i) == \A p \in Ancestors[i] \ {1} : p = GreaterChild(h, p \div 2)
           b == CHOOSE i \in DOMAIN h : 2 * i > n /\ Down(i)
           path == Ancestors[b]
           c(j) == GreaterChild(h, j)
           g == SiftDown(h, b)
<1>1. DOMAIN h = 1 .. n /\ n \in Nat \ {0} /\ \A j \in DOMAIN h: h[j] \in E
  BY LenProperties
<1>2. b = Bottom(h)
  BY DEF Bottom
<1>3. ASSUME NEW j \in DOMAIN h, 2 * j <= n
      PROVE c(j) \in DOMAIN h /\ c(j) \div 2 = j /\ c(j) > j /\ (c(j) = 2 * j \/ c(j) = 2 * j + 1)
  <2>1. j \in Nat \ {0}
    BY <1>1
  <2>2. (2 * j) \div 2 = j /\ (2 * j + 1) \div 2 = j
    BY <2>1, Halves
  <2>3. c(j) = 2 * j \/ (c(j) = 2 * j + 1 /\ 2 * j < n)
    BY DEF GreaterChild
  <2> HIDE DEF c, n
  <2>4. CASE c(j) = 2 * j
    <3>1. 2 * j \in 1 .. n /\ 2 * j > j
      BY <1>1, <1>3, <2>1
    <3> QED
      BY <1>1, <2>2, <2>4, <3>1
  <2>5. CASE c(j) = 2 * j + 1 /\ 2 * j < n
    <3>1. 2 * j + 1 \in 1 .. n /\ 2 * j + 1 > j
      BY <1>1, <2>1, <2>5
    <3> QED
      BY <1>1, <2>2, <2>5, <3>1
  <2> QED
    BY <2>3, <2>4, <2>5
<1> HIDE DEF c, n
<1>4. \E i \in DOMAIN h: 2 * i > n /\ Down(i)
  <2> DEFINE T == {i \in DOMAIN h : Down(i)}
  <2>1. 1 \in T
    <3>1. 1 \div 2 = 0 /\ 1 \in Nat /\ 0 \in Nat
      OBVIOUS
    <3>2. Ancestors[0] = {}
      BY AncestorsDef
    <3>3. Ancestors[1] = {1}
      <4>1. \A k \in Nat: k # 0 => Ancestors[k] = {k} \cup Ancestors[k \div 2]
        BY AncestorsDef
      <4>2. Ancestors[1] = {1} \cup Ancestors[1 \div 2]
        BY <3>1, <4>1
      <4> QED
        BY <3>1, <3>2, <4>2
    <3> QED
      BY <1>1, <3>3
  <2>2. T \in SUBSET (1 .. n) /\ T # {}
    BY <1>1, <2>1
  <2>3. PICK m \in T: \A i \in T: i <= m
    <3> HIDE DEF T
    <3> QED
      BY <1>1, <2>2, Greatest
  <2>4. m \in Nat \ {0} /\ m \in DOMAIN h /\ Down(m)
    BY <1>1
  <2>5. ASSUME 2 * m <= n PROVE FALSE
    <3>1. c(m) \in DOMAIN h /\ c(m) \div 2 = m /\ c(m) > m
      BY <1>3, <2>4, <2>5
    <3>2. Ancestors[c(m)] = {c(m)} \cup Ancestors[m]
      <4>1. c(m) \in Nat /\ c(m) # 0
        BY <1>1, <3>1
      <4>2. Ancestors[c(m)] = {c(m)} \cup Ancestors[c(m) \div 2]
        BY <4>1, AncestorsDef
      <4> QED
        BY <3>1, <4>2
    <3>3. c(m) \in T
      BY <2>4, <3>1, <3>2 DEF c
    <3> QED
      BY <1>1, <2>3, <2>4, <3>1, <3>3
  <2> QED
    BY <1>1, <2>4, <2>5
<1>5. b \in DOMAIN h /\ 2 * b > n /\ Down(b)
  BY <1>4
<1>6. \A p \in path: p # 1 => p = c(p \div 2)
  BY <1>5 DEF c
<1> HIDE DEF b, Down
<1>7. b \in Nat \ {0} /\ b <= n
  BY <1>1, <1>5
<1>8. /\ b \in path /\ 1 \in path /\ path \subseteq 1 .. b
      /\ \A p \in path: p > 1 => p \div 2 \in path
      /\ \A p \in path: p < b => \E q \in path: q \div 2 = p
  BY <1>7, Path
<1>9. g = [j \in DOMAIN h |-> IF j = b THEN h[1] ELSE IF j \in path THEN h[c(j)] ELSE h[j]]
  BY DEF SiftDown, c
<1> HIDE DEF path, g
<1>10. ASSUME NEW j \in path, j # b
       PROVE c(j) \in path /\ c(j) \in DOMAIN h /\ c(j) \div 2 = j /\ c(j) > 1
  <2>1. j \in Nat \ {0} /\ j < b
    BY <1>7, <1>8, <1>10
  <2>2. PICK q \in path: q \div 2 = j
    BY <1>8, <2>1
  <2>3. q \in Nat \ {0} /\ q \in DOMAIN h /\ q # 1
    <3>1. q \in Nat \ {0} /\ q \in DOMAIN h
      BY <1>1, <1>7, <1>8
    <3>2. 1 \div 2 = 0
      OBVIOUS
    <3> QED
      BY <2>1, <2>2, <3>1, <3>2
  <2>4. q = c(j)
    BY <1>6, <2>2, <2>3
  <2> QED
    BY <2>2, <2>3, <2>4
<1>11. Shuffle(g, h)
  <2> DEFINE p == [j \in DOMAIN h |-> IF j = b THEN 1 ELSE IF j \in path THEN c(j) ELSE j]
  <2>1. p \in [DOMAIN h -> DOMAIN h]
    BY <1>1, <1>10
  <2>2. ASSUME NEW j \in DOMAIN h, NEW k \in DOMAIN h, p[j] = p[k] PROVE j = k
    <3>1. CASE j = b \/ j \in path
      <4>1. p[j] \in path
        BY <1>8, <1>10, <3>1
      <4>2. k = b \/ k \in path
        BY <2>2, <4>1
      <4>3. j # b => p[j] = c(j) /\ c(j) > 1 /\ c(j) \div 2 = j
        BY <1>10, <3>1
      <4>4. k # b => p[k] = c(k) /\ c(k) > 1 /\ c(k) \div 2 = k
        BY <1>10, <4>2
      <4>5. p[b] = 1
        BY <1>5
      <4> QED
        BY <2>2, <4>3, <4>4, <4>5
    <3>2. CASE k = b \/ k \in path
      <4>1. p[k] \in path
        BY <1>8, <1>10, <3>2
      <4>2. j = b \/ j \in path
        BY <2>2, <4>1
      <4> QED
        BY <3>1, <4>2
    <3>3. CASE ~(j = b \/ j \in path) /\ ~(k = b \/ k \in path)
      BY <2>2, <3>3
    <3> QED
      BY <3>1, <3>2, <3>3
  <2>3. ASSUME NEW k \in DOMAIN h PROVE \E j \in DOMAIN h: p[j] = k
    <3>1. CASE k \notin path
      <4>1. p[k] = k
        BY <1>8, <3>1
      <4> QED
        BY <4>1
    <3>2. CASE k = 1
      BY <1>5, <3>2
    <3>3. CASE k \in path /\ k # 1
      <4> DEFINE j == k \div 2
      <4>1. k \in Nat \ {0} /\ k > 1 /\ k <= b
        BY <1>7, <1>8, <3>3
      <4>2. j \in path /\ j \in Nat /\ j < k
        BY <1>8, <3>3, <4>1
      <4>3. j \in DOMAIN h /\ j # b /\ c(j) = k
        BY <1>1, <1>6, <1>7, <1>8, <3>3, <4>1, <4>2
      <4> HIDE DEF j
      <4>4. p[j] = k
        BY <4>2, <4>3
      <4> QED
        BY <4>3, <4>4
    <3> QED
      BY <3>1, <3>2, <3>3
  <2>4. g = [j \in DOMAIN h |-> h[p[j]]]
    BY <1>9
  <2> HIDE DEF p
  <2> QED
    BY <2>1, <2>2, <2>3, <2>4 DEF Shuffle
<1>12. ASSUME NEW w, Fits(E, w), \A j \in 2 .. n: j \div 2 # 1 => w[h[j]] <= w[h[j \div 2]],
              NEW j \in 2 .. n, j # b
       PROVE w[g[j]] <= w[g[j \div 2]]
  <2> DEFINE a == j \div 2
  <2>1. /\ j \in DOMAIN h /\ a \in DOMAIN h /\ a < j /\ j \in Nat /\ a \in Nat /\ j > 1
        /\ j = 2 * a \/ j = 2 * a + 1
    BY <1>1
  <2>2. \A k \in DOMAIN h: w[h[k]] \in Nat
    BY <1>1, <1>12 DEF Fits
  <2> HIDE DEF a
  <2>3. CASE j \in path
    <3>1. a \in path /\ a # b
      BY <1>7, <1>8, <2>1, <2>3 DEF a
    <3>2. g[j] = h[c(j)] /\ g[a] = h[c(a)] /\ c(a) = j
      BY <1>6, <1>9, <1>12, <2>1, <2>3, <3>1 DEF a
    <3>3. c(j) \in DOMAIN h /\ c(j) \div 2 = j /\ c(j) > 1
      BY <1>10, <1>12, <2>3
    <3>4. c(j) \in 2 .. n /\ j # 1
      BY <1>1, <2>1, <3>3
    <3>5. w[h[c(j)]] <= w[h[j]]
      BY <1>12, <3>3, <3>4
    <3> QED
      BY <3>2, <3>5 DEF a
  <2>4. CASE j \notin path
    <3>1. g[j] = h[j]
      BY <1>9, <1>12, <2>1, <2>4
    <3>2. CASE a \notin path
      <4>1. g[a] = h[a] /\ a # 1
        BY <1>8, <1>9, <2>1, <3>2
      <4> QED
        BY <1>12, <3>1, <4>1 DEF a
    <3>3. CASE a \in path
      <4>1. a # b
        BY <1>1, <1>5, <1>7, <2>1
      <4>2. g[a] = h[c(a)] /\ c(a) # j
        BY <1>9, <1>10, <2>1, <2>4, <3>3, <4>1
      <4>3. c(a) \in DOMAIN h /\ h[c(a)] \in E /\ h[j] \in E
        BY <1>1, <1>10, <2>1, <3>3, <4>1
      <4>4. w[h[j]] <= w[h[c(a)]]
        <5>1. CASE 2 * a < n /\ Le(h[2 * a], h[2 * a + 1])
          <6>1. c(a) = 2 * a + 1
            BY <5>1 DEF c, n, GreaterChild
          <6>2. j = 2 * a
            BY <2>1, <4>2, <6>1
          <6> QED
            BY <1>12, <4>3, <5>1, <6>1, <6>2 DEF Fits
        <5>2. CASE ~(2 * a < n /\ Le(h[2 * a], h[2 * a + 1]))
          <6>1. c(a) = 2 * a
            BY <5>2 DEF c, n, GreaterChild
          <6>2. j = 2 * a + 1
            BY <2>1, <4>2, <6>1
          <6>3. ~Le(h[2 * a], h[2 * a + 1])
            BY <1>1, <2>1, <5>2, <6>2
          <6> QED
            BY <1>12, <4>3, <6>1, <6>2, <6>3 DEF Fits
        <5> QED
          BY <5>1, <5>2
      <4> QED
        BY <3>1, <4>2, <4>4 DEF a
    <3> QED
      BY <3>2, <3>3
  <2> QED
    BY <2>3, <2>4
<1>13. b \in 1 .. n
  BY <1>1, <1>5
<1> QED
  BY <1>2, <1>5, <1>11, <1>12, <1>13 DEF g, n

\* The first entry of an ordered heap weighs the most.
LEMMA FirstIsGreatest ==
  ASSUME NEW h, Len(h) \in Nat, NEW w, \A j \in 1 .. Len(h): w[h[j]] \in Nat, Ordered(h, w)
  PROVE \A j \in 1 .. Len(h): w[h[j]] <= w[h[1]]
<1> DEFINE S == {j \in Nat : j \in 1 .. Len(h) => w[h[j]] <= w[h[1]]}
<1>1. 0 \in S
  OBVIOUS
<1>2. ASSUME NEW j \in Nat \ {0}, j \div 2 \in S PROVE j \in S
  <2> SUFFICES ASSUME j \in 2 .. Len(h) PROVE w[h[j]] <= w[h[1]]
    <3>1. CASE j = 1
      <4>1. 1 \in 1 .. Len(h) => w[h[1]] <= w[h[1]]
        OBVIOUS
      <4> QED
        BY <3>1, <4>1
    <3>2. j \in 1 .. Len(h) /\ j # 1 => j \in 2 .. Len(h)
      OBVIOUS
    <3> QED
      BY <3>1, <3>2
  <2> DEFINE p == j \div 2
  <2>1. p \in 1 .. Len(h) /\ j \in 1 .. Len(h) /\ 1 \in 1 .. Len(h)
    OBVIOUS
  <2>2. w[h[p]] <= w[h[1]]
    BY <1>2, <2>1
  <2>3. w[h[j]] <= w[h[p]]
    BY DEF Ordered
  <2>4. w[h[p]] \in Nat /\ w[h[j]] \in Nat /\ w[h[1]] \in Nat
    BY <2>1
  <2> HIDE DEF p
  <2> QED
    BY <2>2, <2>3, <2>4
<1>3. \A j \in Nat: j \in S
  <2> HIDE DEF S
  <2> QED
    BY <1>1, <1>2, Downwards
<1> QED
  BY <1>3

\* BinaryHeap::push.
LEMMA Pushing ==
  ASSUME NEW E, NEW h \in Seq(E), NEW e \in E
  PROVE /\ Shuffle(Push(h, e), Append(h, e))
        /\ \A w: Fits(E, w) /\ Ordered(h, w) => Ordered(Push(h, e), w)
<1> DEFINE n == Len(h)
           k == Append(h, e)
<1>1. n \in Nat /\ DOMAIN h = 1 .. n
  BY LenProperties
<1>2. k \in Seq(E) /\ Len(k) = n + 1 /\ \A j \in 1 .. n: k[j] = h[j]
  BY <1>1, AppendProperties
<1>3. Push(h, e) = SiftUp(k, n + 1)
  BY DEF Push
<1>4. n + 1 \in 1 .. Len(k) /\ 2 * (n + 1) > Len(k)
  BY <1>1, <1>2
<1>5. ASSUME NEW w, Ordered(h, w), NEW j \in 2 .. Len(k), j # n + 1
      PROVE w[k[j]] <= w[k[j \div 2]]
  <2>1. j \in 2 .. n /\ j \in 1 .. n /\ j \div 2 \in 1 .. n
    BY <1>1, <1>2, <1>5
  <2> QED
    BY <1>2, <1>5, <2>1 DEF Ordered
<1> HIDE DEF n, k
<1>6. Shuffle(SiftUp(k, n + 1), k)
  BY <1>2, <1>4, GoingUp
<1>7. ASSUME NEW w, Fits(E, w), Ordered(h, w) PROVE Ordered(SiftUp(k, n + 1), w)
  BY <1>2, <1>4, <1>5, <1>7, GoingUp
<1> QED
  BY <1>3, <1>6, <1>7 DEF k

\* BinaryHeap::pop: everything but the first entry remains, each as often as
\* it was.
LEMMA Popping ==
  ASSUME NEW E, queue \in Seq(E), queue # <<>>, Pop
  PROVE /\ queue' \in Seq(E) /\ Range(queue') = {queue[j] : j \in 2 .. Len(queue)}
        /\ \A K: Single(queue, K) => Single(queue', K)
        /\ \A w: Fits(E, w) /\ Ordered(queue, w) => Ordered(queue', w)
<1> DEFINE n == Len(queue)
<1>1. n \in Nat \ {0} /\ DOMAIN queue = 1 .. n /\ \A j \in 1 .. n: queue[j] \in E
  BY LenProperties, EmptySeq
<1>2. CASE n = 1
  <2>1. queue' = <<>>
    BY <1>2 DEF Pop
  <2>2. <<>> \in Seq(E) /\ Len(<<>>) = 0 /\ DOMAIN <<>> = {}
    BY EmptySeq
  <2>3. Range(queue') = {} /\ {queue[j] : j \in 2 .. n} = {}
    BY <1>2, <2>1, <2>2 DEF Range
  <2>4. \A K: Single(queue', K)
    BY <2>1, <2>2 DEF Single
  <2>5. \A w: Ordered(queue', w)
    BY <2>1, <2>2 DEF Ordered
  <2> QED
    BY <2>1, <2>2, <2>3, <2>4, <2>5
<1>3. CASE n # 1
  <2> DEFINE rest == <<Last(queue)>> \o SubSeq(queue, 2, n - 1)
             b == Bottom(rest)
             sunk == SiftDown(rest, b)
  <2>1. queue' = SiftUp(sunk, b)
    BY <1>3 DEF Pop
  <2>2. n - 1 \in Nat /\ n - 1 > 0
    BY <1>1, <1>3
  <2>3. rest \in Seq(E) /\ Len(rest) = n - 1 /\ rest[1] = queue[n] /\ \A j \in 2 .. n - 1: rest[j] = queue[j]
    <3> DEFINE s == SubSeq(queue, 2, n - 1)
               x == Last(queue)
    <3>1. x = queue[n] /\ x \in E
      BY <1>1 DEF Last
    <3>2. s \in Seq(E) /\ Len(s) = n - 2 /\ \A j \in 1 .. n - 2: s[j] = queue[j + 1]
      <4>1. 2 \in Int /\ n - 1 \in Int /\ \A j \in 2 .. n - 1: queue[j] \in E
        BY <1>1
      <4>2. s \in Seq(E) /\ Len(s) = (IF 2 <= n - 1 THEN (n - 1) - 2 + 1 ELSE 0)
            /\ \A j \in 1 .. (n - 1) - 2 + 1: s[j] = queue[2 + j - 1]
        BY <4>1, SubSeqProperties
      <4>3. Len(s) = n - 2
        BY <1>1, <2>2, <4>2
      <4>4. ASSUME NEW j \in 1 .. n - 2 PROVE s[j] = queue[j + 1]
        <5>1. j \in 1 .. (n - 1) - 2 + 1 /\ 2 + j - 1 = j + 1
          BY <1>1
        <5> QED
          BY <4>2, <5>1
      <4> QED
        BY <4>2, <4>3, <4>4
    <3>3. <<x>> \in Seq(E) /\ Len(<<x>>) = 1 /\ <<x>>[1] = x
      BY <3>1
    <3> HIDE DEF s, x
    <3> DEFINE t == <<x>> \o s
    <3>4. t \in Seq(E) /\ Len(t) = 1 + (n - 2)
          /\ \A j \in 1 .. 1 + (n - 2): t[j] = IF j <= 1 THEN <<x>>[j] ELSE s[j - 1]
      BY <3>2, <3>3, ConcatProperties
    <3>5. rest = t
      BY DEF s, x
    <3> HIDE DEF t, rest
    <3>6. ASSUME NEW j \in 2 .. n - 1 PROVE t[j] = queue[j]
      <4>1. j \in 1 .. 1 + (n - 2) /\ ~(j <= 1) /\ j - 1 \in 1 .. n - 2 /\ (j - 1) + 1 = j
        BY <1>1
      <4> QED
        BY <3>2, <3>4, <4>1
    <3>7. Len(t) = n - 1 /\ 1 \in 1 .. 1 + (n - 2) /\ 1 <= 1
      BY <1>1, <2>2, <3>4
    <3>8. t[1] = queue[n]
      BY <3>1, <3>3, <3>4, <3>7
    <3> QED
      BY <3>4, <3>5, <3>6, <3>7, <3>8
  <2> HIDE DEF rest, n
  <2>4. /\ b \in 1 .. n - 1 /\ 2 * b > n - 1 /\ Shuffle(sunk, rest)
        /\ \A w: Fits(E, w) /\ (\A j \in 2 .. Len(rest): j \div 2 # 1 => w[rest[j]] <= w[rest[j \div 2]])
                 => \A j \in 2 .. Len(rest): j # b => w[sunk[j]] <= w[sunk[j \div 2]]
    BY <2>2, <2>3, GoingDown
  <2> HIDE DEF b, sunk
  <2>5. sunk \in Seq(E) /\ Len(sunk) = n - 1
    BY <2>3, <2>4, Shuffled
  <2>6. Shuffle(queue', sunk)
    BY <2>1, <2>4, <2>5, GoingUp
  <2>7. Shuffle(queue', rest)
    BY <2>4, <2>6, ShuffledTwice
  <2>8. queue' \in Seq(E) /\ Range(queue') = Range(rest) /\ \A K: Single(rest, K) => Single(queue', K)
    BY <2>3, <2>7, Shuffled
  <2>9. DOMAIN rest = 1 .. n - 1
    BY <2>3, LenProperties
  <2>10. Range(rest) = {queue[j] : j \in 2 .. n}
    <3>1. ASSUME NEW i \in 1 .. n - 1 PROVE \E j \in 2 .. n: rest[i] = queue[j]
      <4>1. CASE i = 1
        BY <1>1, <2>2, <2>3, <4>1
      <4>2. CASE i # 1
        BY <1>1, <2>3, <4>2
      <4> QED
        BY <4>1, <4>2
    <3>2. ASSUME NEW j \in 2 .. n PROVE \E i \in 1 .. n - 1: rest[i] = queue[j]
      <4>1. CASE j = n
        <5>1. 1 \in 1 .. n - 1
          BY <1>1, <2>2
        <5> QED
          BY <2>3, <4>1, <5>1
      <4>2. CASE j # n
        BY <1>1, <2>3, <4>2
      <4> QED
        BY <4>1, <4>2
    <3>3. Range(rest) = {rest[i] : i \in 1 .. n - 1}
      BY <2>9 DEF Range
    <3>4. ASSUME NEW x \in Range(rest) PROVE x \in {queue[j] : j \in 2 .. n}
      <4>1. PICK i \in 1 .. n - 1: x = rest[i]
        BY <3>3
      <4> QED
        BY <3>1, <4>1
    <3>5. ASSUME NEW j \in 2 .. n PROVE queue[j] \in Range(rest)
      BY <3>2, <3>3
    <3> QED
      BY <3>4, <3>5
  <2>11. ASSUME NEW K, Single(queue, K) PROVE Single(rest, K)
    <3> DEFINE at == [i \in 1 .. n - 1 |-> IF i = 1 THEN n ELSE i]
    <3>1. \A i \in 1 .. n - 1: at[i] \in 1 .. n /\ rest[i] = queue[at[i]]
      BY <1>1, <2>2, <2>3
    <3>2. \A i, j \in 1 .. n - 1: at[i] = at[j] => i = j
      BY <1>1
    <3> HIDE DEF at
    <3> QED
      BY <1>1, <2>9, <2>11, <3>1, <3>2 DEF Single
  <2>12. ASSUME NEW w, Fits(E, w), Ordered(queue, w) PROVE Ordered(queue', w)
    <3>1. ASSUME NEW j \in 2 .. Len(rest), j \div 2 # 1 PROVE w[rest[j]] <= w[rest[j \div 2]]
      <4>1. j \in 2 .. n - 1 /\ j \in 2 .. n /\ j \div 2 \in 2 .. n - 1
        BY <1>1, <2>3, <3>1
      <4>2. w[queue[j]] <= w[queue[j \div 2]]
        BY <2>12, <4>1 DEF Ordered, n
      <4> QED
        BY <2>3, <4>1, <4>2
    <3>2. \A j \in 2 .. Len(sunk): j # b => w[sunk[j]] <= w[sunk[j \div 2]]
      BY <2>3, <2>4, <2>5, <2>12, <3>1
    <3> QED
      BY <2>1, <2>4, <2>5, <2>12, <3>2, GoingUp
  <2> QED
    BY <2>8, <2>10, <2>11, <2>12 DEF n
<1> QED
  BY <1>2, <1>3

\* The pushes of a run of entries.
LEMMA PushingAll ==
  ASSUME NEW E, NEW h \in Seq(E), NEW es \in Seq(E)
  PROVE LET q == PushAll(h, es) IN
        /\ q \in Seq(E) /\ Range(q) = Range(h) \cup Range(es)
        /\ \A K: Single(h, K) /\ Single(es, K) /\ (Range(h) \cap K = {} \/ Range(es) \cap K = {})
                 => Single(q, K)
        /\ \A w: Fits(E, w) /\ Ordered(h, w) => Ordered(q, w)
<1> DEFINE m == Len(es)
           G(f, k) == [n \in 0 .. k |-> IF n = 0 THEN h ELSE Push(f[n - 1], es[n])]
           after == CHOOSE f: f = G(f, m)
           Upto(K, n) == \A i, j \in 1 .. n: es[i] \in K /\ es[j] \in K => i = j
           Good(q, n) ==
             /\ q \in Seq(E) /\ \A x: x \in Range(q) <=> x \in Range(h) \/ \E i \in 1 .. n: x = es[i]
             /\ \A K: /\ Single(h, K) /\ Upto(K, n)
                      /\ Range(h) \cap K = {} \/ \A i \in 1 .. n: es[i] \notin K
                      => Single(q, K)
             /\ \A w: Fits(E, w) /\ Ordered(h, w) => Ordered(q, w)
<1>1. m \in Nat /\ DOMAIN es = 1 .. m /\ \A i \in 1 .. m: es[i] \in E
  BY LenProperties
<1>2. PushAll(h, es) = after[m]
  BY DEF PushAll
<1> HIDE DEF m
<1>3. \E f: f = G(f, m)
  <2> DEFINE S == {k \in Nat : \E f: f = G(f, k)}
  <2>1. 0 \in S
    <3> DEFINE f == [n \in 0 .. 0 |-> h]
    <3>1. f = G(f, 0)
      OBVIOUS
    <3> QED
      BY <3>1
  <2>2. ASSUME NEW k \in Nat, k \in S PROVE k + 1 \in S
    <3>1. PICK f: f = G(f, k)
      BY <2>2
    <3> DEFINE g == [n \in 0 .. k + 1 |-> IF n = k + 1 THEN Push(f[k], es[n]) ELSE f[n]]
    <3>2. ASSUME NEW n \in 0 .. k + 1
          PROVE g[n] = IF n = 0 THEN h ELSE Push(g[n - 1], es[n])
      <4>1. CASE n = k + 1
        <5>1. n # 0 /\ n - 1 = k /\ k # k + 1 /\ k \in 0 .. k + 1
          BY <4>1
        <5>2. g[k] = f[k] /\ g[n] = Push(f[k], es[n])
          BY <4>1, <5>1
        <5> QED
          BY <5>1, <5>2
      <4>2. CASE n # k + 1
        <5>1. n \in 0 .. k /\ g[n] = f[n]
          BY <4>2
        <5>2. f[n] = IF n = 0 THEN h ELSE Push(f[n - 1], es[n])
          BY <3>1, <5>1
        <5>3. n # 0 => n - 1 \in 0 .. k + 1 /\ n - 1 # k + 1
          BY <5>1
        <5>4. n # 0 => g[n - 1] = f[n - 1]
          BY <5>3
        <5> QED
          BY <5>1, <5>2, <5>4
      <4> QED
        BY <4>1, <4>2
    <3>3. g = G(g, k + 1)
      <4>1. DOMAIN g = 0 .. k + 1 /\ g = [n \in 0 .. k + 1 |-> g[n]]
        OBVIOUS
      <4> HIDE DEF g
      <4> QED
        BY <3>2, <4>1
    <3> HIDE DEF G, g
    <3> QED
      BY <3>3
  <2>3. \A k \in Nat: k \in S
    <3> HIDE DEF S
    <3> QED
      BY <2>1, <2>2, Upwards
  <2> QED
    BY <1>1, <2>3
<1>4. after = G(after, m)
  <2> HIDE DEF G
  <2> QED
    BY <1>3
<1> HIDE DEF after
<1>5. after[0] = h /\ \A n \in 1 .. m: after[n] = Push(after[n - 1], es[n])
  BY <1>1, <1>4
<1> DEFINE S == {n \in Nat : n <= m => Good(after[n], n)}
<1>6. 0 \in S
  <2>1. Good(h, 0)
    OBVIOUS
  <2> HIDE DEF Good
  <2> QED
    BY <1>5, <2>1
<1>7. ASSUME NEW n \in Nat, n \in S PROVE n + 1 \in S
  <2> SUFFICES ASSUME n + 1 <= m PROVE Good(after[n + 1], n + 1)
    OBVIOUS
  <2> DEFINE a == after[n]
             e == es[n + 1]
             b == Push(a, e)
             c == Append(a, e)
  <2>1. n \in 0 .. m /\ n + 1 \in 1 .. m /\ (n + 1) - 1 = n
    BY <1>1
  <2>2. after[n + 1] = b /\ e \in E
    BY <1>1, <1>5, <2>1
  <2>3. Good(a, n)
    BY <1>7, <2>1
  <2> HIDE DEF a, e
  <2>4. Shuffle(b, c) /\ \A w: Fits(E, w) /\ Ordered(a, w) => Ordered(b, w)
    BY <2>2, <2>3, Pushing
  <2>5. c \in Seq(E) /\ Len(c) = Len(a) + 1 /\ c[Len(a) + 1] = e /\ \A i \in 1 .. Len(a): c[i] = a[i]
    BY <2>2, <2>3, AppendProperties
  <2>6. DOMAIN c = 1 .. Len(a) + 1 /\ DOMAIN a = 1 .. Len(a) /\ Len(a) \in Nat
    BY <2>3, <2>5, LenProperties
  <2> HIDE DEF b, c
  <2>7. b \in Seq(E) /\ Range(b) = Range(c) /\ \A K: Single(c, K) => Single(b, K)
    BY <2>4, <2>5, Shuffled
  <2>8. \A x: x \in Range(c) <=> x \in Range(a) \/ x = e
    BY <2>5, <2>6 DEF Range
  <2>9. \A x: x \in Range(b) <=> x \in Range(h) \/ \E i \in 1 .. n + 1: x = es[i]
    <3>1. \A x: (\E i \in 1 .. n + 1: x = es[i]) <=> (\E i \in 1 .. n: x = es[i]) \/ x = e
      BY DEF e
    <3> QED
      BY <2>3, <2>7, <2>8, <3>1
  <2>10. ASSUME NEW K, Single(h, K), Upto(K, n + 1),
                Range(h) \cap K = {} \/ \A i \in 1 .. n + 1: es[i] \notin K
         PROVE Single(b, K)
    <3>1. Single(a, K)
      BY <2>3, <2>10
    <3>2. e \in K => Range(a) \cap K = {}
      <4> SUFFICES ASSUME e \in K PROVE Range(a) \cap K = {}
        OBVIOUS
      <4>1. Range(h) \cap K = {}
        BY <2>10 DEF e
      <4>2. ASSUME NEW i \in 1 .. n PROVE es[i] \notin K
        <5>1. i \in 1 .. n + 1 /\ n + 1 \in 1 .. n + 1 /\ i # n + 1
          OBVIOUS
        <5> QED
          BY <2>10, <5>1 DEF e
      <4> QED
        BY <2>3, <4>1, <4>2
    <3>3. \A i \in 1 .. Len(a): a[i] \in Range(a)
      BY <2>6 DEF Range
    <3>4. Single(c, K)
      BY <2>5, <2>6, <3>1, <3>2, <3>3 DEF Single
    <3> QED
      BY <2>7, <3>4
  <2>11. \A w: Fits(E, w) /\ Ordered(h, w) => Ordered(b, w)
    BY <2>3, <2>4
  <2> QED
    BY <2>2, <2>7, <2>9, <2>10, <2>11
<1>8. Good(after[m], m)
  <2>1. \A n \in Nat: n \in S
    <3> HIDE DEF S
    <3> QED
      BY <1>6, <1>7, Upwards
  <2> HIDE DEF Good
  <2> QED
    BY <1>1, <2>1
<1>9. \A x: x \in Range(es) <=> \E i \in 1 .. m: x = es[i]
  BY <1>1 DEF Range
<1>10. ASSUME NEW K, Single(h, K), Single(es, K), Range(h) \cap K = {} \/ Range(es) \cap K = {}
       PROVE Single(after[m], K)
  BY <1>1, <1>8, <1>9, <1>10 DEF Single
<1> QED
  BY <1>2, <1>8, <1>9, <1>10

-----------------------------------------------------------------------------
(* The entries that requests bring. *)

Changes == Setups \cup Teardowns

EntrySet == [pos: Region, distance: Nat, user: Users, change: Changes]

Levels == {"none", "static", "full"}

\* Two sequences, one behind the other.
LEMMA Joined ==
  ASSUME NEW E, NEW s \in Seq(E), NEW t \in Seq(E)
  PROVE /\ s \o t \in Seq(E) /\ Range(s \o t) = Range(s) \cup Range(t)
        /\ \A K: Single(s, K) /\ Single(t, K) /\ (Range(s) \cap K = {} \/ Range(t) \cap K = {})
                 => Single(s \o t, K)
<1> DEFINE m == Len(s)
           n == Len(t)
           q == s \o t
<1>1. m \in Nat /\ n \in Nat /\ DOMAIN s = 1 .. m /\ DOMAIN t = 1 .. n
  BY LenProperties
<1>2. q \in Seq(E) /\ Len(q) = m + n /\ \A i \in 1 .. m + n: q[i] = IF i <= m THEN s[i] ELSE t[i - m]
  BY ConcatProperties
<1>3. DOMAIN q = 1 .. m + n
  BY <1>2, LenProperties
<1> HIDE DEF q, m, n
<1>4. \A i \in 1 .. m: i \in DOMAIN q /\ q[i] = s[i]
  BY <1>1, <1>2, <1>3
<1>5. ASSUME NEW i \in 1 .. n PROVE i + m \in DOMAIN q /\ q[i + m] = t[i]
  <2>1. i + m \in 1 .. m + n /\ ~(i + m <= m) /\ (i + m) - m = i
    BY <1>1
  <2> QED
    BY <1>2, <1>3, <2>1
<1>6. \A i \in DOMAIN q: i \in 1 .. m \/ \E j \in 1 .. n: i = j + m
  <2>1. ASSUME NEW i \in 1 .. m + n, i \notin 1 .. m PROVE i - m \in 1 .. n /\ i = (i - m) + m
    BY <1>1, <2>1
  <2> QED
    BY <1>3, <2>1
<1>7. Range(q) = Range(s) \cup Range(t)
  <2>1. ASSUME NEW x \in Range(q) PROVE x \in Range(s) \cup Range(t)
    <3>1. PICK i \in DOMAIN q: x = q[i]
      BY DEF Range
    <3> QED
      BY <1>1, <1>4, <1>5, <1>6, <3>1 DEF Range
  <2>2. ASSUME NEW x \in Range(s) PROVE x \in Range(q)
    BY <1>1, <1>4 DEF Range
  <2>3. ASSUME NEW x \in Range(t) PROVE x \in Range(q)
    <3>1. PICK i \in DOMAIN t: x = t[i]
      BY DEF Range
    <3> QED
      BY <1>1, <1>5, <3>1 DEF Range
  <2> QED
    BY <2>1, <2>2, <2>3
<1>8. ASSUME NEW K, Single(s, K), Single(t, K), Range(s) \cap K = {} \/ Range(t) \cap K = {}
      PROVE Single(q, K)
  <2> SUFFICES ASSUME NEW i \in DOMAIN q, NEW j \in DOMAIN q, q[i] \in K, q[j] \in K PROVE i = j
    BY DEF Single
  <2>1. \A k \in 1 .. m: s[k] \in Range(s)
    BY <1>1 DEF Range
  <2>2. \A k \in 1 .. n: t[k] \in Range(t)
    BY <1>1 DEF Range
  <2>3. CASE i \in 1 .. m /\ j \in 1 .. m
    BY <1>1, <1>4, <1>8, <2>3 DEF Single
  <2>4. CASE i \notin 1 .. m /\ j \notin 1 .. m
    <3>1. PICK a \in 1 .. n: i = a + m
      BY <1>6, <2>4
    <3>2. PICK b \in 1 .. n: j = b + m
      BY <1>6, <2>4
    <3>3. t[a] \in K /\ t[b] \in K
      BY <1>5, <3>1, <3>2
    <3> QED
      BY <1>1, <1>8, <3>1, <3>2, <3>3 DEF Single
  <2>5. \A k \in 1 .. m: q[k] \in Range(s)
    BY <1>4, <2>1
  <2>6. \A k \in DOMAIN q: k \notin 1 .. m => q[k] \in Range(t)
    BY <1>5, <1>6, <2>2
  <2> QED
    BY <1>8, <2>3, <2>4, <2>5, <2>6
<1> QED
  BY <1>2, <1>7, <1>8 DEF q

\* SequencesExt's FlattenSeq: the sequences of ss, one behind the other.
LEMMA Flattened ==
  ASSUME NEW E, NEW ss \in Seq(Seq(E))
  PROVE LET q == FlattenSeq(ss) IN
        /\ q \in Seq(E) /\ \A x: x \in Range(q) <=> \E i \in DOMAIN ss: x \in Range(ss[i])
        /\ \A K: /\ \A i \in DOMAIN ss: Single(ss[i], K)
                 /\ \A i, j \in DOMAIN ss: i # j => Range(ss[i]) \cap K = {} \/ Range(ss[j]) \cap K = {}
                 => Single(q, K)
<1> DEFINE m == Len(ss)
           G(f, k) == [n \in 1 .. k |-> IF n = 1 THEN ss[n] ELSE f[n - 1] \o ss[n]]
           flat == CHOOSE f: f = G(f, m)
           Good(q, n) ==
             /\ q \in Seq(E) /\ \A x: x \in Range(q) <=> \E i \in 1 .. n: x \in Range(ss[i])
             /\ \A K: /\ \A i \in 1 .. n: Single(ss[i], K)
                      /\ \A i, j \in 1 .. n: i # j => Range(ss[i]) \cap K = {} \/ Range(ss[j]) \cap K = {}
                      => Single(q, K)
<1>1. m \in Nat /\ DOMAIN ss = 1 .. m /\ \A i \in 1 .. m: ss[i] \in Seq(E)
  BY LenProperties
<1>2. FlattenSeq(ss) = IF m = 0 THEN ss ELSE flat[m]
  BY DEF FlattenSeq
<1>3. CASE m = 0
  <2>1. ss = <<>>
    BY <1>3, EmptySeq
  <2>2. ss \in Seq(E) /\ DOMAIN ss = {}
    BY <1>1, <1>3, <2>1, EmptySeq
  <2>3. Range(ss) = {} /\ \A K: Single(ss, K)
    BY <2>2 DEF Range, Single
  <2>4. FlattenSeq(ss) = ss
    BY <1>2, <1>3
  <2> QED
    BY <2>2, <2>3, <2>4
<1>4. CASE m # 0
  <2> HIDE DEF m
  <2>1. \E f: f = G(f, m)
    <3> DEFINE S == {k \in Nat : \E f: f = G(f, k)}
    <3>1. 0 \in S
      <4> DEFINE f == [n \in 1 .. 0 |-> E]
      <4>1. f = G(f, 0)
        OBVIOUS
      <4> QED
        BY <4>1
    <3>2. ASSUME NEW k \in Nat, k \in S PROVE k + 1 \in S
      <4>1. PICK f: f = G(f, k)
        BY <3>2
      <4> DEFINE g == [n \in 1 .. k + 1 |-> IF n = 1 THEN ss[n]
                                            ELSE IF n = k + 1 THEN f[k] \o ss[n] ELSE f[n]]
      <4>2. ASSUME NEW n \in 1 .. k + 1
            PROVE g[n] = IF n = 1 THEN ss[n] ELSE g[n - 1] \o ss[n]
        <5>1. \A i \in 1 .. k: f[i] = IF i = 1 THEN ss[i] ELSE f[i - 1] \o ss[i]
          BY <4>1
        <5>2. CASE n = 1
          BY <5>2
        <5>3. CASE n # 1
          <6>1. n - 1 \in 1 .. k /\ n - 1 \in 1 .. k + 1 /\ n - 1 # k + 1
            BY <5>3
          <6>2. g[n - 1] = f[n - 1]
            <7>1. f[n - 1] = IF n - 1 = 1 THEN ss[n - 1] ELSE f[(n - 1) - 1] \o ss[n - 1]
              BY <5>1, <6>1
            <7>2. g[n - 1] = IF n - 1 = 1 THEN ss[n - 1] ELSE f[n - 1]
              BY <6>1
            <7> QED
              BY <7>1, <7>2
          <6>3. CASE n = k + 1
            <7>1. k + 1 \in 1 .. k + 1 /\ k + 1 # 1 /\ n - 1 = k
              BY <5>3, <6>3
            <7>2. g[k + 1] = f[k] \o ss[k + 1]
              BY <7>1
            <7> QED
              BY <5>3, <6>2, <6>3, <7>1, <7>2
          <6>4. CASE n # k + 1
            <7>1. n \in 1 .. k /\ g[n] = f[n]
              BY <5>3, <6>4
            <7>2. f[n] = f[n - 1] \o ss[n]
              BY <5>1, <5>3, <7>1
            <7> QED
              BY <5>3, <6>2, <7>1, <7>2
          <6> QED
            BY <6>3, <6>4
        <5> QED
          BY <5>2, <5>3
      <4>3. g = G(g, k + 1)
        <5>1. DOMAIN g = 1 .. k + 1 /\ g = [n \in 1 .. k + 1 |-> g[n]]
          OBVIOUS
        <5> HIDE DEF g
        <5> QED
          BY <4>2, <5>1
      <4> HIDE DEF G, g
      <4> QED
        BY <4>3
    <3>3. \A k \in Nat: k \in S
      <4> HIDE DEF S
      <4> QED
        BY <3>1, <3>2, Upwards
    <3> QED
      BY <1>1, <3>3
  <2>2. flat = G(flat, m)
    <3> HIDE DEF G
    <3> QED
      BY <2>1
  <2> HIDE DEF flat
  <2>3. flat[1] = ss[1] /\ \A n \in 2 .. m: flat[n] = flat[n - 1] \o ss[n]
    <3>1. \A n \in 1 .. m: flat[n] = IF n = 1 THEN ss[n] ELSE flat[n - 1] \o ss[n]
      BY <2>2
    <3>2. 1 \in 1 .. m /\ \A n \in 2 .. m: n \in 1 .. m /\ n # 1
      BY <1>1, <1>4
    <3> QED
      BY <3>1, <3>2
  <2> DEFINE S == {n \in Nat : n > 0 /\ n <= m => Good(flat[n], n)}
  <2>4. 0 \in S
    OBVIOUS
  <2>5. ASSUME NEW n \in Nat, n \in S PROVE n + 1 \in S
    <3> SUFFICES ASSUME n + 1 <= m PROVE Good(flat[n + 1], n + 1)
      <4> HIDE DEF Good
      <4> QED
        OBVIOUS
    <3>1. CASE n = 0
      <4>1. n + 1 = 1 /\ 1 .. 1 = {1} /\ 1 \in 1 .. m
        BY <1>1, <1>4, <3>1
      <4>2. Good(ss[1], 1)
        BY <1>1, <4>1
      <4> HIDE DEF Good
      <4> QED
        BY <2>3, <4>1, <4>2
    <3>2. CASE n # 0
      <4> DEFINE a == flat[n]
                 t == ss[n + 1]
                 b == a \o t
      <4>1. n \in 1 .. m /\ n + 1 \in 2 .. m /\ n + 1 \in 1 .. m /\ (n + 1) - 1 = n
        BY <1>1, <3>2
      <4>2. flat[n + 1] = b /\ t \in Seq(E)
        BY <1>1, <2>3, <4>1
      <4>3. Good(a, n)
        BY <2>5, <4>1
      <4> HIDE DEF a, t
      <4>4. /\ b \in Seq(E) /\ Range(b) = Range(a) \cup Range(t)
            /\ \A K: Single(a, K) /\ Single(t, K) /\ (Range(a) \cap K = {} \/ Range(t) \cap K = {})
                 => Single(b, K)
        BY <4>2, <4>3, Joined
      <4> HIDE DEF b
      <4>5. \A x: x \in Range(b) <=> \E i \in 1 .. n + 1: x \in Range(ss[i])
        <5>1. \A x: (\E i \in 1 .. n + 1: x \in Range(ss[i]))
                    <=> (\E i \in 1 .. n: x \in Range(ss[i])) \/ x \in Range(t)
          <6>1. 1 .. n + 1 = (1 .. n) \cup {n + 1}
            OBVIOUS
          <6> QED
            BY <6>1 DEF t
        <5> QED
          BY <4>3, <4>4, <5>1
      <4>6. ASSUME NEW K, \A i \in 1 .. n + 1: Single(ss[i], K),
                   \A i, j \in 1 .. n + 1: i # j => Range(ss[i]) \cap K = {} \/ Range(ss[j]) \cap K = {}
            PROVE Single(b, K)
        <5>1. \A i \in 1 .. n: i \in 1 .. n + 1 /\ i # n + 1
          OBVIOUS
        <5>2. n + 1 \in 1 .. n + 1
          OBVIOUS
        <5>3. Single(a, K) /\ Single(t, K)
          BY <4>3, <4>6, <5>1, <5>2 DEF t
        <5>4. ASSUME Range(t) \cap K # {} PROVE Range(a) \cap K = {}
          <6>1. \A i \in 1 .. n: Range(ss[i]) \cap K = {}
            BY <4>6, <5>1, <5>2, <5>4 DEF t
          <6> QED
            BY <4>3, <6>1
        <5> QED
          BY <4>4, <5>3, <5>4
      <4> QED
        BY <4>2, <4>4, <4>5, <4>6
    <3> QED
      BY <3>1, <3>2
  <2>6. Good(flat[m], m)
    <3>1. \A n \in Nat: n \in S
      <4> HIDE DEF S
      <4> QED
        BY <2>4, <2>5, Upwards
    <3> HIDE DEF Good
    <3> QED
      BY <1>1, <1>4, <3>1
  <2>7. FlattenSeq(ss) = flat[m]
    BY <1>2, <1>4
  <2> QED
    BY <1>1, <2>6, <2>7
<1> QED
  BY <1>3, <1>4

\* In a sequence of at most one entry every entry is single.
LEMMA AtMostOne ==
  ASSUME NEW E, NEW s \in Seq(E), Len(s) <= 1
  PROVE \A K: Single(s, K)
<1>1. Len(s) \in Nat /\ DOMAIN s = 1 .. Len(s)
  BY LenProperties
<1>2. \A i, j \in DOMAIN s: i = j
  BY <1>1
<1> QED
  BY <1>2 DEF Single

\* The changes from one level to another.
Moves(old, new) ==
  {c \in Changes :
     \/ c = "SetupStatic" /\ old = "none" /\ new # "none"
     \/ c = "SetupDynamic" /\ old # "full" /\ new = "full"
     \/ c = "TeardownDynamic" /\ old = "full" /\ new # "full"
     \/ c = "TeardownStatic" /\ old # "none" /\ new = "none"}

\* Update lists the moves, each once.
LEMMA Updates ==
  ASSUME NEW old, NEW new
  PROVE /\ Update(old, new) \in Seq(Changes) /\ Range(Update(old, new)) = Moves(old, new)
        /\ \A K: (\E c: K \subseteq {c}) => Single(Update(old, new), K)
<1> DEFINE a == IF old = "none" /\ new # "none" THEN <<"SetupStatic">> ELSE <<>>
           b == IF old # "full" /\ new = "full" THEN <<"SetupDynamic">> ELSE <<>>
           c == IF old = "full" /\ new # "full" THEN <<"TeardownDynamic">> ELSE <<>>
           d == IF old # "none" /\ new = "none" THEN <<"TeardownStatic">> ELSE <<>>
           ab == a \o b
           abc == ab \o c
           q == abc \o d
<1>1. ASSUME NEW x \in Changes
      PROVE <<x>> \in Seq(Changes) /\ Len(<<x>>) <= 1 /\ Range(<<x>>) = {x}
  BY DEF Range
<1>2. <<>> \in Seq(Changes) /\ Len(<<>>) <= 1 /\ Range(<<>>) = {}
  BY DEF Range
<1>3. {"SetupStatic", "SetupDynamic", "TeardownDynamic", "TeardownStatic"} \subseteq Changes
  BY DEF Changes, Setups, Teardowns
<1>4. /\ a \in Seq(Changes) /\ Len(a) <= 1
      /\ Range(a) = IF old = "none" /\ new # "none" THEN {"SetupStatic"} ELSE {}
  BY <1>1, <1>2, <1>3
<1>5. /\ b \in Seq(Changes) /\ Len(b) <= 1
      /\ Range(b) = IF old # "full" /\ new = "full" THEN {"SetupDynamic"} ELSE {}
  BY <1>1, <1>2, <1>3
<1>6. /\ c \in Seq(Changes) /\ Len(c) <= 1
      /\ Range(c) = IF old = "full" /\ new # "full" THEN {"TeardownDynamic"} ELSE {}
  BY <1>1, <1>2, <1>3
<1>7. /\ d \in Seq(Changes) /\ Len(d) <= 1
      /\ Range(d) = IF old # "none" /\ new = "none" THEN {"TeardownStatic"} ELSE {}
  BY <1>1, <1>2, <1>3
<1>8. Update(old, new) = q
  <2>1. q = (IF old = "none" /\ new # "none" THEN <<"SetupStatic">> ELSE <<>>) \o
            (IF old # "full" /\ new = "full" THEN <<"SetupDynamic">> ELSE <<>>) \o
            (IF old = "full" /\ new # "full" THEN <<"TeardownDynamic">> ELSE <<>>) \o
            (IF old # "none" /\ new = "none" THEN <<"TeardownStatic">> ELSE <<>>)
    OBVIOUS
  <2> QED
    BY <2>1 DEF Update
<1> HIDE DEF a, b, c, d
<1>9. /\ ab \in Seq(Changes) /\ Range(ab) = Range(a) \cup Range(b)
      /\ \A K: Single(a, K) /\ Single(b, K) /\ (Range(a) \cap K = {} \/ Range(b) \cap K = {})
               => Single(ab, K)
  BY <1>4, <1>5, Joined
<1> HIDE DEF ab
<1>10. /\ abc \in Seq(Changes) /\ Range(abc) = Range(ab) \cup Range(c)
       /\ \A K: Single(ab, K) /\ Single(c, K) /\ (Range(ab) \cap K = {} \/ Range(c) \cap K = {})
                => Single(abc, K)
  BY <1>6, <1>9, Joined
<1> HIDE DEF abc
<1>11. /\ q \in Seq(Changes) /\ Range(q) = Range(abc) \cup Range(d)
       /\ \A K: Single(abc, K) /\ Single(d, K) /\ (Range(abc) \cap K = {} \/ Range(d) \cap K = {})
                => Single(q, K)
  BY <1>7, <1>10, Joined
<1> HIDE DEF q
<1>12. Range(q) = Moves(old, new)
  <2>1. Range(q) = Range(a) \cup Range(b) \cup Range(c) \cup Range(d)
    BY <1>9, <1>10, <1>11
  <2>2. \A x: x \in Range(q) <=> x \in Moves(old, new)
    BY <1>3, <1>4, <1>5, <1>6, <1>7, <2>1 DEF Moves
  <2> QED
    BY <2>2
<1>13. ASSUME NEW K, NEW x, K \subseteq {x} PROVE Single(q, K)
  <2>1. Single(a, K) /\ Single(b, K) /\ Single(c, K) /\ Single(d, K)
    BY <1>4, <1>5, <1>6, <1>7, AtMostOne
  <2>2. Single(ab, K)
    BY <1>4, <1>5, <1>9, <1>13, <2>1
  <2>3. Single(abc, K)
    BY <1>4, <1>5, <1>6, <1>9, <1>10, <1>13, <2>1, <2>2
  <2>4. Range(abc) \cap K = {} \/ Range(d) \cap K = {}
    BY <1>4, <1>5, <1>6, <1>7, <1>9, <1>10, <1>13
  <2> QED
    BY <1>11, <2>1, <2>3, <2>4
<1> QED
  BY <1>8, <1>11, <1>12, <1>13

\* The entries of a kind: they differ in their distance only.
Kind(u, r, c) == {e \in EntrySet : e.user = u /\ e.pos = r /\ e.change = c}

Centers == {None} \cup Region

\* What a level says about a center.
LEMMA Placement ==
  ASSUME NEW r \in Region, NEW c \in Centers
  PROVE /\ Level(r, c) \in Levels
        /\ c = None => Level(r, c) = "none"
        /\ c # None => Level(r, c) = LevelAt(Distance(r, c)) /\ Distance(r, c) \in Nat
        /\ c = r => Level(r, c) = "full"
<1>1. c # None => c \in Region
  BY DEF Centers
<1>2. Region \subseteq Int /\ None = -1
  BY DistanceAssumption DEF Region, None
<1>3. ASSUME c # None PROVE Distance(r, c) \in Nat /\ (c = r => Distance(r, c) = 0)
  <2>1. c \in Int /\ r \in Int
    BY <1>1, <1>2, <1>3
  <2>2. (r < c => c - r \in Nat) /\ (~(r < c) => r - c \in Nat) /\ r - r = 0 /\ ~(r < r)
    BY <2>1
  <2> QED
    BY <2>1, <2>2 DEF Distance
<1>4. None \notin Region
  BY <1>2 DEF Region
<1> QED
  BY <1>1, <1>3, <1>4, DistanceAssumption DEF Level, LevelAt, Levels

\* RegionManager::iterator visits each region that a center sees, once.
LEMMA Surroundings ==
  ASSUME NEW c \in Region
  PROVE /\ Around(c) \in Seq(Region)
        /\ Range(Around(c)) = {r \in Region : Level(r, c) # "none"}
        /\ \A i, j \in DOMAIN Around(c): Around(c)[i] = Around(c)[j] => i = j
<1> DEFINE from == IF c < StaticDistance THEN 0 ELSE c - StaticDistance
           to == IF c + StaticDistance < Size THEN c + StaticDistance ELSE Size - 1
           n == to - from + 1
           a == [i \in 1 .. n |-> from + i - 1]
<1>1. c \in Nat /\ c <= Size - 1 /\ StaticDistance \in Nat /\ Size \in Nat
  BY DistanceAssumption DEF Region
<1>2. from \in Nat /\ to \in Nat /\ from <= c /\ c <= to /\ to <= Size - 1 /\ n \in Nat
  BY <1>1
<1>3. Around(c) = a
  BY DEF Around
<1>4. \A r \in Region: from <= r /\ r <= to <=> Level(r, c) # "none"
  <2> SUFFICES ASSUME NEW r \in Region PROVE from <= r /\ r <= to <=> Level(r, c) # "none"
    OBVIOUS
  <2>1. r \in Nat /\ r <= Size - 1
    BY <1>1 DEF Region
  <2>2. Distance(r, c) <= StaticDistance <=> from <= r /\ r <= to
    BY <1>1, <2>1 DEF Distance
  <2>3. c # None
    BY <1>1 DEF None
  <2>4. Level(r, c) # "none" <=> Distance(r, c) <= StaticDistance
    BY <1>1, <2>1, <2>3, DistanceAssumption DEF Level, LevelAt, Distance
  <2> QED
    BY <2>2, <2>4
<1> HIDE DEF from, to
<1>5. a \in Seq(Region)
  <2>1. \A i \in 1 .. n: from + i - 1 \in Region
    BY <1>1, <1>2 DEF Region
  <2>2. a \in [1 .. n -> Region]
    BY <2>1
  <2> QED
    BY <1>2, <2>2
<1>6. \A i, j \in 1 .. n: a[i] = a[j] => i = j
  BY <1>1, <1>2
<1>7. ASSUME NEW r \in Region PROVE r \in Range(a) <=> Level(r, c) # "none"
  <2>1. r \in Nat
    BY <1>1 DEF Region
  <2>2. ASSUME from <= r, r <= to PROVE r \in Range(a)
    <3>1. r - from + 1 \in 1 .. n /\ from + (r - from + 1) - 1 = r
      BY <1>2, <2>1, <2>2
    <3>2. r - from + 1 \in DOMAIN a /\ a[r - from + 1] = r
      BY <3>1
    <3> HIDE DEF a
    <3> QED
      BY <3>2 DEF Range
  <2>3. ASSUME r \in Range(a) PROVE from <= r /\ r <= to
    <3>1. PICK i \in 1 .. n: r = from + i - 1
      BY <2>3 DEF Range
    <3> QED
      BY <1>2, <3>1
  <2> QED
    BY <1>4, <2>2, <2>3
<1>8. Range(a) \subseteq Region
  <2>1. \A i \in 1 .. n: from + i - 1 \in Region
    BY <1>1, <1>2 DEF Region
  <2> QED
    BY <2>1 DEF Range
<1>9. DOMAIN a = 1 .. n
  OBVIOUS
<1> HIDE DEF a
<1>10. Range(a) = {r \in Region : Level(r, c) # "none"}
  BY <1>7, <1>8
<1> QED
  BY <1>3, <1>5, <1>6, <1>9, <1>10

\* An entry is one.
LEMMA TypedEntry ==
  ASSUME NEW r \in Region, NEW about \in Region, NEW u \in Users, NEW c \in Changes
  PROVE LET e == Entry(r, about, u, c) IN
        e \in EntrySet /\ e.pos = r /\ e.user = u /\ e.change = c /\ e.distance = Distance(r, about)
<1>1. Distance(r, about) \in Nat
  BY DistanceAssumption DEF Region, Distance
<1> QED
  BY <1>1 DEF Entry, EntrySet

\* The entries for the moves between two centers, each once.
LEMMA BroughtEntries ==
  ASSUME NEW u \in Users, NEW rs \in Seq(Region), \A i, j \in DOMAIN rs: rs[i] = rs[j] => i = j,
         NEW skip, NEW from, NEW to, NEW about \in Region
  PROVE LET es == Entries(u, rs, skip, from, to, about) IN
        /\ es \in Seq(EntrySet)
        /\ \A e: e \in Range(es) <=>
             \E r \in Range(rs) \ skip: \E c \in Moves(Level(r, from), Level(r, to)): e = Entry(r, about, u, c)
        /\ \A v, r, c: Single(es, Kind(v, r, c))
<1> DEFINE ch(i) == IF rs[i] \in skip THEN <<>> ELSE Update(Level(rs[i], from), Level(rs[i], to))
           mv(i) == IF rs[i] \in skip THEN {} ELSE Moves(Level(rs[i], from), Level(rs[i], to))
           part(i) == [j \in DOMAIN ch(i) |-> Entry(rs[i], about, u, ch(i)[j])]
           ss == [i \in DOMAIN rs |-> part(i)]
<1>1. DOMAIN rs = 1 .. Len(rs) /\ Len(rs) \in Nat /\ \A i \in DOMAIN rs: rs[i] \in Region
  BY LenProperties
<1>2. Entries(u, rs, skip, from, to, about) = FlattenSeq(ss)
  BY DEF Entries
<1>3. ASSUME NEW i \in DOMAIN rs
      PROVE ch(i) \in Seq(Changes) /\ Range(ch(i)) = mv(i)
            /\ \A K: (\E c: K \subseteq {c}) => Single(ch(i), K)
  <2>1. CASE rs[i] \in skip
    <3>1. ch(i) = <<>> /\ mv(i) = {}
      BY <2>1
    <3>2. <<>> \in Seq(Changes) /\ Range(<<>>) = {} /\ \A K: Single(<<>>, K)
      BY EmptySeq DEF Range, Single
    <3> QED
      BY <3>1, <3>2
  <2>2. CASE rs[i] \notin skip
    <3> DEFINE old == Level(rs[i], from)
               new == Level(rs[i], to)
               up == Update(old, new)
    <3>1. ch(i) = up /\ mv(i) = Moves(old, new)
      BY <2>2
    <3> HIDE DEF old, new, ch, mv
    <3>2. up \in Seq(Changes) /\ Range(up) = Moves(old, new)
          /\ \A K: (\E c: K \subseteq {c}) => Single(up, K)
      BY Updates
    <3> HIDE DEF up
    <3> QED
      BY <3>1, <3>2
  <2> QED
    BY <2>1, <2>2
<1> HIDE DEF ch
<1>4. ASSUME NEW i \in DOMAIN rs
      PROVE /\ part(i) \in Seq(EntrySet)
            /\ \A e: e \in Range(part(i)) <=> \E c \in mv(i): e = Entry(rs[i], about, u, c)
            /\ \A v, r, c: Single(part(i), Kind(v, r, c))
            /\ \A e \in Range(part(i)): e.pos = rs[i]
  <2> DEFINE q == ch(i)
             p == part(i)
             x == rs[i]
  <2>1. q \in Seq(Changes) /\ Range(q) = mv(i) /\ \A K: (\E c: K \subseteq {c}) => Single(q, K)
    BY <1>3
  <2>2. DOMAIN q = 1 .. Len(q) /\ Len(q) \in Nat /\ \A j \in DOMAIN q: q[j] \in Changes
    BY <2>1, LenProperties
  <2>3. x \in Region
    BY <1>1
  <2>4. p = [j \in DOMAIN q |-> Entry(x, about, u, q[j])]
    OBVIOUS
  <2> HIDE DEF q, p, x, mv
  <2>5. \A j \in DOMAIN q: p[j] \in EntrySet /\ p[j].change = q[j] /\ p[j].pos = x
    BY <2>2, <2>3, <2>4, TypedEntry
  <2>6. p \in Seq(EntrySet)
    <3>1. p \in [1 .. Len(q) -> EntrySet]
      BY <2>2, <2>4, <2>5
    <3> QED
      BY <2>2, <3>1
  <2>7. DOMAIN p = DOMAIN q
    BY <2>4
  <2>8. \A e: e \in Range(p) <=> \E c \in mv(i): e = Entry(x, about, u, c)
    BY <2>1, <2>4, <2>7 DEF Range
  <2>9. ASSUME NEW v, NEW r, NEW c PROVE Single(p, Kind(v, r, c))
    <3>1. Single(q, {c})
      BY <2>1
    <3> QED
      BY <2>5, <2>7, <3>1 DEF Single, Kind
  <2>10. \A e \in Range(p): e.pos = x
    BY <2>5, <2>7 DEF Range
  <2> QED
    BY <2>6, <2>8, <2>9, <2>10 DEF p, x
<1> HIDE DEF part, mv
<1>5. ss \in Seq(Seq(EntrySet)) /\ DOMAIN ss = DOMAIN rs /\ \A i \in DOMAIN rs: ss[i] = part(i)
  <2>1. ss \in [1 .. Len(rs) -> Seq(EntrySet)]
    BY <1>1, <1>4
  <2> QED
    BY <1>1, <2>1
<1> HIDE DEF ss
<1> DEFINE es == FlattenSeq(ss)
<1>6. /\ es \in Seq(EntrySet) /\ \A e: e \in Range(es) <=> \E i \in DOMAIN ss: e \in Range(ss[i])
      /\ \A K: /\ \A i \in DOMAIN ss: Single(ss[i], K)
               /\ \A i, j \in DOMAIN ss: i # j => Range(ss[i]) \cap K = {} \/ Range(ss[j]) \cap K = {}
               => Single(es, K)
  BY <1>5, Flattened
<1> HIDE DEF es
<1>7. \A e: e \in Range(es) <=>
        \E r \in Range(rs) \ skip: \E c \in Moves(Level(r, from), Level(r, to)): e = Entry(r, about, u, c)
  <2>1. ASSUME NEW e \in Range(es)
        PROVE \E r \in Range(rs) \ skip: \E c \in Moves(Level(r, from), Level(r, to)): e = Entry(r, about, u, c)
    <3>1. PICK i \in DOMAIN rs: \E c \in mv(i): e = Entry(rs[i], about, u, c)
      BY <1>4, <1>5, <1>6
    <3>2. rs[i] \in Range(rs) \ skip /\ mv(i) = Moves(Level(rs[i], from), Level(rs[i], to))
      BY <3>1 DEF mv, Range
    <3> QED
      BY <3>1, <3>2
  <2>2. ASSUME NEW r \in Range(rs) \ skip, NEW c \in Moves(Level(r, from), Level(r, to))
        PROVE Entry(r, about, u, c) \in Range(es)
    <3>1. PICK i \in DOMAIN rs: r = rs[i]
      BY DEF Range
    <3>2. c \in mv(i)
      BY <3>1 DEF mv
    <3> QED
      BY <1>4, <1>5, <1>6, <3>1, <3>2
  <2> QED
    BY <2>1, <2>2
<1>8. ASSUME NEW v, NEW r, NEW c PROVE Single(es, Kind(v, r, c))
  <2> DEFINE K == Kind(v, r, c)
  <2>1. \A i \in DOMAIN ss: Single(ss[i], K)
    BY <1>4, <1>5
  <2>2. ASSUME NEW i \in DOMAIN ss, NEW j \in DOMAIN ss, i # j
        PROVE Range(ss[i]) \cap K = {} \/ Range(ss[j]) \cap K = {}
    <3>1. \A e \in Range(ss[i]): e.pos = rs[i]
      BY <1>4, <1>5
    <3>2. \A e \in Range(ss[j]): e.pos = rs[j]
      BY <1>4, <1>5
    <3>3. rs[i] # rs[j]
      BY <1>5, <2>2
    <3> QED
      BY <3>1, <3>2, <3>3 DEF Kind
  <2> HIDE DEF K
  <2> QED
    BY <1>6, <2>1, <2>2 DEF K
<1> QED
  BY <1>2, <1>6, <1>7, <1>8 DEF es

-----------------------------------------------------------------------------
(* The invariant. *)

Has(q, u, r, c) == \E e \in Range(q): e.user = u /\ e.pos = r /\ e.change = c

PlayerOf(u) == {e \in EntrySet : e.user = u /\ e.change = "SetupPlayer"}

\* Weights that the order of entries agrees with: a SetupStatic before all
\* else, and the ranks where no SetupDynamic is.
First == [e \in EntrySet |-> IF e.change = "SetupStatic" THEN 1 ELSE 0]

RankOf == [e \in EntrySet |-> Rank(e.change)]

IsRegion(x) ==
  /\ x \in [level: {x.level}, full: Nat]
  /\ x.level = [v \in DOMAIN x.level |-> x.level[v]]
  /\ DOMAIN x.level \subseteq Users /\ IsFiniteSet(DOMAIN x.level)
  /\ \A v \in DOMAIN x.level: x.level[v] \in {"static", "full"}

Types ==
  /\ center \in [Users -> Centers]
  /\ DOMAIN pc \subseteq Users /\ \A u \in DOMAIN pc: pc[u] \in [at: Cell, target: Cell]
  /\ place \in [Users -> Cell]
  /\ queue \in Seq(EntrySet)
  /\ DOMAIN regions \subseteq Region /\ \A r \in DOMAIN regions: IsRegion(regions[r])
  /\ npcs \subseteq Region
  /\ ticking \in {"no", "first", "more"}
  /\ panicked \in {"no", "remove", "apply", "update_pcs"}
  /\ requests \in 0 .. MaxRequests
  /\ crossed \subseteq Users \X Region

Apart(u, r) == <<u, r>> \notin crossed

\* What LeadsToCenter says, a change at a time.
Leading ==
  \A u \in Users, r \in Region: Apart(u, r) =>
    \A c \in Changes \ {"SetupPlayer"}:
      Has(queue, u, r, c) <=> c \in Moves(LevelOf(u, r), Level(r, center[u]))

\* No change is queued twice.
Once ==
  /\ \A u \in Users, r \in Region: Apart(u, r) => \A c: Single(queue, Kind(u, r, c))
  /\ \A u \in Users: Single(queue, PlayerOf(u))

\* A user whose player is to come is in game and has no character; the region
\* is one it sees, or its changes crossed.
Arriving ==
  /\ \A u \in DOMAIN pc: center[u] # None
  /\ \A u \in Users, r \in Region: Has(queue, u, r, "SetupPlayer") =>
       /\ center[u] # None /\ u \notin DOMAIN pc
       /\ Apart(u, r) => Level(r, center[u]) # "none"

Counts(r) ==
  LET full == {u \in Users : LevelOf(u, r) = "full"} IN
  /\ r \in DOMAIN regions <=> \E u \in Users : LevelOf(u, r) # "none"
  /\ r \in DOMAIN regions => regions[r].full = Cardinality(full)
  /\ r \in npcs <=> full # {}

Counting == \A r \in Region: (\A u \in Users: Apart(u, r)) => Counts(r)

Consistent ==
  /\ Ordered(queue, First) /\ Crossing(queue) \subseteq crossed
  /\ Leading /\ Once /\ Arriving /\ Counting

RegionsInv == Types /\ AppliedWhereFound /\ (panicked = "no" => Consistent)

\* The order of entries agrees with First, always ...
LEMMA FirstFits == Fits(EntrySet, First)
<1> SUFFICES ASSUME NEW e \in EntrySet, NEW f \in EntrySet
             PROVE /\ First[e] \in Nat
                   /\ Le(e, f) => First[e] <= First[f]
                   /\ ~Le(e, f) => First[f] <= First[e]
  BY DEF Fits
<1> DEFINE d == e.change
           g == f.change
<1>1. d \in Changes /\ g \in Changes
  BY DEF EntrySet
<1>2. Changes = {"SetupStatic", "SetupDynamic", "SetupPlayer", "TeardownDynamic", "TeardownStatic"}
  BY DEF Changes, Setups, Teardowns
<1>3. /\ First[e] = IF d = "SetupStatic" THEN 1 ELSE 0
      /\ First[f] = IF g = "SetupStatic" THEN 1 ELSE 0
  BY DEF First
<1>4. Le(e, f) <=> IF d = g THEN KeyLe(Key(e), Key(f))
                   ELSE Rank(d) < Rank(g) \/ (d = "SetupDynamic" /\ g = "TeardownStatic")
  BY DEF Le
<1> HIDE DEF d, g
<1>5. CASE d = g
  BY <1>3, <1>5
<1>6. CASE d # g /\ d # "SetupStatic" /\ g # "SetupStatic"
  BY <1>3, <1>6
<1>7. CASE d # g /\ d = "SetupStatic"
  <2>1. ~(Rank(d) < Rank(g))
    BY <1>1, <1>2, <1>7 DEF Rank
  <2> QED
    BY <1>3, <1>4, <1>7, <2>1
<1>8. CASE d # g /\ g = "SetupStatic"
  <2>1. Rank(d) < Rank(g)
    BY <1>1, <1>2, <1>8 DEF Rank
  <2> QED
    BY <1>3, <1>4, <1>8, <2>1
<1> QED
  BY <1>5, <1>6, <1>7, <1>8

\* ... and with the ranks where there is no SetupDynamic.
LEMMA RankFits == Fits({e \in EntrySet : e.change # "SetupDynamic"}, RankOf)
<1> DEFINE S == {e \in EntrySet : e.change # "SetupDynamic"}
<1> SUFFICES ASSUME NEW e \in S, NEW f \in S
             PROVE /\ RankOf[e] \in Nat
                   /\ Le(e, f) => RankOf[e] <= RankOf[f]
                   /\ ~Le(e, f) => RankOf[f] <= RankOf[e]
  BY DEF Fits
<1> DEFINE d == e.change
           g == f.change
<1>1. d \in Changes /\ g \in Changes /\ d # "SetupDynamic"
  BY DEF EntrySet
<1>2. Changes = {"SetupStatic", "SetupDynamic", "SetupPlayer", "TeardownDynamic", "TeardownStatic"}
  BY DEF Changes, Setups, Teardowns
<1>3. RankOf[e] = Rank(d) /\ RankOf[f] = Rank(g)
  BY DEF RankOf
<1>4. Le(e, f) <=> IF d = g THEN KeyLe(Key(e), Key(f))
                   ELSE Rank(d) < Rank(g) \/ (d = "SetupDynamic" /\ g = "TeardownStatic")
  BY DEF Le
<1>5. Rank(d) \in Nat /\ Rank(g) \in Nat
  <2> HIDE DEF d, g
  <2> QED
    BY <1>1, <1>2 DEF Rank
<1> HIDE DEF d, g
<1> QED
  BY <1>1, <1>3, <1>4, <1>5

\* What a pair that did not cross has in the queue at once.
LEMMA Meetings ==
  ASSUME NEW q, NEW cr, Crossing(q) \subseteq cr,
         NEW u, NEW r, <<u, r>> \notin cr
  PROVE /\ Has(q, u, r, "SetupStatic") \/ Has(q, u, r, "SetupDynamic")
           => ~Has(q, u, r, "TeardownDynamic") /\ ~Has(q, u, r, "TeardownStatic")
        /\ Has(q, u, r, "SetupPlayer") => ~Has(q, u, r, "TeardownStatic")
        /\ Has(q, u, r, "TeardownDynamic") /\ Has(q, u, r, "TeardownStatic")
           => Ranked(q) /\ \A e \in Range(q): e.change # "SetupDynamic"
<1>1. \A c: <<u, r>> \in Queued(q, c) <=> Has(q, u, r, c)
  BY DEF Queued, Has
<1>2. <<u, r>> \notin Crossing(q)
  OBVIOUS
<1>3. Queued(q, "SetupDynamic") = {} => \A e \in Range(q): e.change # "SetupDynamic"
  BY DEF Queued
<1> QED
  BY <1>1, <1>2, <1>3 DEF Crossing

\* A change of level in two steps.
LEMMA Composed ==
  ASSUME NEW a \in Levels, NEW b \in Levels, NEW c \in Levels,
         LET m == Moves(a, b) \cup Moves(b, c) IN
         "SetupStatic" \in m \/ "SetupDynamic" \in m => "TeardownDynamic" \notin m /\ "TeardownStatic" \notin m
  PROVE Moves(a, c) = Moves(a, b) \cup Moves(b, c) /\ Moves(a, b) \cap Moves(b, c) = {}
<1>1. Changes = {"SetupStatic", "SetupDynamic", "SetupPlayer", "TeardownDynamic", "TeardownStatic"}
  BY DEF Changes, Setups, Teardowns
<1>2. \A x, y: /\ "SetupStatic" \in Moves(x, y) <=> x = "none" /\ y # "none"
               /\ "SetupDynamic" \in Moves(x, y) <=> x # "full" /\ y = "full"
               /\ "TeardownDynamic" \in Moves(x, y) <=> x = "full" /\ y # "full"
               /\ "TeardownStatic" \in Moves(x, y) <=> x # "none" /\ y = "none"
               /\ "SetupPlayer" \notin Moves(x, y)
               /\ Moves(x, y) \subseteq Changes
  BY <1>1 DEF Moves
<1>3. /\ "SetupStatic" \in Moves(a, c) <=> "SetupStatic" \in Moves(a, b) \/ "SetupStatic" \in Moves(b, c)
      /\ "SetupDynamic" \in Moves(a, c) <=> "SetupDynamic" \in Moves(a, b) \/ "SetupDynamic" \in Moves(b, c)
      /\ "TeardownDynamic" \in Moves(a, c) <=> "TeardownDynamic" \in Moves(a, b) \/ "TeardownDynamic" \in Moves(b, c)
      /\ "TeardownStatic" \in Moves(a, c) <=> "TeardownStatic" \in Moves(a, b) \/ "TeardownStatic" \in Moves(b, c)
  BY <1>2 DEF Levels
<1>4. /\ ~("SetupStatic" \in Moves(a, b) /\ "SetupStatic" \in Moves(b, c))
      /\ ~("SetupDynamic" \in Moves(a, b) /\ "SetupDynamic" \in Moves(b, c))
      /\ ~("TeardownDynamic" \in Moves(a, b) /\ "TeardownDynamic" \in Moves(b, c))
      /\ ~("TeardownStatic" \in Moves(a, b) /\ "TeardownStatic" \in Moves(b, c))
  BY <1>2
<1>5. \A x: x \in Moves(a, c) <=> x \in Moves(a, b) \/ x \in Moves(b, c)
  BY <1>1, <1>2, <1>3
<1>6. \A x: ~(x \in Moves(a, b) /\ x \in Moves(b, c))
  BY <1>1, <1>2, <1>4
<1> QED
  BY <1>5, <1>6

-----------------------------------------------------------------------------
(* Requests. *)

\* The entries es lead user u from one center to another.
Brings(es, u, from, to) ==
  /\ es \in Seq(EntrySet) /\ \A e \in Range(es): e.user = u
  /\ \A r \in Region, c \in Changes \ {"SetupPlayer"}:
       Has(es, u, r, c) <=> c \in Moves(Level(r, from), Level(r, to))
  /\ \A r, c: Single(es, Kind(u, r, c))

\* A level is one.
LEMMA LevelType ==
  ASSUME Types, NEW u, NEW r PROVE LevelOf(u, r) \in Levels
BY DEF Types, IsRegion, LevelOf, Levels

\* Whether the pairs of a kind are single when es come to q.
LEMMA Enqueued ==
  ASSUME Types, Consistent, NEW u \in Users, NEW to \in Centers, NEW es,
         Brings(es, u, center[u], to), Single(es, PlayerOf(u)),
         Range(es) \cap PlayerOf(u) = {} \/ center[u] = None,
         Enqueue(es), center' = [center EXCEPT ![u] = to], regions' = regions, npcs' = npcs
  PROVE /\ queue' \in Seq(EntrySet) /\ Range(queue') = Range(queue) \cup Range(es)
        /\ crossed' \subseteq Users \X Region /\ crossed \subseteq crossed'
        /\ Ordered(queue', First) /\ Crossing(queue') \subseteq crossed'
        /\ Leading' /\ Once' /\ Counting'
<1>1. queue \in Seq(EntrySet) /\ es \in Seq(EntrySet) /\ queue' = PushAll(queue, es)
      /\ crossed' = crossed \cup Crossing(queue')
  BY DEF Types, Brings, Enqueue
<1>2. /\ queue' \in Seq(EntrySet) /\ Range(queue') = Range(queue) \cup Range(es)
      /\ \A K: Single(queue, K) /\ Single(es, K) /\ (Range(queue) \cap K = {} \/ Range(es) \cap K = {})
               => Single(queue', K)
      /\ \A w: Fits(EntrySet, w) /\ Ordered(queue, w) => Ordered(queue', w)
  BY <1>1, PushingAll
<1>3. Ordered(queue', First)
  BY <1>2, FirstFits DEF Consistent
<1>4. Range(queue') \subseteq EntrySet
  <2>1. DOMAIN queue' = 1 .. Len(queue') /\ \A i \in DOMAIN queue': queue'[i] \in EntrySet
    BY <1>2, LenProperties
  <2> QED
    BY <2>1 DEF Range
<1>5. crossed' \subseteq Users \X Region /\ crossed \subseteq crossed' /\ Crossing(queue') \subseteq crossed'
  <2>1. \A c: Queued(queue', c) \subseteq Users \X Region
    BY <1>4 DEF Queued, EntrySet
  <2>2. Crossing(queue') \subseteq Users \X Region
    BY <2>1 DEF Crossing
  <2> QED
    BY <1>1, <2>2 DEF Types
<1>6. \A v, r, c: Has(queue', v, r, c) <=> Has(queue, v, r, c) \/ Has(es, v, r, c)
  BY <1>2 DEF Has
<1>7. \A v, r, c: Has(es, v, r, c) => v = u
  BY DEF Has, Brings
<1>8. \A v, r: LevelOf(v, r)' = LevelOf(v, r)
  BY DEF LevelOf
<1>9. \A v \in Users: center'[v] = IF v = u THEN to ELSE center[v]
  BY DEF Types
<1>10. ASSUME NEW r \in Region, <<u, r>> \notin crossed'
       PROVE LET a == LevelOf(u, r)
                 b == Level(r, center[u])
                 d == Level(r, to)
             IN /\ Moves(a, d) = Moves(a, b) \cup Moves(b, d) /\ Moves(a, b) \cap Moves(b, d) = {}
                /\ \A c \in Changes \ {"SetupPlayer"}:
                     /\ Has(queue, u, r, c) <=> c \in Moves(a, b)
                     /\ Has(es, u, r, c) <=> c \in Moves(b, d)
  <2> DEFINE a == LevelOf(u, r)
             b == Level(r, center[u])
             d == Level(r, to)
             m == Moves(a, b) \cup Moves(b, d)
  <2>1. a \in Levels /\ b \in Levels /\ d \in Levels
    BY LevelType, Placement DEF Types
  <2>2. \A c \in Changes \ {"SetupPlayer"}: Has(queue, u, r, c) <=> c \in Moves(a, b)
    BY <1>5, <1>10 DEF Consistent, Leading, Apart
  <2>3. \A c \in Changes \ {"SetupPlayer"}: Has(es, u, r, c) <=> c \in Moves(b, d)
    BY DEF Brings
  <2>4. /\ Has(queue', u, r, "SetupStatic") \/ Has(queue', u, r, "SetupDynamic")
           => ~Has(queue', u, r, "TeardownDynamic") /\ ~Has(queue', u, r, "TeardownStatic")
    BY <1>5, <1>10, Meetings
  <2> HIDE DEF a, b, d
  <2>5. \A c \in {"SetupStatic", "SetupDynamic", "TeardownDynamic", "TeardownStatic"}:
          Has(queue', u, r, c) <=> c \in m
    <3>1. {"SetupStatic", "SetupDynamic", "TeardownDynamic", "TeardownStatic"} \subseteq Changes \ {"SetupPlayer"}
      BY DEF Changes, Setups, Teardowns
    <3> QED
      BY <1>6, <2>2, <2>3, <3>1
  <2>6. "SetupStatic" \in m \/ "SetupDynamic" \in m => "TeardownDynamic" \notin m /\ "TeardownStatic" \notin m
    BY <2>4, <2>5
  <2>7. Moves(a, d) = m /\ Moves(a, b) \cap Moves(b, d) = {}
    BY <2>1, <2>6, Composed
  <2> QED
    BY <2>2, <2>3, <2>7 DEF a, b, d
<1>11. Leading'
  <2> SUFFICES ASSUME NEW v \in Users, NEW r \in Region, <<v, r>> \notin crossed',
                      NEW c \in Changes \ {"SetupPlayer"}
               PROVE Has(queue', v, r, c) <=> c \in Moves(LevelOf(v, r), Level(r, center'[v]))
    BY <1>8 DEF Leading, Apart
  <2>1. CASE v = u
    BY <1>6, <1>9, <1>10, <2>1
  <2>2. CASE v # u
    <3>1. Has(queue', v, r, c) <=> Has(queue, v, r, c)
      BY <1>6, <1>7, <2>2
    <3> QED
      BY <1>5, <1>9, <2>2, <3>1 DEF Consistent, Leading, Apart
  <2> QED
    BY <2>1, <2>2
<1>12. Once'
  <2>1. ASSUME NEW v \in Users, NEW r \in Region, <<v, r>> \notin crossed', NEW c
        PROVE Single(queue', Kind(v, r, c))
    <3> DEFINE K == Kind(v, r, c)
    <3>1. Single(queue, K)
      BY <1>5, <2>1 DEF Consistent, Once, Apart
    <3>2. CASE v # u
      <4>1. Range(es) \cap K = {}
        BY <3>2 DEF Brings, Kind
      <4>2. Single(es, K)
        BY <4>1 DEF Single, Range
      <4> HIDE DEF K
      <4> QED
        BY <1>2, <3>1, <4>1, <4>2 DEF K
    <3>3. CASE v = u
      <4>1. Single(es, K)
        BY <3>3 DEF Brings
      <4>2. Range(queue) \cap K = {} \/ Range(es) \cap K = {}
        <5> SUFFICES ASSUME NEW e \in Range(queue), e \in K, NEW f \in Range(es), f \in K PROVE FALSE
          OBVIOUS
        <5>1. Has(queue, u, r, c) /\ Has(es, u, r, c) /\ c \in Changes
          BY <3>3 DEF Has, Kind, EntrySet
        <5>2. CASE c = "SetupPlayer"
          <6>1. f \in Range(es) \cap PlayerOf(u)
            BY <3>3, <5>2 DEF Kind, PlayerOf
          <6>2. center[u] # None
            BY <5>1, <5>2 DEF Consistent, Arriving
          <6> QED
            BY <6>1, <6>2
        <5>3. CASE c # "SetupPlayer"
          BY <1>10, <2>1, <3>3, <5>1, <5>3
        <5> QED
          BY <5>2, <5>3
      <4> HIDE DEF K
      <4> QED
        BY <1>2, <3>1, <4>1, <4>2 DEF K
    <3> QED
      BY <3>2, <3>3
  <2>2. ASSUME NEW v \in Users PROVE Single(queue', PlayerOf(v))
    <3> DEFINE K == PlayerOf(v)
    <3>1. Single(queue, K)
      BY DEF Consistent, Once
    <3>2. CASE v # u
      <4>1. Range(es) \cap K = {}
        BY <3>2 DEF Brings, PlayerOf
      <4>2. Single(es, K)
        BY <4>1 DEF Single, Range
      <4> HIDE DEF K
      <4> QED
        BY <1>2, <3>1, <4>1, <4>2 DEF K
    <3>3. CASE v = u
      <4>1. Range(queue) \cap K = {} \/ Range(es) \cap K = {}
        <5> SUFFICES ASSUME center[u] = None, NEW e \in Range(queue), e \in K PROVE FALSE
          BY <3>3
        <5>1. Has(queue, u, e.pos, "SetupPlayer") /\ e.pos \in Region
          BY <3>3 DEF Has, PlayerOf, EntrySet
        <5> QED
          BY <5>1 DEF Consistent, Arriving
      <4> HIDE DEF K
      <4> QED
        BY <1>2, <3>1, <3>3, <4>1 DEF K
    <3> QED
      BY <3>2, <3>3
  <2> QED
    BY <2>1, <2>2 DEF Once, Apart
<1>13. Counting'
  <2> SUFFICES ASSUME NEW r \in Region, \A v \in Users: <<v, r>> \notin crossed' PROVE Counts(r)'
    BY DEF Counting, Apart
  <2>1. Counts(r)
    BY <1>5 DEF Consistent, Counting, Apart
  <2> QED
    BY <1>8, <2>1 DEF Counts
<1> QED
  BY <1>2, <1>3, <1>5, <1>11, <1>12, <1>13

\* The entries of RegionManager::update for the regions around a center.
LEMMA SomeBrought ==
  ASSUME NEW u \in Users, NEW rs \in Seq(Region), \A i, j \in DOMAIN rs: rs[i] = rs[j] => i = j,
         NEW skip, NEW from, NEW to, NEW about \in Region
  PROVE LET es == Entries(u, rs, skip, from, to, about) IN
        /\ es \in Seq(EntrySet)
        /\ \A e \in Range(es): e.user = u /\ e.change # "SetupPlayer"
        /\ \A r \in Region: \A c: Has(es, u, r, c)
             <=> r \in Range(rs) \ skip /\ c \in Moves(Level(r, from), Level(r, to))
        /\ \A v, r, c: Single(es, Kind(v, r, c))
<1> DEFINE es == Entries(u, rs, skip, from, to, about)
<1>1. /\ es \in Seq(EntrySet)
      /\ \A e: e \in Range(es) <=>
           \E r \in Range(rs) \ skip: \E c \in Moves(Level(r, from), Level(r, to)): e = Entry(r, about, u, c)
      /\ \A v, r, c: Single(es, Kind(v, r, c))
  BY BroughtEntries
<1>2. Range(rs) \subseteq Region
  BY LenProperties DEF Range
<1>3. \A x, y: Moves(x, y) \subseteq Changes /\ "SetupPlayer" \notin Moves(x, y)
  BY DEF Moves
<1> HIDE DEF es
<1>4. \A e \in Range(es): e.user = u /\ e.change # "SetupPlayer"
  <2> SUFFICES ASSUME NEW e \in Range(es) PROVE e.user = u /\ e.change # "SetupPlayer"
    OBVIOUS
  <2>1. PICK r \in Range(rs) \ skip: \E c \in Moves(Level(r, from), Level(r, to)): e = Entry(r, about, u, c)
    BY <1>1
  <2>2. PICK c \in Moves(Level(r, from), Level(r, to)): e = Entry(r, about, u, c)
    BY <2>1
  <2>3. e.user = u /\ e.change = c
    BY <1>2, <1>3, <2>2, TypedEntry
  <2> QED
    BY <1>3, <2>3
<1>5. ASSUME NEW r \in Region, NEW c
      PROVE Has(es, u, r, c) <=> r \in Range(rs) \ skip /\ c \in Moves(Level(r, from), Level(r, to))
  <2>1. ASSUME Has(es, u, r, c)
        PROVE r \in Range(rs) \ skip /\ c \in Moves(Level(r, from), Level(r, to))
    <3>1. PICK e \in Range(es): e.pos = r /\ e.change = c
      BY <2>1 DEF Has
    <3>2. PICK s \in Range(rs) \ skip: \E d \in Moves(Level(s, from), Level(s, to)): e = Entry(s, about, u, d)
      BY <1>1
    <3>3. PICK d \in Moves(Level(s, from), Level(s, to)): e = Entry(s, about, u, d)
      BY <3>2
    <3>4. e.pos = s /\ e.change = d
      BY <1>2, <1>3, <3>3, TypedEntry
    <3> QED
      BY <3>1, <3>4
  <2>2. ASSUME r \in Range(rs) \ skip, c \in Moves(Level(r, from), Level(r, to))
        PROVE Has(es, u, r, c)
    <3> DEFINE e == Entry(r, about, u, c)
    <3>1. e \in Range(es)
      BY <1>1, <2>2
    <3>2. e.pos = r /\ e.user = u /\ e.change = c
      BY <1>3, <2>2, TypedEntry
    <3> QED
      BY <3>1, <3>2 DEF Has
  <2> QED
    BY <2>1, <2>2
<1> QED
  BY <1>1, <1>4, <1>5 DEF es

\* A cell is in a region.
LEMMA Places ==
  ASSUME NEW cell \in Cell PROVE RegionOf(cell) \in Region
BY DistanceAssumption DEF Cell, Region, RegionOf

\* No region is none.
LEMMA Nowhere == None \notin Region /\ Region \subseteq Nat
BY DistanceAssumption DEF None, Region

\* A region that neither center sees brings nothing.
LEMMA Still ==
  ASSUME NEW r \in Region, NEW c \in Centers, NEW d \in Centers,
         Level(r, c) = "none", Level(r, d) = "none"
  PROVE Moves(Level(r, c), Level(r, d)) = {}
BY DEF Moves

\* What GlobalObserver::new, remove and update put into the queue.
LEMMA EnterBrings ==
  ASSUME NEW u \in Users, NEW c \in Region
  PROVE LET es == Append(Entries(u, Around(c), {}, None, c, c), Entry(c, c, u, "SetupPlayer")) IN
        /\ Brings(es, u, None, c) /\ Single(es, PlayerOf(u))
        /\ \A r \in Region: Has(es, u, r, "SetupPlayer") <=> r = c
<1> DEFINE s == Entries(u, Around(c), {}, None, c, c)
           e == Entry(c, c, u, "SetupPlayer")
           es == s \o <<e>>
<1>1. "SetupPlayer" \in Changes
  BY DEF Changes, Setups
<1>2. e \in EntrySet /\ e.pos = c /\ e.user = u /\ e.change = "SetupPlayer"
  BY <1>1, TypedEntry
<1>3. /\ Around(c) \in Seq(Region) /\ Range(Around(c)) = {r \in Region : Level(r, c) # "none"}
      /\ \A i, j \in DOMAIN Around(c): Around(c)[i] = Around(c)[j] => i = j
  BY Surroundings
<1>4. /\ s \in Seq(EntrySet)
      /\ \A x \in Range(s): x.user = u /\ x.change # "SetupPlayer"
      /\ \A r \in Region: \A d: Has(s, u, r, d)
           <=> r \in Range(Around(c)) \ {} /\ d \in Moves(Level(r, None), Level(r, c))
      /\ \A v, r, d: Single(s, Kind(v, r, d))
  BY <1>3, SomeBrought
<1>5. Append(s, e) = es
  BY <1>2, <1>4, AppendIsConcat
<1> HIDE DEF s, e
<1>6. <<e>> \in Seq(EntrySet) /\ Range(<<e>>) = {e} /\ \A K: Single(<<e>>, K)
  BY <1>2 DEF Range, Single
<1>7. /\ es \in Seq(EntrySet) /\ Range(es) = Range(s) \cup {e}
      /\ \A K: Single(s, K) /\ (Range(s) \cap K = {} \/ {e} \cap K = {}) => Single(es, K)
  BY <1>4, <1>6, Joined
<1> HIDE DEF es
<1>8. ASSUME NEW r, NEW d PROVE Single(es, Kind(u, r, d))
  <2> DEFINE K == Kind(u, r, d)
  <2>1. Range(s) \cap K = {} \/ {e} \cap K = {}
    BY <1>2, <1>4 DEF Kind
  <2>2. Single(s, K)
    BY <1>4
  <2> HIDE DEF K
  <2> QED
    BY <1>7, <2>1, <2>2 DEF K
<1>9. Single(es, PlayerOf(u))
  <2> DEFINE K == PlayerOf(u)
  <2>1. Range(s) \cap K = {}
    BY <1>4 DEF PlayerOf
  <2>2. Single(s, K)
    BY <2>1 DEF Single, Range
  <2> HIDE DEF K
  <2> QED
    BY <1>7, <2>1, <2>2 DEF K
<1>10. ASSUME NEW r \in Region, NEW d \in Changes \ {"SetupPlayer"}
       PROVE Has(es, u, r, d) <=> d \in Moves(Level(r, None), Level(r, c))
  <2>1. Has(es, u, r, d) <=> Has(s, u, r, d)
    BY <1>2, <1>7 DEF Has
  <2>2. r \notin Range(Around(c)) => Moves(Level(r, None), Level(r, c)) = {}
    <3>1. Level(r, None) = "none" /\ None \in Centers /\ c \in Centers
      BY Placement DEF Centers
    <3> QED
      BY <1>3, <3>1, Still
  <2> QED
    BY <1>4, <2>1, <2>2
<1>11. ASSUME NEW r \in Region PROVE Has(es, u, r, "SetupPlayer") <=> r = c
  BY <1>2, <1>4, <1>7 DEF Has
<1>12. \A x \in Range(es): x.user = u
  BY <1>2, <1>4, <1>7
<1>13. Brings(es, u, None, c)
  BY <1>7, <1>8, <1>10, <1>12 DEF Brings
<1> QED
  BY <1>5, <1>9, <1>11, <1>13 DEF s, e

LEMMA LeaveBrings ==
  ASSUME NEW u \in Users, NEW c \in Region
  PROVE LET es == Entries(u, Around(c), {}, c, None, c) IN
        Brings(es, u, c, None) /\ Single(es, PlayerOf(u)) /\ Range(es) \cap PlayerOf(u) = {}
<1> DEFINE es == Entries(u, Around(c), {}, c, None, c)
<1>1. /\ Around(c) \in Seq(Region) /\ Range(Around(c)) = {r \in Region : Level(r, c) # "none"}
      /\ \A i, j \in DOMAIN Around(c): Around(c)[i] = Around(c)[j] => i = j
  BY Surroundings
<1>2. /\ es \in Seq(EntrySet)
      /\ \A x \in Range(es): x.user = u /\ x.change # "SetupPlayer"
      /\ \A r \in Region: \A d: Has(es, u, r, d)
           <=> r \in Range(Around(c)) \ {} /\ d \in Moves(Level(r, c), Level(r, None))
      /\ \A v, r, d: Single(es, Kind(v, r, d))
  BY <1>1, SomeBrought
<1> HIDE DEF es
<1>3. Range(es) \cap PlayerOf(u) = {}
  BY <1>2 DEF PlayerOf
<1>4. Single(es, PlayerOf(u))
  BY <1>3 DEF Single, Range
<1>5. ASSUME NEW r \in Region, NEW d \in Changes \ {"SetupPlayer"}
      PROVE Has(es, u, r, d) <=> d \in Moves(Level(r, c), Level(r, None))
  <2>1. r \notin Range(Around(c)) => Moves(Level(r, c), Level(r, None)) = {}
    <3>1. Level(r, None) = "none" /\ None \in Centers /\ c \in Centers
      BY Placement DEF Centers
    <3> QED
      BY <1>1, <3>1, Still
  <2> QED
    BY <1>2, <2>1
<1>6. Brings(es, u, c, None)
  BY <1>2, <1>5 DEF Brings
<1> QED
  BY <1>3, <1>4, <1>6 DEF es

LEMMA MoveBrings ==
  ASSUME NEW u \in Users, NEW old \in Region, NEW new \in Region
  PROVE LET es == Entries(u, Around(new), {}, old, new, new) \o
                  Entries(u, Around(old), {r \in Region : Level(r, new) # "none"}, old, new, old)
        IN Brings(es, u, old, new) /\ Single(es, PlayerOf(u)) /\ Range(es) \cap PlayerOf(u) = {}
<1> DEFINE skip == {r \in Region : Level(r, new) # "none"}
           s == Entries(u, Around(new), {}, old, new, new)
           t == Entries(u, Around(old), skip, old, new, old)
           es == s \o t
<1>1. \A c \in Region:
      /\ Around(c) \in Seq(Region) /\ Range(Around(c)) = {r \in Region : Level(r, c) # "none"}
      /\ \A i, j \in DOMAIN Around(c): Around(c)[i] = Around(c)[j] => i = j
  BY Surroundings
<1>2. /\ s \in Seq(EntrySet)
      /\ \A x \in Range(s): x.user = u /\ x.change # "SetupPlayer"
      /\ \A r \in Region: \A d: Has(s, u, r, d)
           <=> r \in Range(Around(new)) \ {} /\ d \in Moves(Level(r, old), Level(r, new))
      /\ \A v, r, d: Single(s, Kind(v, r, d))
  BY <1>1, SomeBrought
<1>3. /\ t \in Seq(EntrySet)
      /\ \A x \in Range(t): x.user = u /\ x.change # "SetupPlayer"
      /\ \A r \in Region: \A d: Has(t, u, r, d)
           <=> r \in Range(Around(old)) \ skip /\ d \in Moves(Level(r, old), Level(r, new))
      /\ \A v, r, d: Single(t, Kind(v, r, d))
  <2> HIDE DEF skip
  <2> QED
    BY <1>1, SomeBrought
<1> HIDE DEF s, t
<1>4. /\ es \in Seq(EntrySet) /\ Range(es) = Range(s) \cup Range(t)
      /\ \A K: Single(s, K) /\ Single(t, K) /\ (Range(s) \cap K = {} \/ Range(t) \cap K = {})
               => Single(es, K)
  BY <1>2, <1>3, Joined
<1> HIDE DEF es
<1>5. Range(es) \cap PlayerOf(u) = {} /\ \A x \in Range(es): x.user = u
  BY <1>2, <1>3, <1>4 DEF PlayerOf
<1>6. Single(es, PlayerOf(u))
  BY <1>5 DEF Single, Range
<1>7. ASSUME NEW r, NEW d PROVE Single(es, Kind(u, r, d))
  <2> DEFINE K == Kind(u, r, d)
  <2>1. Range(s) \cap K = {} \/ Range(t) \cap K = {}
    <3> SUFFICES ASSUME NEW x \in Range(s) \cap K, NEW y \in Range(t) \cap K PROVE FALSE
      OBVIOUS
    <3>1. Has(s, u, r, d) /\ Has(t, u, r, d) /\ r \in Region
      BY DEF Has, Kind, EntrySet
    <3>2. r \in Range(Around(new)) /\ r \notin skip
      BY <1>2, <1>3, <3>1
    <3> QED
      BY <1>1, <3>2
  <2>2. Single(s, K) /\ Single(t, K)
    BY <1>2, <1>3
  <2> HIDE DEF K
  <2> QED
    BY <1>4, <2>1, <2>2 DEF K
<1>8. ASSUME NEW r \in Region, NEW d \in Changes \ {"SetupPlayer"}
      PROVE Has(es, u, r, d) <=> d \in Moves(Level(r, old), Level(r, new))
  <2>1. Has(es, u, r, d) <=> Has(s, u, r, d) \/ Has(t, u, r, d)
    BY <1>4 DEF Has
  <2>2. old \in Centers /\ new \in Centers
    BY DEF Centers
  <2>3. r \notin Range(Around(new)) /\ r \notin Range(Around(old)) => Moves(Level(r, old), Level(r, new)) = {}
    BY <1>1, <2>2, Still
  <2>4. r \in Range(Around(new)) <=> r \in skip
    BY <1>1
  <2> HIDE DEF skip
  <2> QED
    BY <1>2, <1>3, <2>1, <2>3, <2>4
<1>9. Brings(es, u, old, new)
  BY <1>4, <1>5, <1>7, <1>8 DEF Brings
<1> QED
  BY <1>5, <1>6, <1>9 DEF es, s, t, skip

\* The invariant holds at the start, and every action preserves it.
LEMMA RegionsInitially == Init => RegionsInv
<1> SUFFICES ASSUME Init PROVE RegionsInv
  OBVIOUS
<1> USE DEF Init
<1>1. queue \in Seq(EntrySet) /\ Len(queue) = 0 /\ DOMAIN queue = {} /\ Range(queue) = {}
  BY EmptySeq DEF Range
<1>2. None \in Centers
  BY DEF Centers
<1>3. Start \subseteq Cell
  BY StartAssumption DEF Cell
<1>4. DOMAIN pc = {} /\ DOMAIN regions = {}
  OBVIOUS
<1>5. Types
  BY <1>1, <1>2, <1>3, <1>4, DistanceAssumption DEF Types
<1>6. Ordered(queue, First) /\ Once /\ \A u, r, c: ~Has(queue, u, r, c)
  BY <1>1 DEF Ordered, Once, Single, Has
<1>7. Crossing(queue) = {}
  BY <1>1 DEF Crossing, Queued
<1>8. \A u, r: LevelOf(u, r) = "none"
  BY <1>4 DEF LevelOf
<1>9. Leading
  <2> SUFFICES ASSUME NEW u \in Users, NEW r \in Region, NEW c
               PROVE c \notin Moves(LevelOf(u, r), Level(r, center[u]))
    BY <1>6 DEF Leading
  <2>1. Level(r, center[u]) = "none"
    BY DEF Level
  <2> QED
    BY <1>8, <2>1 DEF Moves
<1>10. Arriving
  BY <1>4, <1>6 DEF Arriving
<1>11. Counting
  <2> SUFFICES ASSUME NEW r \in Region PROVE Counts(r)
    BY DEF Counting
  <2>1. {u \in Users : LevelOf(u, r) = "full"} = {}
    BY <1>8
  <2> QED
    BY <1>4, <1>8, <2>1 DEF Counts
<1> QED
  BY <1>5, <1>6, <1>7, <1>9, <1>10, <1>11 DEF RegionsInv, Consistent, AppliedWhereFound

LEMMA EnterStep == ASSUME RegionsInv, NEW u \in Users, Enter(u) PROVE RegionsInv'
<1> DEFINE c == RegionOf(place[u])
           es == Append(Entries(u, Around(c), {}, None, c, c), Entry(c, c, u, "SetupPlayer"))
<1>1. /\ center[u] = None /\ Ready /\ requests < MaxRequests /\ requests' = requests + 1
      /\ regions' = regions /\ npcs' = npcs /\ ticking' = ticking
      /\ center' = [center EXCEPT ![u] = c]
      /\ Enqueue(es) /\ pc' = pc /\ place' = place /\ panicked' = panicked
  BY DEF Enter, Request
<1>2. Types /\ Consistent /\ panicked = "no"
  BY <1>1 DEF RegionsInv, Ready
<1>3. c \in Region /\ c \in Centers
  BY <1>2, Places DEF Types, Centers
<1> HIDE DEF c
<1>4. /\ Brings(es, u, None, c) /\ Single(es, PlayerOf(u))
      /\ \A r \in Region: Has(es, u, r, "SetupPlayer") <=> r = c
  BY <1>3, EnterBrings
<1> HIDE DEF es
<1>5. /\ queue' \in Seq(EntrySet) /\ Range(queue') = Range(queue) \cup Range(es)
      /\ crossed' \subseteq Users \X Region /\ crossed \subseteq crossed'
      /\ Ordered(queue', First) /\ Crossing(queue') \subseteq crossed'
      /\ Leading' /\ Once' /\ Counting'
  BY <1>1, <1>2, <1>3, <1>4, Enqueued
<1>6. Types'
  <2>1. center' \in [Users -> Centers]
    BY <1>1, <1>2, <1>3 DEF Types
  <2>2. requests' \in 0 .. MaxRequests
    BY <1>1, <1>2, DistanceAssumption DEF Types
  <2> QED
    BY <1>1, <1>2, <1>5, <2>1, <2>2 DEF Types
<1>7. \A v \in Users: center'[v] = IF v = u THEN c ELSE center[v]
  BY <1>1, <1>2 DEF Types
<1>8. c # None
  BY <1>3, Nowhere
<1>9. Arriving'
  <2>1. ASSUME NEW v \in DOMAIN pc' PROVE center'[v] # None
    BY <1>1, <1>2, <1>7, <1>8, <2>1 DEF Consistent, Arriving, Types
  <2>2. ASSUME NEW v \in Users, NEW r \in Region, Has(queue', v, r, "SetupPlayer")
        PROVE center'[v] # None /\ v \notin DOMAIN pc' /\ (<<v, r>> \in crossed' \/ Level(r, center'[v]) # "none")
    <3>1. Has(queue, v, r, "SetupPlayer") \/ Has(es, v, r, "SetupPlayer")
      BY <1>5, <2>2 DEF Has
    <3>2. CASE v = u
      <4>1. ~Has(queue, u, r, "SetupPlayer")
        BY <1>1, <1>2 DEF Consistent, Arriving
      <4>2. r = c
        BY <1>4, <3>1, <3>2, <4>1
      <4>3. Level(c, c) = "full" /\ "full" # "none"
        BY <1>3, Placement
      <4>4. u \notin DOMAIN pc
        BY <1>1, <1>2 DEF Consistent, Arriving
      <4> QED
        BY <1>1, <1>7, <1>8, <3>2, <4>2, <4>3, <4>4
    <3>3. CASE v # u
      <4>1. Has(queue, v, r, "SetupPlayer")
        BY <1>4, <3>1, <3>3 DEF Brings, Has
      <4> QED
        BY <1>1, <1>2, <1>5, <1>7, <3>3, <4>1 DEF Consistent, Arriving, Apart
    <3> QED
      BY <3>2, <3>3
  <2> QED
    BY <2>1, <2>2 DEF Arriving, Apart
<1>10. AppliedWhereFound'
  BY <1>1, <1>2 DEF AppliedWhereFound
<1> QED
  BY <1>5, <1>6, <1>9, <1>10 DEF RegionsInv, Consistent

LEMMA LeaveStep == ASSUME RegionsInv, NEW u \in Users, Leave(u) PROVE RegionsInv'
<1> DEFINE c == center[u]
           es == Entries(u, Around(c), {}, c, None, c)
<1>1. /\ c # None /\ Ready /\ requests < MaxRequests /\ requests' = requests + 1
      /\ regions' = regions /\ npcs' = npcs /\ ticking' = ticking
      /\ center' = [center EXCEPT ![u] = None]
  BY DEF Leave, Request
<1>2. Types /\ Consistent /\ panicked = "no"
  BY <1>1 DEF RegionsInv, Ready
<1>3. c \in Region /\ c \in Centers /\ None \in Centers
  BY <1>1, <1>2 DEF Types, Centers
<1>4. center' \in [Users -> Centers] /\ requests' \in 0 .. MaxRequests
  BY <1>1, <1>2, <1>3, DistanceAssumption DEF Types
<1>5. CASE u \notin DOMAIN pc
  <2>1. panicked' = "remove" /\ pc' = pc /\ place' = place /\ queue' = queue /\ crossed' = crossed
    BY <1>5 DEF Leave
  <2>2. Types'
    BY <1>1, <1>2, <1>4, <2>1 DEF Types
  <2> QED
    BY <2>1, <2>2 DEF RegionsInv, AppliedWhereFound
<1>6. CASE u \in DOMAIN pc
  <2>1. /\ place' = [place EXCEPT ![u] = pc[u].at] /\ pc' = Without(pc, u)
        /\ Enqueue(es) /\ panicked' = panicked
    BY <1>6 DEF Leave
  <2>2. Brings(es, u, c, None) /\ Single(es, PlayerOf(u)) /\ Range(es) \cap PlayerOf(u) = {}
    BY <1>3, LeaveBrings
  <2> HIDE DEF es
  <2>3. /\ queue' \in Seq(EntrySet) /\ Range(queue') = Range(queue) \cup Range(es)
        /\ crossed' \subseteq Users \X Region /\ crossed \subseteq crossed'
        /\ Ordered(queue', First) /\ Crossing(queue') \subseteq crossed'
        /\ Leading' /\ Once' /\ Counting'
    BY <1>1, <1>2, <1>3, <2>1, <2>2, Enqueued
  <2>4. DOMAIN pc' = DOMAIN pc \ {u} /\ \A v \in DOMAIN pc': pc'[v] = pc[v]
    BY <2>1 DEF Without
  <2>5. Types'
    <3>1. place' \in [Users -> Cell]
      BY <1>2, <1>6, <2>1 DEF Types
    <3>2. DOMAIN pc' \subseteq Users /\ \A v \in DOMAIN pc': pc'[v] \in [at: Cell, target: Cell]
      BY <1>2, <2>4 DEF Types
    <3> QED
      BY <1>1, <1>2, <1>4, <2>1, <2>3, <3>1, <3>2 DEF Types
  <2>6. \A v \in Users: center'[v] = IF v = u THEN None ELSE center[v]
    BY <1>1, <1>2 DEF Types
  <2>7. Arriving'
    <3>1. ASSUME NEW v \in DOMAIN pc' PROVE center'[v] # None
      BY <1>2, <2>4, <2>6, <3>1 DEF Consistent, Arriving, Types
    <3>2. ASSUME NEW v \in Users, NEW r \in Region, Has(queue', v, r, "SetupPlayer")
          PROVE center'[v] # None /\ v \notin DOMAIN pc' /\ (<<v, r>> \in crossed' \/ Level(r, center'[v]) # "none")
      <4>1. ~Has(es, v, r, "SetupPlayer")
        <5> SUFFICES ASSUME NEW e \in Range(es), e.change = "SetupPlayer" PROVE FALSE
          BY DEF Has
        <5>1. e \in EntrySet
          BY <2>2, LenProperties DEF Brings, Range
        <5>2. e.user = u
          BY <2>2 DEF Brings
        <5> QED
          BY <2>2, <5>1, <5>2 DEF PlayerOf
      <4>2. Has(queue, v, r, "SetupPlayer")
        BY <2>3, <3>2, <4>1 DEF Has
      <4>3. v # u
        BY <1>2, <1>6, <4>2 DEF Consistent, Arriving
      <4> QED
        BY <1>2, <2>3, <2>4, <2>6, <4>2, <4>3 DEF Consistent, Arriving, Apart
    <3> QED
      BY <3>1, <3>2 DEF Arriving, Apart
  <2>8. AppliedWhereFound'
    BY <1>2, <2>1 DEF AppliedWhereFound
  <2> QED
    BY <2>3, <2>5, <2>7, <2>8 DEF RegionsInv, Consistent
<1> QED
  BY <1>5, <1>6

LEMMA UpdateSelfStep ==
  ASSUME RegionsInv, NEW u \in Users, NEW cell \in Cell, UpdateSelf(u, cell)
  PROVE RegionsInv'
<1> DEFINE old == center[u]
           new == RegionOf(cell)
           es == Entries(u, Around(new), {}, old, new, new) \o
                 Entries(u, Around(old), {r \in Region : Level(r, new) # "none"}, old, new, old)
<1>1. /\ old # None /\ Ready /\ requests < MaxRequests /\ requests' = requests + 1
      /\ regions' = regions /\ npcs' = npcs /\ ticking' = ticking
      /\ pc' = (IF u \in DOMAIN pc THEN [pc EXCEPT ![u].target = cell] ELSE pc)
      /\ place' = place /\ panicked' = panicked
  BY DEF UpdateSelf, Request
<1>2. Types /\ Consistent /\ panicked = "no"
  BY <1>1 DEF RegionsInv, Ready
<1>3. old \in Region /\ new \in Region /\ old \in Centers /\ new \in Centers
  BY <1>1, <1>2, Places DEF Types, Centers
<1>4. DOMAIN pc' = DOMAIN pc /\ \A v \in DOMAIN pc: pc'[v] \in [at: Cell, target: Cell]
  BY <1>1, <1>2 DEF Types
<1>5. requests' \in 0 .. MaxRequests
  BY <1>1, <1>2, DistanceAssumption DEF Types
<1>6. AppliedWhereFound'
  BY <1>1, <1>2 DEF AppliedWhereFound
<1>7. CASE NearRegion(cell, old)
  <2>1. center' = center /\ queue' = queue /\ crossed' = crossed
    BY <1>7 DEF UpdateSelf
  <2>2. Types'
    BY <1>1, <1>2, <1>4, <1>5, <2>1 DEF Types
  <2>3. \A v, r: LevelOf(v, r)' = LevelOf(v, r)
    BY <1>1 DEF LevelOf
  <2>4. Ordered(queue', First) /\ Crossing(queue') \subseteq crossed'
    BY <1>2, <2>1 DEF Consistent
  <2>5. Leading' /\ Once'
    BY <1>2, <2>1, <2>3 DEF Consistent, Leading, Once, Apart
  <2>6. Arriving'
    BY <1>2, <1>4, <2>1 DEF Consistent, Arriving, Apart
  <2>7. Counting'
    BY <1>1, <1>2, <2>1, <2>3 DEF Consistent, Counting, Counts, Apart
  <2> QED
    BY <1>6, <2>2, <2>4, <2>5, <2>6, <2>7 DEF RegionsInv, Consistent
<1>8. CASE ~NearRegion(cell, old)
  <2>1. center' = [center EXCEPT ![u] = new] /\ Enqueue(es)
    BY <1>8 DEF UpdateSelf
  <2> HIDE DEF new
  <2>2. Brings(es, u, old, new) /\ Single(es, PlayerOf(u)) /\ Range(es) \cap PlayerOf(u) = {}
    BY <1>3, MoveBrings
  <2> HIDE DEF es
  <2>3. /\ queue' \in Seq(EntrySet) /\ Range(queue') = Range(queue) \cup Range(es)
        /\ crossed' \subseteq Users \X Region /\ crossed \subseteq crossed'
        /\ Ordered(queue', First) /\ Crossing(queue') \subseteq crossed'
        /\ Leading' /\ Once' /\ Counting'
    BY <1>1, <1>2, <1>3, <2>1, <2>2, Enqueued
  <2>4. \A v \in Users: center'[v] = IF v = u THEN new ELSE center[v]
    BY <1>2, <2>1 DEF Types
  <2>5. Types'
    <3>1. center' \in [Users -> Centers]
      BY <1>2, <1>3, <2>1 DEF Types
    <3>2. DOMAIN pc' \subseteq Users /\ \A v \in DOMAIN pc': pc'[v] \in [at: Cell, target: Cell]
      BY <1>2, <1>4 DEF Types
    <3> QED
      BY <1>1, <1>2, <1>5, <2>3, <3>1, <3>2 DEF Types
  <2>6. new # None
    BY <1>3, Nowhere
  <2>7. Arriving'
    <3>1. ASSUME NEW v \in DOMAIN pc' PROVE center'[v] # None
      BY <1>2, <1>4, <2>4, <2>6, <3>1 DEF Consistent, Arriving, Types
    <3>2. ASSUME NEW v \in Users, NEW r \in Region, Has(queue', v, r, "SetupPlayer")
          PROVE center'[v] # None /\ v \notin DOMAIN pc' /\ (<<v, r>> \in crossed' \/ Level(r, center'[v]) # "none")
      <4>1. ~Has(es, v, r, "SetupPlayer")
        <5> SUFFICES ASSUME NEW e \in Range(es), e.change = "SetupPlayer" PROVE FALSE
          BY DEF Has
        <5>1. e \in EntrySet
          BY <2>2, LenProperties DEF Brings, Range
        <5>2. e.user = u
          BY <2>2 DEF Brings
        <5> QED
          BY <2>2, <5>1, <5>2 DEF PlayerOf
      <4>2. Has(queue, v, r, "SetupPlayer")
        BY <2>3, <3>2, <4>1 DEF Has
      <4>3. CASE v # u
        BY <1>2, <1>4, <2>3, <2>4, <4>2, <4>3 DEF Consistent, Arriving, Apart
      <4>4. CASE v = u
        <5>1. u \notin DOMAIN pc' /\ (<<u, r>> \in crossed \/ Level(r, old) # "none")
          BY <1>2, <1>4, <4>2, <4>4 DEF Consistent, Arriving, Apart
        <5>2. ASSUME <<u, r>> \notin crossed', Level(r, new) = "none" PROVE FALSE
          <6>1. Level(r, old) # "none"
            BY <2>3, <5>1, <5>2
          <6>2. "TeardownStatic" \in Changes \ {"SetupPlayer"}
            BY DEF Changes, Teardowns
          <6>3. "TeardownStatic" \in Moves(Level(r, old), Level(r, new))
            BY <5>2, <6>1, <6>2 DEF Moves
          <6>4. Has(es, u, r, "TeardownStatic")
            BY <2>2, <6>2, <6>3 DEF Brings
          <6>5. Has(queue', u, r, "TeardownStatic")
            BY <2>3, <6>4 DEF Has
          <6> QED
            BY <2>3, <3>2, <4>4, <5>2, <6>5, Meetings
        <5> QED
          BY <2>4, <2>6, <4>4, <5>1, <5>2
      <4> QED
        BY <4>3, <4>4
    <3> QED
      BY <3>1, <3>2 DEF Arriving, Apart
  <2> QED
    BY <1>6, <2>3, <2>5, <2>7 DEF RegionsInv, Consistent
<1> QED
  BY <1>7, <1>8

-----------------------------------------------------------------------------
(* Ticks. *)

LEMMA TickBeginStep == ASSUME RegionsInv, TickBegin PROVE RegionsInv'
<1>1. /\ Ready /\ ticking' = "first" /\ center' = center /\ place' = place /\ queue' = queue
      /\ regions' = regions /\ npcs' = npcs /\ requests' = requests /\ crossed' = crossed
      /\ \/ pc' = [u \in DOMAIN pc |-> [pc[u] EXCEPT !.at = pc[u].target]] /\ panicked' = panicked
         \/ pc' = pc /\ panicked' = "update_pcs"
  BY DEF TickBegin
<1>2. Types /\ Consistent /\ panicked = "no"
  BY <1>1 DEF RegionsInv, Ready
<1>3. DOMAIN pc' = DOMAIN pc /\ \A u \in DOMAIN pc: pc'[u] \in [at: Cell, target: Cell]
  BY <1>1, <1>2 DEF Types
<1>4. Types'
  BY <1>1, <1>2, <1>3 DEF Types
<1>5. AppliedWhereFound'
  BY <1>1, <1>2 DEF AppliedWhereFound
<1>6. \A u, r: LevelOf(u, r)' = LevelOf(u, r)
  BY <1>1 DEF LevelOf
<1>7. Leading' /\ Once'
  BY <1>1, <1>2, <1>6 DEF Consistent, Leading, Once, Apart
<1>8. Arriving'
  BY <1>1, <1>2, <1>3 DEF Consistent, Arriving, Apart
<1>9. Counting'
  BY <1>1, <1>2, <1>6 DEF Consistent, Counting, Counts, Apart
<1>10. Ordered(queue', First) /\ Crossing(queue') \subseteq crossed'
  BY <1>1, <1>2 DEF Consistent
<1> QED
  BY <1>4, <1>5, <1>7, <1>8, <1>9, <1>10 DEF RegionsInv, Consistent

LEMMA TickEndStep == ASSUME RegionsInv, TickEnd PROVE RegionsInv'
<1>1. /\ panicked = "no" /\ ticking' = "no" /\ center' = center /\ place' = place /\ queue' = queue
      /\ regions' = regions /\ npcs' = npcs /\ requests' = requests /\ crossed' = crossed
      /\ pc' = pc /\ panicked' = panicked
  BY DEF TickEnd
<1>2. Types /\ Consistent
  BY <1>1 DEF RegionsInv
<1>3. Types' /\ AppliedWhereFound'
  BY <1>1, <1>2 DEF Types, AppliedWhereFound
<1>4. \A u, r: LevelOf(u, r)' = LevelOf(u, r)
  BY <1>1 DEF LevelOf
<1>5. Leading' /\ Once' /\ Arriving'
  BY <1>1, <1>2, <1>4 DEF Consistent, Leading, Once, Arriving, Apart
<1>6. Counting'
  BY <1>1, <1>2, <1>4 DEF Consistent, Counting, Counts, Apart
<1>7. Ordered(queue', First) /\ Crossing(queue') \subseteq crossed'
  BY <1>1, <1>2 DEF Consistent
<1> QED
  BY <1>3, <1>5, <1>6, <1>7 DEF RegionsInv, Consistent

\* What remains of a queue whose first entry is taken.
LEMMA Taken ==
  ASSUME Types, Consistent, queue # <<>>, Pop
  PROVE LET e == Head(queue) IN
        /\ e \in EntrySet /\ e \in Range(queue)
        /\ queue' \in Seq(EntrySet) /\ Ordered(queue', First) /\ Crossing(queue') \subseteq crossed
        /\ \A K: Single(queue, K) => Single(queue', K)
        /\ \A v, r, c: Has(queue', v, r, c) => Has(queue, v, r, c)
        /\ \A v, r, c: Has(queue, v, r, c) /\ (v # e.user \/ r # e.pos \/ c # e.change) => Has(queue', v, r, c)
        /\ \A K: Single(queue, K) /\ e \in K => Range(queue') \cap K = {}
        /\ e.change # "SetupStatic" => \A v, r: ~Has(queue, v, r, "SetupStatic")
        /\ e.change = "TeardownStatic" /\ Apart(e.user, e.pos) => ~Has(queue, e.user, e.pos, "TeardownDynamic")
<1> DEFINE e == queue[1]
           n == Len(queue)
<1>1. queue \in Seq(EntrySet) /\ n \in Nat \ {0} /\ DOMAIN queue = 1 .. n
      /\ \A i \in 1 .. n: queue[i] \in EntrySet
  BY LenProperties, EmptySeq DEF Types
<1>2. Head(queue) = e /\ 1 \in 1 .. n
  BY <1>1, HeadTailProperties
<1>3. e \in EntrySet /\ e \in Range(queue)
  BY <1>1, <1>2 DEF Range
<1>4. /\ queue' \in Seq(EntrySet) /\ Range(queue') = {queue[j] : j \in 2 .. n}
      /\ \A K: Single(queue, K) => Single(queue', K)
      /\ \A w: Fits(EntrySet, w) /\ Ordered(queue, w) => Ordered(queue', w)
  BY <1>1, Popping
<1> HIDE DEF e
<1>5. Ordered(queue', First)
  BY <1>4, FirstFits DEF Consistent
<1>6. \A x: x \in Range(queue') => x \in Range(queue)
  <2>1. \A j \in 1 .. n: queue[j] \in Range(queue)
    BY <1>1 DEF Range
  <2>2. 2 .. n \subseteq 1 .. n
    OBVIOUS
  <2> QED
    BY <1>4, <2>1, <2>2
<1>7. \A x \in Range(queue): x \in Range(queue') \/ x = e
  <2> SUFFICES ASSUME NEW i \in 1 .. n PROVE queue[i] \in Range(queue') \/ queue[i] = e
    BY <1>1 DEF Range
  <2>1. i = 1 \/ i \in 2 .. n
    OBVIOUS
  <2> QED
    BY <1>4, <2>1 DEF e
<1>8. \A v, r, c: Has(queue', v, r, c) => Has(queue, v, r, c)
  BY <1>6 DEF Has
<1>9. \A v, r, c: Has(queue, v, r, c) /\ (v # e.user \/ r # e.pos \/ c # e.change) => Has(queue', v, r, c)
  BY <1>7 DEF Has
<1>10. ASSUME NEW K, Single(queue, K), e \in K PROVE Range(queue') \cap K = {}
  <2> SUFFICES ASSUME NEW j \in 2 .. n, queue[j] \in K PROVE FALSE
    BY <1>4
  <2>1. j \in 1 .. n /\ j # 1
    OBVIOUS
  <2> QED
    BY <1>1, <1>2, <1>10, <2>1 DEF Single, e
<1>11. ASSUME e.change # "SetupStatic", NEW v, NEW r, Has(queue, v, r, "SetupStatic") PROVE FALSE
  <2>1. \A j \in 1 .. n: First[queue[j]] \in Nat
    BY <1>1 DEF First
  <2>2. \A j \in 1 .. n: First[queue[j]] <= First[queue[1]]
    BY <1>1, <2>1, FirstIsGreatest DEF Consistent
  <2>3. PICK j \in 1 .. n: queue[j].change = "SetupStatic"
    BY <1>1, <1>11 DEF Has, Range
  <2>4. First[queue[j]] = 1 /\ First[queue[1]] = 0
    BY <1>1, <1>2, <1>3, <1>11, <2>3 DEF First, e
  <2> QED
    BY <2>2, <2>4
<1> DEFINE S == {x \in EntrySet : x.change # "SetupDynamic"}
<1>12. ASSUME \A x \in Range(queue): x.change # "SetupDynamic"
       PROVE queue \in Seq(S)
  <2>1. queue \in [1 .. n -> S]
    <3>1. \A i \in 1 .. n: queue[i] \in S
      BY <1>1, <1>12 DEF Range
    <3>2. queue \in [1 .. n -> EntrySet]
      BY <1>1, LenProperties
    <3> QED
      BY <3>1, <3>2
  <2> QED
    BY <1>1, <2>1
<1>13. Ranked(queue) <=> Ordered(queue, RankOf)
  <2>1. \A j \in 2 .. n: RankOf[queue[j]] = Rank(queue[j].change) /\ RankOf[queue[j \div 2]] = Rank(queue[j \div 2].change)
    <3> SUFFICES ASSUME NEW j \in 2 .. n
                 PROVE RankOf[queue[j]] = Rank(queue[j].change) /\ RankOf[queue[j \div 2]] = Rank(queue[j \div 2].change)
      OBVIOUS
    <3>1. j \in 1 .. n /\ j \div 2 \in 1 .. n
      BY <1>1
    <3>2. queue[j] \in EntrySet /\ queue[j \div 2] \in EntrySet
      BY <1>1, <3>1
    <3> QED
      BY <3>2 DEF RankOf
  <2> QED
    BY <2>1 DEF Ranked, Ordered
<1>14. ASSUME Ranked(queue), \A x \in Range(queue): x.change # "SetupDynamic"
       PROVE Ranked(queue') /\ \A j \in 1 .. n: Rank(queue[j].change) <= Rank(e.change)
  <2>1. queue \in Seq(S)
    BY <1>12, <1>14
  <2>2. Ordered(queue, RankOf)
    BY <1>13, <1>14
  <2>3. queue' \in Seq(S) /\ Ordered(queue', RankOf)
    <3> HIDE DEF S
    <3>1. /\ queue' \in Seq(S)
          /\ \A w: Fits(S, w) /\ Ordered(queue, w) => Ordered(queue', w)
      BY <1>1, <2>1, Popping
    <3>2. Fits(S, RankOf)
      BY RankFits DEF S
    <3> QED
      BY <2>2, <3>1, <3>2
  <2>4. Len(queue') \in Nat /\ \A j \in 1 .. Len(queue'): queue'[j] \in EntrySet
    BY <1>4, LenProperties
  <2>5. Ranked(queue')
    <3> SUFFICES ASSUME NEW j \in 2 .. Len(queue')
                 PROVE Rank(queue'[j].change) <= Rank(queue'[j \div 2].change)
      BY DEF Ranked
    <3>1. j \in 1 .. Len(queue') /\ j \div 2 \in 1 .. Len(queue')
      BY <2>4
    <3>2. queue'[j] \in EntrySet /\ queue'[j \div 2] \in EntrySet
      BY <2>4, <3>1
    <3>3. RankOf[queue'[j]] <= RankOf[queue'[j \div 2]]
      BY <2>3 DEF Ordered
    <3> QED
      BY <3>2, <3>3 DEF RankOf
  <2>6. \A j \in 1 .. n: RankOf[queue[j]] = Rank(queue[j].change)
    BY <1>1 DEF RankOf
  <2>7. \A j \in 1 .. n: RankOf[queue[j]] \in Nat
    <3> SUFFICES ASSUME NEW j \in 1 .. n PROVE Rank(queue[j].change) \in Nat
      BY <2>6
    <3>1. queue[j].change \in {"SetupStatic", "SetupDynamic", "SetupPlayer", "TeardownDynamic", "TeardownStatic"}
      BY <1>1 DEF EntrySet, Changes, Setups, Teardowns
    <3> QED
      BY <3>1 DEF Rank
  <2>8. \A j \in 1 .. n: RankOf[queue[j]] <= RankOf[queue[1]]
    BY <1>1, <2>2, <2>7, FirstIsGreatest
  <2> QED
    BY <1>2, <2>5, <2>6, <2>8 DEF e
<1>15. ASSUME e.change = "TeardownStatic", Apart(e.user, e.pos),
              Has(queue, e.user, e.pos, "TeardownDynamic")
       PROVE FALSE
  <2>1. Has(queue, e.user, e.pos, "TeardownStatic")
    BY <1>3, <1>15 DEF Has
  <2>2. Ranked(queue) /\ \A x \in Range(queue): x.change # "SetupDynamic"
    BY <1>15, <2>1, Meetings DEF Consistent, Apart
  <2>3. PICK j \in 1 .. n: queue[j].change = "TeardownDynamic"
    BY <1>1, <1>15 DEF Has, Range
  <2>4. Rank("TeardownDynamic") <= Rank("TeardownStatic")
    BY <1>14, <1>15, <2>2, <2>3
  <2> QED
    BY <2>4 DEF Rank
<1>16. Crossing(queue') \subseteq crossed
  <2>1. \A c: Queued(queue', c) \subseteq Queued(queue, c)
    BY <1>6 DEF Queued
  <2>2. ASSUME Queued(queue, "SetupDynamic") = {}, Ranked(queue)
        PROVE Queued(queue', "SetupDynamic") = {} /\ Ranked(queue')
    <3>1. \A x \in Range(queue): x.change # "SetupDynamic"
      BY <2>2 DEF Queued
    <3> QED
      BY <1>14, <2>1, <2>2, <3>1
  <2>3. Crossing(queue') \subseteq Crossing(queue)
    BY <2>1, <2>2 DEF Crossing
  <2> QED
    BY <2>3 DEF Consistent
<1> QED
  BY <1>2, <1>3, <1>4, <1>5, <1>8, <1>9, <1>10, <1>11, <1>15, <1>16

\* What RegionManager::apply does for user u in region r, apart from the level
\* of u there: nothing.
Elsewhere(u, r) ==
  /\ DOMAIN regions' \subseteq Region /\ \A s \in DOMAIN regions': IsRegion(regions'[s])
  /\ npcs' \subseteq Region
  /\ \A v, s: v # u \/ s # r => LevelOf(v, s)' = LevelOf(v, s)
  /\ \A s \in Region \ {r}:
       /\ s \in DOMAIN regions' <=> s \in DOMAIN regions
       /\ s \in DOMAIN regions => regions'[s].full = regions[s].full
       /\ s \in npcs' <=> s \in npcs

FullIn(r) == {v \in Users : LevelOf(v, r) = "full"}

\* The full observers of a region are finitely many.
LEMMA FullInRegion ==
  ASSUME Types, NEW r \in Region
  PROVE IsFiniteSet(FullIn(r)) /\ Cardinality(FullIn(r)) \in Nat
        /\ (r \notin DOMAIN regions => FullIn(r) = {})
        /\ \A u \in Users: u \in FullIn(r) => Cardinality(FullIn(r)) > 0
<1>1. CASE r \notin DOMAIN regions
  <2>1. FullIn(r) = {}
    BY <1>1 DEF FullIn, LevelOf
  <2> QED
    BY <2>1, FS_EmptySet
<1>2. CASE r \in DOMAIN regions
  <2>1. IsFiniteSet(DOMAIN regions[r].level)
    BY <1>2 DEF Types, IsRegion
  <2>2. FullIn(r) \in SUBSET DOMAIN regions[r].level
    BY <1>2 DEF FullIn, LevelOf
  <2>3. IsFiniteSet(FullIn(r)) /\ Cardinality(FullIn(r)) \in Nat
    BY <2>1, <2>2, FS_Subset, FS_CardinalityType
  <2>4. \A u \in Users: u \in FullIn(r) => Cardinality(FullIn(r)) # 0
    BY <2>3, FS_EmptySet
  <2> QED
    BY <1>2, <2>3, <2>4
<1> QED
  BY <1>1, <1>2

\* What each change does to the level of its user and the count of its region.
LEMMA SetupStaticEffect ==
  ASSUME Types, NEW u \in Users, NEW r \in Region, SetupStatic(u, r)
  PROVE /\ Elsewhere(u, r) /\ LevelOf(u, r)' = "static" /\ pc' = pc
        /\ Counts(r) /\ LevelOf(u, r) = "none" => Counts(r)'
<1> DEFINE x == IF r \in DOMAIN regions THEN regions[r] ELSE NoRegion
           l == With(x.level, u, "static")
           y == [x EXCEPT !.level = l]
<1>1. regions' = With(regions, r, y) /\ npcs' = npcs /\ pc' = pc
  BY DEF SetupStatic
<1>2. IsRegion(x) /\ (r \notin DOMAIN regions => DOMAIN x.level = {} /\ x.full = 0)
  <2>1. CASE r \in DOMAIN regions
    BY <2>1 DEF Types
  <2>2. CASE r \notin DOMAIN regions
    <3>1. x = [level |-> <<>>, full |-> 0]
      BY <2>2 DEF NoRegion
    <3>2. DOMAIN <<>> = {} /\ IsFiniteSet({})
      BY FS_EmptySet
    <3> QED
      BY <3>1, <3>2 DEF IsRegion
  <2> QED
    BY <2>1, <2>2
<1>3. r \in DOMAIN regions => x = regions[r]
  OBVIOUS
<1> HIDE DEF x
<1>4. /\ DOMAIN l = DOMAIN x.level \cup {u} /\ l = [v \in DOMAIN l |-> l[v]] /\ l[u] = "static"
      /\ \A v \in DOMAIN x.level: v # u => l[v] = x.level[v]
  BY DEF With
<1> HIDE DEF l
<1>5. y = [level |-> l, full |-> x.full]
  BY <1>2 DEF IsRegion
<1>6. y.level = l /\ y.full = x.full /\ IsRegion(y)
  <2>1. y.level = l /\ y.full = x.full /\ y \in [level: {y.level}, full: Nat]
    BY <1>2, <1>5 DEF IsRegion
  <2>2. IsFiniteSet(DOMAIN l)
    BY <1>2, <1>4, FS_AddElement DEF IsRegion
  <2>3. DOMAIN l \subseteq Users /\ \A v \in DOMAIN l: l[v] \in {"static", "full"}
    BY <1>2, <1>4 DEF IsRegion
  <2> HIDE DEF y
  <2> QED
    BY <1>4, <2>1, <2>2, <2>3 DEF IsRegion
<1> HIDE DEF y
<1>7. DOMAIN regions' = DOMAIN regions \cup {r} /\ regions'[r] = y
      /\ \A s \in DOMAIN regions: s # r => regions'[s] = regions[s]
  BY <1>1 DEF With
<1>8. LevelOf(u, r)' = "static"
  BY <1>4, <1>6, <1>7 DEF LevelOf
<1>9. ASSUME NEW v, NEW s, v # u \/ s # r PROVE LevelOf(v, s)' = LevelOf(v, s)
  <2>1. CASE s # r
    BY <1>7, <2>1 DEF LevelOf
  <2>2. CASE s = r
    <3>1. LevelOf(v, r)' = IF v \in DOMAIN l THEN l[v] ELSE "none"
      BY <1>6, <1>7 DEF LevelOf
    <3>2. LevelOf(v, r) = IF v \in DOMAIN x.level THEN x.level[v] ELSE "none"
      BY <1>2, <1>3 DEF LevelOf
    <3> QED
      BY <1>4, <1>9, <2>2, <3>1, <3>2
  <2> QED
    BY <2>1, <2>2
<1>10. Elsewhere(u, r)
  BY <1>1, <1>6, <1>7, <1>9 DEF Elsewhere, Types
<1>11. ASSUME Counts(r), LevelOf(u, r) = "none" PROVE Counts(r)'
  <2>1. FullIn(r)' = FullIn(r)
    <3>1. \A v \in Users: LevelOf(v, r)' = "full" <=> LevelOf(v, r) = "full"
      BY <1>8, <1>9, <1>11
    <3> QED
      BY <3>1 DEF FullIn
  <2>2. y.full = Cardinality(FullIn(r))
    BY <1>2, <1>3, <1>6, <1>11, FullInRegion, FS_EmptySet DEF Counts, FullIn
  <2>3. r \in npcs <=> FullIn(r) # {}
    BY <1>11 DEF Counts, FullIn
  <2>4. r \in DOMAIN regions' /\ LevelOf(u, r)' # "none" /\ regions'[r].full = y.full
    BY <1>7, <1>8
  <2> QED
    BY <1>1, <2>1, <2>2, <2>3, <2>4 DEF Counts, FullIn
<1> QED
  BY <1>1, <1>8, <1>10, <1>11

LEMMA SetupDynamicEffect ==
  ASSUME Types, NEW u \in Users, NEW r \in Region, SetupDynamic(u, r),
         r \in DOMAIN regions, u \in DOMAIN regions[r].level
  PROVE /\ Elsewhere(u, r) /\ LevelOf(u, r)' = "full" /\ pc' = pc
        /\ Counts(r) /\ LevelOf(u, r) # "full" => Counts(r)'
<1> DEFINE x == regions[r]
           l == With(x.level, u, "full")
           y == [level |-> l, full |-> x.full + 1]
<1>1. regions' = [regions EXCEPT ![r] = y] /\ npcs' = npcs \cup {r} /\ pc' = pc
  BY DEF SetupDynamic
<1>2. IsRegion(x)
  BY DEF Types
<1>3. u \in DOMAIN x.level
  OBVIOUS
<1>4. /\ DOMAIN l = DOMAIN x.level /\ l = [v \in DOMAIN l |-> l[v]] /\ l[u] = "full"
      /\ \A v \in DOMAIN x.level: v # u => l[v] = x.level[v]
  BY <1>3 DEF With
<1> HIDE DEF x
<1> HIDE DEF l
<1>5. y.level = l /\ y.full = x.full + 1 /\ IsRegion(y)
  <2>1. y.level = l /\ y.full = x.full + 1 /\ y \in [level: {y.level}, full: Nat]
    BY <1>2 DEF IsRegion
  <2>2. DOMAIN l \subseteq Users /\ IsFiniteSet(DOMAIN l) /\ \A v \in DOMAIN l: l[v] \in {"static", "full"}
    BY <1>2, <1>4 DEF IsRegion
  <2> HIDE DEF y
  <2> QED
    BY <1>4, <2>1, <2>2 DEF IsRegion
<1> HIDE DEF y
<1>6. DOMAIN regions' = DOMAIN regions /\ regions'[r] = y
      /\ \A s \in DOMAIN regions: s # r => regions'[s] = regions[s]
  BY <1>1
<1>7. LevelOf(u, r)' = "full"
  BY <1>4, <1>5, <1>6 DEF LevelOf, x
<1>8. ASSUME NEW v, NEW s, v # u \/ s # r PROVE LevelOf(v, s)' = LevelOf(v, s)
  <2>1. CASE s # r
    BY <1>6, <2>1 DEF LevelOf
  <2>2. CASE s = r
    <3>1. LevelOf(v, r)' = IF v \in DOMAIN l THEN l[v] ELSE "none"
      BY <1>5, <1>6 DEF LevelOf
    <3>2. LevelOf(v, r) = IF v \in DOMAIN x.level THEN x.level[v] ELSE "none"
      BY DEF LevelOf, x
    <3> QED
      BY <1>4, <1>8, <2>2, <3>1, <3>2
  <2> QED
    BY <2>1, <2>2
<1>9. Elsewhere(u, r)
  BY <1>1, <1>5, <1>6, <1>8 DEF Elsewhere, Types
<1>10. ASSUME Counts(r), LevelOf(u, r) # "full" PROVE Counts(r)'
  <2>1. FullIn(r)' = FullIn(r) \cup {u}
    <3>1. \A v \in Users: LevelOf(v, r)' = "full" <=> v = u \/ LevelOf(v, r) = "full"
      BY <1>7, <1>8
    <3> QED
      BY <3>1 DEF FullIn
  <2>2. u \notin FullIn(r)
    BY <1>10 DEF FullIn
  <2>3. Cardinality(FullIn(r)') = Cardinality(FullIn(r)) + 1
    <3> DEFINE f == FullIn(r)
    <3>1. IsFiniteSet(f) /\ u \notin f
      BY <2>2, FullInRegion
    <3> HIDE DEF f
    <3>2. Cardinality(f \cup {u}) = Cardinality(f) + 1
      BY <3>1, FS_AddElement
    <3> QED
      BY <2>1, <3>2 DEF f
  <2>4. x.full = Cardinality(FullIn(r))
    BY <1>10 DEF Counts, FullIn, x
  <2>5. regions'[r].full = Cardinality(FullIn(r)')
    BY <1>5, <1>6, <2>3, <2>4
  <2>6. r \in DOMAIN regions' /\ LevelOf(u, r)' # "none" /\ r \in npcs' /\ FullIn(r)' # {}
    BY <1>1, <1>6, <1>7, <2>1
  <2> QED
    BY <2>5, <2>6 DEF Counts, FullIn
<1> QED
  BY <1>1, <1>7, <1>9, <1>10

LEMMA TeardownDynamicEffect ==
  ASSUME Types, NEW u \in Users, NEW r \in Region, TeardownDynamic(u, r),
         r \in DOMAIN regions, u \in DOMAIN regions[r].level, regions[r].full > 0
  PROVE /\ Elsewhere(u, r) /\ LevelOf(u, r)' = "static" /\ pc' = pc
        /\ Counts(r) /\ LevelOf(u, r) = "full" => Counts(r)'
<1> DEFINE x == regions[r]
           l == With(x.level, u, "static")
           y == [level |-> l, full |-> x.full - 1]
<1>1. regions' = [regions EXCEPT ![r] = y] /\ npcs' = (IF x.full = 1 THEN npcs \ {r} ELSE npcs) /\ pc' = pc
  BY DEF TeardownDynamic
<1>2. IsRegion(x) /\ x.full > 0
  BY DEF Types
<1>3. u \in DOMAIN x.level
  OBVIOUS
<1>4. /\ DOMAIN l = DOMAIN x.level /\ l = [v \in DOMAIN l |-> l[v]] /\ l[u] = "static"
      /\ \A v \in DOMAIN x.level: v # u => l[v] = x.level[v]
  BY <1>3 DEF With
<1> HIDE DEF x, l
<1>5. y.level = l /\ y.full = x.full - 1 /\ IsRegion(y)
  <2>1. x.full - 1 \in Nat
    BY <1>2 DEF IsRegion
  <2>2. y.level = l /\ y.full = x.full - 1 /\ y \in [level: {y.level}, full: Nat]
    BY <2>1
  <2>3. DOMAIN l \subseteq Users /\ IsFiniteSet(DOMAIN l) /\ \A v \in DOMAIN l: l[v] \in {"static", "full"}
    BY <1>2, <1>4 DEF IsRegion
  <2> HIDE DEF y
  <2> QED
    BY <1>4, <2>2, <2>3 DEF IsRegion
<1> HIDE DEF y
<1>6. DOMAIN regions' = DOMAIN regions /\ regions'[r] = y
      /\ \A s \in DOMAIN regions: s # r => regions'[s] = regions[s]
  BY <1>1
<1>7. LevelOf(u, r)' = "static"
  BY <1>4, <1>5, <1>6 DEF LevelOf, x
<1>8. ASSUME NEW v, NEW s, v # u \/ s # r PROVE LevelOf(v, s)' = LevelOf(v, s)
  <2>1. CASE s # r
    BY <1>6, <2>1 DEF LevelOf
  <2>2. CASE s = r
    <3>1. LevelOf(v, r)' = IF v \in DOMAIN l THEN l[v] ELSE "none"
      BY <1>5, <1>6 DEF LevelOf
    <3>2. LevelOf(v, r) = IF v \in DOMAIN x.level THEN x.level[v] ELSE "none"
      BY DEF LevelOf, x
    <3> QED
      BY <1>4, <1>8, <2>2, <3>1, <3>2
  <2> QED
    BY <2>1, <2>2
<1>9. Elsewhere(u, r)
  BY <1>1, <1>5, <1>6, <1>8 DEF Elsewhere, Types
<1>10. ASSUME Counts(r), LevelOf(u, r) = "full" PROVE Counts(r)'
  <2> DEFINE f == FullIn(r)
  <2>1. FullIn(r)' = f \ {u}
    <3>1. \A v \in Users: LevelOf(v, r)' = "full" <=> v # u /\ LevelOf(v, r) = "full"
      BY <1>7, <1>8
    <3> QED
      BY <3>1 DEF FullIn
  <2>2. u \in f /\ IsFiniteSet(f) /\ x.full = Cardinality(f) /\ r \in npcs
    BY <1>10, FullInRegion DEF FullIn, Counts, x
  <2> HIDE DEF f
  <2>3. Cardinality(f \ {u}) = Cardinality(f) - 1 /\ IsFiniteSet(f \ {u})
    BY <2>2, FS_RemoveElement
  <2>4. regions'[r].full = Cardinality(FullIn(r)')
    BY <1>5, <1>6, <2>1, <2>2, <2>3
  <2>5. FullIn(r)' = {} <=> x.full = 1
    <3>1. f \ {u} = {} <=> Cardinality(f \ {u}) = 0
      BY <2>3, FS_EmptySet
    <3>2. x.full \in Nat
      BY <1>2 DEF IsRegion
    <3> QED
      BY <2>1, <2>2, <2>3, <3>1, <3>2
  <2>6. r \in npcs' <=> FullIn(r)' # {}
    BY <1>1, <2>2, <2>5
  <2>7. r \in DOMAIN regions' /\ LevelOf(u, r)' # "none"
    BY <1>6, <1>7
  <2> QED
    BY <2>4, <2>6, <2>7 DEF Counts, FullIn
<1> QED
  BY <1>1, <1>7, <1>9, <1>10

LEMMA TeardownStaticEffect ==
  ASSUME Types, NEW u \in Users, NEW r \in Region, TeardownStatic(u, r),
         r \in DOMAIN regions, u \in DOMAIN regions[r].level
  PROVE /\ Elsewhere(u, r) /\ LevelOf(u, r)' = "none" /\ pc' = pc
        /\ Counts(r) /\ LevelOf(u, r) = "static" => Counts(r)'
<1> DEFINE x == regions[r]
           l == Without(x.level, u)
           y == [x EXCEPT !.level = l]
<1>1. /\ npcs' = npcs /\ pc' = pc
      /\ regions' = IF DOMAIN x.level = {u} THEN Without(regions, r) ELSE [regions EXCEPT ![r] = y]
  BY DEF TeardownStatic
<1>2. IsRegion(x)
  BY DEF Types
<1>3. u \in DOMAIN x.level
  OBVIOUS
<1>4. /\ DOMAIN l = DOMAIN x.level \ {u} /\ l = [v \in DOMAIN l |-> l[v]]
      /\ \A v \in DOMAIN x.level: v # u => l[v] = x.level[v]
  BY DEF Without
<1> HIDE DEF x, l
<1>5. y.level = l /\ y.full = x.full /\ IsRegion(y)
  <2>1. y = [level |-> l, full |-> x.full]
    BY <1>2 DEF IsRegion
  <2>2. y.level = l /\ y.full = x.full /\ y \in [level: {y.level}, full: Nat]
    BY <1>2, <2>1 DEF IsRegion
  <2>3. DOMAIN l \subseteq Users /\ IsFiniteSet(DOMAIN l) /\ \A v \in DOMAIN l: l[v] \in {"static", "full"}
    BY <1>2, <1>4, FS_RemoveElement DEF IsRegion
  <2> HIDE DEF y
  <2> QED
    BY <1>4, <2>2, <2>3 DEF IsRegion
<1> HIDE DEF y
<1>6. \A v: LevelOf(v, r) = IF v \in DOMAIN x.level THEN x.level[v] ELSE "none"
  BY DEF LevelOf, x
<1>7. ASSUME Counts(r), LevelOf(u, r) = "static"
      PROVE x.full = Cardinality(FullIn(r)) /\ (r \in npcs <=> FullIn(r) # {})
  BY <1>7 DEF Counts, FullIn, x
<1>8. CASE DOMAIN x.level = {u}
  <2>1. DOMAIN regions' = DOMAIN regions \ {r} /\ \A s \in DOMAIN regions': regions'[s] = regions[s]
    BY <1>1, <1>8 DEF Without
  <2>2. \A v: LevelOf(v, r)' = "none"
    BY <2>1 DEF LevelOf
  <2>3. \A v, s: s # r => LevelOf(v, s)' = LevelOf(v, s)
    BY <2>1 DEF LevelOf
  <2>4. \A v: v # u => LevelOf(v, r) = "none"
    BY <1>6, <1>8
  <2>5. Elsewhere(u, r)
    BY <1>1, <2>1, <2>2, <2>3, <2>4 DEF Elsewhere, Types
  <2>6. ASSUME Counts(r), LevelOf(u, r) = "static" PROVE Counts(r)'
    <3>1. FullIn(r) = {} /\ FullIn(r)' = {}
      BY <2>2, <2>4, <2>6 DEF FullIn
    <3> QED
      BY <1>1, <1>7, <2>1, <2>2, <2>6, <3>1 DEF Counts, FullIn
  <2> QED
    BY <1>1, <2>2, <2>5, <2>6
<1>9. CASE DOMAIN x.level # {u}
  <2>1. DOMAIN regions' = DOMAIN regions /\ regions'[r] = y
        /\ \A s \in DOMAIN regions: s # r => regions'[s] = regions[s]
    BY <1>1, <1>9
  <2>2. \A v: LevelOf(v, r)' = IF v \in DOMAIN l THEN l[v] ELSE "none"
    BY <1>5, <2>1 DEF LevelOf
  <2>3. LevelOf(u, r)' = "none" /\ \A v: v # u => LevelOf(v, r)' = LevelOf(v, r)
    BY <1>4, <1>6, <2>2
  <2>4. \A v, s: s # r => LevelOf(v, s)' = LevelOf(v, s)
    BY <2>1 DEF LevelOf
  <2>5. Elsewhere(u, r)
    BY <1>1, <1>5, <2>1, <2>3, <2>4 DEF Elsewhere, Types
  <2>6. ASSUME Counts(r), LevelOf(u, r) = "static" PROVE Counts(r)'
    <3>1. FullIn(r)' = FullIn(r)
      <4>1. \A v \in Users: LevelOf(v, r)' = "full" <=> LevelOf(v, r) = "full"
        BY <2>3, <2>6
      <4> QED
        BY <4>1 DEF FullIn
    <3>2. PICK v \in DOMAIN x.level: v # u
      BY <1>3, <1>9
    <3>3. v \in Users /\ LevelOf(v, r)' # "none"
      BY <1>2, <1>6, <2>3, <3>2 DEF IsRegion
    <3> QED
      BY <1>1, <1>5, <1>7, <2>1, <2>6, <3>1, <3>3 DEF Counts, FullIn
  <2> QED
    BY <1>1, <2>3, <2>5, <2>6
<1> QED
  BY <1>8, <1>9

\* The level of a user in a region when a change is applied to it.
Becomes(level, change) ==
  CASE change = "SetupStatic" -> "static" [] change = "SetupDynamic" -> "full"
    [] change = "TeardownDynamic" -> "static" [] change = "TeardownStatic" -> "none"
    [] change = "SetupPlayer" -> level

\* The first change of a pair that did not cross finds the level it is for.
LEMMA FirstLevel ==
  ASSUME Types, Consistent, queue # <<>>, Pop, Apart(Head(queue).user, Head(queue).pos)
  PROVE LET e == Head(queue)
            l == LevelOf(e.user, e.pos)
        IN /\ e.change = "SetupStatic" => l = "none"
           /\ e.change = "SetupDynamic" => l = "static"
           /\ e.change = "TeardownDynamic" => l = "full"
           /\ e.change = "TeardownStatic" => l = "static"
           /\ e.change = "SetupPlayer" => l # "none"
<1> DEFINE e == Head(queue)
           l == LevelOf(e.user, e.pos)
           c == Level(e.pos, center[e.user])
<1>1. /\ e \in EntrySet /\ e \in Range(queue)
      /\ e.change # "SetupStatic" => ~Has(queue, e.user, e.pos, "SetupStatic")
      /\ e.change = "TeardownStatic" => ~Has(queue, e.user, e.pos, "TeardownDynamic")
  BY Taken
<1> HIDE DEF e
<1>2. e.user \in Users /\ e.pos \in Region /\ e.change \in Changes
  BY <1>1 DEF EntrySet
<1>3. Has(queue, e.user, e.pos, e.change)
  BY <1>1 DEF Has
<1>4. Changes = {"SetupStatic", "SetupDynamic", "SetupPlayer", "TeardownDynamic", "TeardownStatic"}
  BY DEF Changes, Setups, Teardowns
<1>5. l \in {"none", "static", "full"}
  BY LevelType DEF Levels
<1>6. \A k \in Changes \ {"SetupPlayer"}: Has(queue, e.user, e.pos, k) <=> k \in Moves(l, c)
  BY <1>2 DEF Consistent, Leading, e
<1>7. e.change = "SetupPlayer" => c # "none"
  BY <1>2, <1>3 DEF Consistent, Arriving, e
<1> HIDE DEF l, c
<1>8. /\ Has(queue, e.user, e.pos, "SetupStatic") <=> l = "none" /\ c # "none"
      /\ Has(queue, e.user, e.pos, "SetupDynamic") <=> l # "full" /\ c = "full"
      /\ Has(queue, e.user, e.pos, "TeardownDynamic") <=> l = "full" /\ c # "full"
      /\ Has(queue, e.user, e.pos, "TeardownStatic") <=> l # "none" /\ c = "none"
  BY <1>4, <1>6 DEF Moves
<1>9. /\ e.change = "SetupStatic" => l = "none"
      /\ e.change = "SetupDynamic" => l = "static"
      /\ e.change = "TeardownDynamic" => l = "full"
      /\ e.change = "TeardownStatic" => l = "static"
      /\ e.change = "SetupPlayer" => l # "none"
  BY <1>1, <1>3, <1>5, <1>7, <1>8
<1> QED
  BY <1>9 DEF e, l

\* What is left in the queue leads on from the level the first change made.
LEMMA OneLess ==
  ASSUME Types, Consistent, queue # <<>>, Pop, center' = center, crossed' = crossed,
         NEW u, NEW r, Head(queue).user = u, Head(queue).pos = r,
         \A v, s: v # u \/ s # r => LevelOf(v, s)' = LevelOf(v, s),
         Apart(u, r) => LevelOf(u, r)' = Becomes(LevelOf(u, r), Head(queue).change)
  PROVE Leading' /\ Once'
<1> DEFINE e == Head(queue)
<1>1. /\ e \in EntrySet /\ e \in Range(queue)
      /\ \A K: Single(queue, K) => Single(queue', K)
      /\ \A v, s, c: Has(queue', v, s, c) => Has(queue, v, s, c)
      /\ \A v, s, c: Has(queue, v, s, c) /\ (v # e.user \/ s # e.pos \/ c # e.change) => Has(queue', v, s, c)
      /\ \A K: Single(queue, K) /\ e \in K => Range(queue') \cap K = {}
  BY Taken
<1>2. queue' \in Seq(EntrySet)
  BY Taken
<1>3. Once'
  BY <1>1 DEF Consistent, Once, Apart
<1>4. ASSUME NEW v \in Users, NEW s \in Region, <<v, s>> \notin crossed,
             NEW k \in Changes \ {"SetupPlayer"}
      PROVE Has(queue', v, s, k) <=> k \in Moves(LevelOf(v, s)', Level(s, center[v]))
  <2>1. Has(queue, v, s, k) <=> k \in Moves(LevelOf(v, s), Level(s, center[v]))
    BY <1>4 DEF Consistent, Leading, Apart
  <2>2. CASE v # e.user \/ s # e.pos
    <3>1. Has(queue', v, s, k) <=> Has(queue, v, s, k)
      BY <1>1, <2>2
    <3>2. LevelOf(v, s)' = LevelOf(v, s)
      BY <2>2
    <3> QED
      BY <2>1, <3>1, <3>2
  <2>3. CASE v = e.user /\ s = e.pos
    <3> DEFINE l == LevelOf(v, s)
               c == Level(s, center[v])
    <3>1. /\ e.change = "SetupStatic" => l = "none"
          /\ e.change = "SetupDynamic" => l = "static"
          /\ e.change = "TeardownDynamic" => l = "full"
          /\ e.change = "TeardownStatic" => l = "static"
      BY <1>4, <2>3, FirstLevel DEF Apart
    <3>2. LevelOf(v, s)' = Becomes(LevelOf(v, s), e.change)
      BY <1>4, <2>3 DEF Apart
    <3>3. e.change \in Changes
      BY <1>1 DEF EntrySet
    <3>4. Changes = {"SetupStatic", "SetupDynamic", "SetupPlayer", "TeardownDynamic", "TeardownStatic"}
      BY DEF Changes, Setups, Teardowns
    <3>5. e.change # "SetupPlayer" => e.change \in Moves(l, c)
      <4>1. Has(queue, e.user, e.pos, e.change)
        BY <1>1 DEF Has
      <4> QED
        BY <1>4, <2>3, <3>3, <4>1 DEF Consistent, Leading, Apart
    <3>6. k = e.change => ~Has(queue', v, s, k)
      <4> SUFFICES ASSUME k = e.change, NEW x \in Range(queue'), x.user = v, x.pos = s, x.change = k
                   PROVE FALSE
        BY DEF Has
      <4>1. x \in EntrySet
        BY <1>2, LenProperties DEF Range
      <4>2. x \in Kind(v, s, k) /\ e \in Kind(v, s, k)
        BY <1>1, <2>3, <4>1 DEF Kind
      <4>3. Single(queue, Kind(v, s, k))
        BY <1>4 DEF Consistent, Once, Apart
      <4> QED
        BY <1>1, <4>2, <4>3
    <3>7. k # e.change => (Has(queue', v, s, k) <=> Has(queue, v, s, k))
      BY <1>1
    <3> HIDE DEF l, c, e
    <3>8. k \in Moves(Becomes(l, e.change), c) <=> k \in Moves(l, c) /\ k # e.change
      BY <3>1, <3>3, <3>4, <3>5 DEF Moves, Becomes
    <3> QED
      BY <2>1, <3>2, <3>6, <3>7, <3>8 DEF l, c
  <2> QED
    BY <2>2, <2>3
<1>5. Leading'
  BY <1>4 DEF Leading, Apart
<1> QED
  BY <1>3, <1>5

\* Where no changes crossed, the first one finds what it unwraps.
LEMMA Found ==
  ASSUME Types, Consistent, queue # <<>>, Pop, crossed = {}
  PROVE Finds(Head(queue))
<1> DEFINE e == Head(queue)
<1>1. e \in EntrySet
  BY Taken
<1>2. /\ e.change = "SetupDynamic" => LevelOf(e.user, e.pos) = "static"
      /\ e.change = "TeardownDynamic" => LevelOf(e.user, e.pos) = "full"
      /\ e.change = "TeardownStatic" => LevelOf(e.user, e.pos) = "static"
      /\ e.change = "SetupPlayer" => LevelOf(e.user, e.pos) # "none"
  BY FirstLevel DEF Apart
<1> HIDE DEF e
<1>3. e.user \in Users /\ e.pos \in Region /\ e.change \in Changes
  BY <1>1 DEF EntrySet
<1>4. e.change = "TeardownDynamic" => regions[e.pos].full > 0
  <2> SUFFICES ASSUME e.change = "TeardownDynamic" PROVE regions[e.pos].full > 0
    OBVIOUS
  <2>1. e.pos \in DOMAIN regions
    BY <1>2 DEF LevelOf
  <2>2. Counts(e.pos)
    BY <1>3 DEF Consistent, Counting, Apart
  <2>3. regions[e.pos].full = Cardinality(FullIn(e.pos))
    BY <2>1, <2>2 DEF Counts, FullIn
  <2>4. e.user \in FullIn(e.pos)
    BY <1>2, <1>3 DEF FullIn
  <2> QED
    BY <1>3, <2>3, <2>4, FullInRegion
<1>5. LevelOf(e.user, e.pos) # "none" => e.pos \in DOMAIN regions /\ e.user \in DOMAIN regions[e.pos].level
  BY DEF LevelOf
<1>6. Changes = {"SetupStatic", "SetupDynamic", "SetupPlayer", "TeardownDynamic", "TeardownStatic"}
  BY DEF Changes, Setups, Teardowns
<1>7. Finds(e)
  BY <1>2, <1>3, <1>4, <1>5, <1>6 DEF Finds
<1> QED
  BY <1>7 DEF e

\* Regions are counted on when the one a change is for is.
LEMMA CountedOn ==
  ASSUME Consistent, NEW u, NEW r \in Region, Elsewhere(u, r), crossed' = crossed,
         (\A v \in Users: Apart(v, r)) => Counts(r)'
  PROVE Counting'
<1> SUFFICES ASSUME NEW s \in Region, \A v \in Users: <<v, s>> \notin crossed PROVE Counts(s)'
  BY DEF Counting, Apart
<1>1. CASE s = r
  BY <1>1 DEF Apart
<1>2. CASE s # r
  <2>1. Counts(s)
    BY DEF Consistent, Counting, Apart
  <2>2. \A v: LevelOf(v, s)' = LevelOf(v, s)
    BY <1>2 DEF Elsewhere
  <2>3. FullIn(s)' = FullIn(s)
    BY <2>2 DEF FullIn
  <2>4. /\ s \in DOMAIN regions' <=> s \in DOMAIN regions
        /\ s \in DOMAIN regions => regions'[s].full = regions[s].full
        /\ s \in npcs' <=> s \in npcs
    BY <1>2 DEF Elsewhere
  <2>5. /\ s \in DOMAIN regions <=> \E v \in Users : LevelOf(v, s) # "none"
        /\ s \in DOMAIN regions => regions[s].full = Cardinality(FullIn(s))
        /\ s \in npcs <=> FullIn(s) # {}
    BY <2>1 DEF Counts, FullIn
  <2>6. /\ s \in DOMAIN regions' <=> \E v \in Users : LevelOf(v, s)' # "none"
        /\ s \in DOMAIN regions' => regions'[s].full = Cardinality(FullIn(s)')
        /\ s \in npcs' <=> FullIn(s)' # {}
    BY <2>2, <2>3, <2>4, <2>5
  <2> QED
    BY <2>6 DEF Counts, FullIn
<1> QED
  BY <1>1, <1>2

\* What the first change does when it finds what it unwraps.
LEMMA Applied ==
  ASSUME Types, Consistent, queue # <<>>, Pop, Finds(Head(queue)), Change(Head(queue)),
         NEW u \in Users, NEW r \in Region, NEW c \in Changes,
         Head(queue).user = u, Head(queue).pos = r, Head(queue).change = c
  PROVE /\ Elsewhere(u, r)
        /\ Apart(u, r) => LevelOf(u, r)' = Becomes(LevelOf(u, r), c)
        /\ (\A v \in Users: Apart(v, r)) => Counts(r)'
        /\ IF c = "SetupPlayer" THEN pc' = With(pc, u, [at |-> place[u], target |-> place[u]])
                                ELSE pc' = pc
<1> DEFINE l == LevelOf(u, r)
<1>1. Apart(u, r) => /\ c = "SetupStatic" => l = "none"
                     /\ c = "SetupDynamic" => l = "static"
                     /\ c = "TeardownDynamic" => l = "full"
                     /\ c = "TeardownStatic" => l = "static"
  BY FirstLevel
<1>2. (\A v \in Users: Apart(v, r)) => Apart(u, r) /\ Counts(r)
  BY DEF Consistent, Counting
<1>3. c \in {"SetupDynamic", "TeardownDynamic", "TeardownStatic"}
        => /\ r \in DOMAIN regions /\ u \in DOMAIN regions[r].level
           /\ c = "TeardownDynamic" => regions[r].full > 0
  BY DEF Finds
<1>4. CASE c = "SetupStatic"
  <2>1. SetupStatic(u, r)
    BY <1>4 DEF Change
  <2>2. Elsewhere(u, r) /\ LevelOf(u, r)' = "static" /\ pc' = pc /\ (Counts(r) /\ l = "none" => Counts(r)')
    BY <2>1, SetupStaticEffect
  <2>3. Becomes(l, c) = "static"
    BY <1>4 DEF Becomes
  <2> QED
    BY <1>1, <1>2, <1>4, <2>2, <2>3
<1>5. CASE c = "SetupDynamic"
  <2>1. SetupDynamic(u, r)
    BY <1>5 DEF Change
  <2>2. Elsewhere(u, r) /\ LevelOf(u, r)' = "full" /\ pc' = pc /\ (Counts(r) /\ l # "full" => Counts(r)')
    BY <1>3, <1>5, <2>1, SetupDynamicEffect
  <2>3. Becomes(l, c) = "full"
    BY <1>5 DEF Becomes
  <2> QED
    BY <1>1, <1>2, <1>5, <2>2, <2>3
<1>6. CASE c = "TeardownDynamic"
  <2>1. TeardownDynamic(u, r)
    BY <1>6 DEF Change
  <2>2. Elsewhere(u, r) /\ LevelOf(u, r)' = "static" /\ pc' = pc /\ (Counts(r) /\ l = "full" => Counts(r)')
    BY <1>3, <1>6, <2>1, TeardownDynamicEffect
  <2>3. Becomes(l, c) = "static"
    BY <1>6 DEF Becomes
  <2> QED
    BY <1>1, <1>2, <1>6, <2>2, <2>3
<1>7. CASE c = "TeardownStatic"
  <2>1. TeardownStatic(u, r)
    BY <1>7 DEF Change
  <2>2. Elsewhere(u, r) /\ LevelOf(u, r)' = "none" /\ pc' = pc /\ (Counts(r) /\ l = "static" => Counts(r)')
    BY <1>3, <1>7, <2>1, TeardownStaticEffect
  <2>3. Becomes(l, c) = "none"
    BY <1>7 DEF Becomes
  <2> QED
    BY <1>1, <1>2, <1>7, <2>2, <2>3
<1>8. CASE c = "SetupPlayer"
  <2>1. /\ pc' = With(pc, u, [at |-> place[u], target |-> place[u]])
        /\ regions' = regions /\ npcs' = npcs
    BY <1>8 DEF Change, SetupPlayer
  <2>2. \A v, s: LevelOf(v, s)' = LevelOf(v, s)
    BY <2>1 DEF LevelOf
  <2>3. Elsewhere(u, r)
    BY <2>1, <2>2 DEF Elsewhere, Types
  <2>4. Counts(r) => Counts(r)'
    BY <2>1, <2>2 DEF Counts
  <2>5. Becomes(l, c) = l
    BY <1>8 DEF Becomes
  <2> QED
    BY <1>2, <1>8, <2>1, <2>2, <2>3, <2>4, <2>5
<1>9. Changes = {"SetupStatic", "SetupDynamic", "SetupPlayer", "TeardownDynamic", "TeardownStatic"}
  BY DEF Changes, Setups, Teardowns
<1> QED
  BY <1>4, <1>5, <1>6, <1>7, <1>8, <1>9

LEMMA ApplyStep == ASSUME RegionsInv, Apply PROVE RegionsInv'
<1> DEFINE e == Head(queue)
<1>1. /\ panicked = "no" /\ queue # <<>> /\ Pop /\ ticking' = "more"
      /\ center' = center /\ place' = place /\ requests' = requests /\ crossed' = crossed
      /\ IF Finds(e) THEN Change(e) /\ panicked' = panicked
                     ELSE panicked' = "apply" /\ regions' = regions /\ npcs' = npcs /\ pc' = pc
  BY DEF Apply
<1>2. Types /\ Consistent
  BY <1>1 DEF RegionsInv
<1>3. /\ e \in EntrySet /\ e \in Range(queue)
      /\ queue' \in Seq(EntrySet) /\ Ordered(queue', First) /\ Crossing(queue') \subseteq crossed
      /\ \A v, s, c: Has(queue', v, s, c) => Has(queue, v, s, c)
      /\ \A K: Single(queue, K) /\ e \in K => Range(queue') \cap K = {}
  BY <1>1, <1>2, Taken
<1>4. CASE ~Finds(e)
  <2>1. panicked' = "apply" /\ regions' = regions /\ npcs' = npcs /\ pc' = pc
    BY <1>1, <1>4
  <2>2. crossed # {}
    BY <1>1, <1>2, <1>4, Found
  <2>3. Types'
    BY <1>1, <1>2, <1>3, <2>1 DEF Types
  <2> QED
    BY <1>1, <2>1, <2>2, <2>3 DEF RegionsInv, AppliedWhereFound
<1>5. CASE Finds(e)
  <2>1. Change(e) /\ panicked' = "no"
    BY <1>1, <1>5
  <2>2. PICK u \in Users, r \in Region, c \in Changes: e.user = u /\ e.pos = r /\ e.change = c
    BY <1>3 DEF EntrySet
  <2>3. /\ Elsewhere(u, r)
        /\ Apart(u, r) => LevelOf(u, r)' = Becomes(LevelOf(u, r), c)
        /\ (\A v \in Users: Apart(v, r)) => Counts(r)'
        /\ IF c = "SetupPlayer" THEN pc' = With(pc, u, [at |-> place[u], target |-> place[u]])
                                ELSE pc' = pc
    BY <1>1, <1>2, <1>5, <2>1, <2>2, Applied
  <2>4. Counting'
    BY <1>1, <1>2, <2>3, CountedOn
  <2>5. \A v, s: v # u \/ s # r => LevelOf(v, s)' = LevelOf(v, s)
    BY <2>3 DEF Elsewhere
  <2>6. Leading' /\ Once'
    BY <1>1, <1>2, <2>2, <2>3, <2>5, OneLess
  <2>7. /\ DOMAIN pc' = IF c = "SetupPlayer" THEN DOMAIN pc \cup {u} ELSE DOMAIN pc
        /\ \A v \in DOMAIN pc': pc'[v] \in [at: Cell, target: Cell]
    <3>1. place[u] \in Cell
      BY <1>2 DEF Types
    <3>2. \A v \in DOMAIN pc: pc[v] \in [at: Cell, target: Cell]
      BY <1>2 DEF Types
    <3>3. CASE c = "SetupPlayer"
      BY <2>3, <3>1, <3>2, <3>3 DEF With
    <3>4. CASE c # "SetupPlayer"
      BY <2>3, <3>2, <3>4
    <3> QED
      BY <3>3, <3>4
  <2>8. Types'
    <3>1. /\ DOMAIN regions' \subseteq Region /\ \A s \in DOMAIN regions': IsRegion(regions'[s])
          /\ npcs' \subseteq Region
      BY <2>3 DEF Elsewhere
    <3>2. DOMAIN pc' \subseteq Users
      BY <1>2, <2>7 DEF Types
    <3>3. center' \in [Users -> Centers] /\ place' \in [Users -> Cell]
      BY <1>1, <1>2 DEF Types
    <3>4. requests' \in 0 .. MaxRequests /\ crossed' \subseteq Users \X Region
      BY <1>1, <1>2 DEF Types
    <3> QED
      BY <1>1, <1>3, <2>1, <2>7, <3>1, <3>2, <3>3, <3>4 DEF Types
  <2>9. Arriving'
    <3> HIDE DEF e
    <3>1. e.change = "SetupPlayer" => center[u] # None
      <4>1. e.change = "SetupPlayer" => Has(queue, u, r, "SetupPlayer")
        BY <1>3, <2>2 DEF Has
      <4> QED
        BY <1>2, <4>1 DEF Consistent, Arriving
    <3>2. \A v \in DOMAIN pc': center'[v] # None
      BY <1>1, <1>2, <2>2, <2>7, <3>1 DEF Consistent, Arriving
    <3>3. ASSUME NEW v \in Users, NEW s \in Region, Has(queue', v, s, "SetupPlayer")
          PROVE center[v] # None /\ v \notin DOMAIN pc' /\ (<<v, s>> \in crossed \/ Level(s, center[v]) # "none")
      <4>1. Has(queue, v, s, "SetupPlayer")
        BY <1>3, <3>3
      <4>2. center[v] # None /\ v \notin DOMAIN pc /\ (<<v, s>> \in crossed \/ Level(s, center[v]) # "none")
        BY <1>2, <4>1 DEF Consistent, Arriving, Apart
      <4>3. ~(c = "SetupPlayer" /\ v = u)
        <5> SUFFICES ASSUME c = "SetupPlayer", v = u PROVE FALSE
          OBVIOUS
        <5>1. Single(queue, PlayerOf(u))
          BY <1>2 DEF Consistent, Once
        <5>2. e \in PlayerOf(u)
          BY <1>3, <2>2 DEF PlayerOf
        <5>3. PICK x \in Range(queue'): x.user = u /\ x.change = "SetupPlayer"
          BY <3>3 DEF Has
        <5>4. x \in PlayerOf(u)
          BY <1>3, <5>3, LenProperties DEF PlayerOf, Range
        <5> QED
          BY <1>3, <5>1, <5>2, <5>4
      <4> QED
        BY <2>7, <4>2, <4>3
    <3> QED
      BY <1>1, <3>2, <3>3 DEF Arriving, Apart
  <2>10. AppliedWhereFound'
    BY <2>1 DEF AppliedWhereFound
  <2> QED
    BY <1>1, <1>3, <2>4, <2>6, <2>8, <2>9, <2>10 DEF RegionsInv, Consistent
<1> QED
  BY <1>4, <1>5

LEMMA RegionsStep == RegionsInv /\ [Next]_vars => RegionsInv'
<1> SUFFICES ASSUME RegionsInv, [Next]_vars PROVE RegionsInv'
  OBVIOUS
<1>1. CASE UNCHANGED vars
  <2>1. /\ center' = center /\ pc' = pc /\ place' = place /\ queue' = queue /\ regions' = regions
        /\ npcs' = npcs /\ ticking' = ticking /\ panicked' = panicked /\ requests' = requests
        /\ crossed' = crossed
    BY <1>1 DEF vars
  <2>2. \A v, s: LevelOf(v, s)' = LevelOf(v, s)
    BY <2>1 DEF LevelOf
  <2>3. Types' /\ AppliedWhereFound'
    BY <2>1 DEF RegionsInv, Types, AppliedWhereFound
  <2>4. ASSUME Consistent PROVE Consistent'
    <3>1. Leading' /\ Once' /\ Arriving'
      BY <2>1, <2>2, <2>4 DEF Consistent, Leading, Once, Arriving, Apart
    <3>2. Counting'
      BY <2>1, <2>2, <2>4 DEF Consistent, Counting, Counts, Apart
    <3>3. Ordered(queue', First) /\ Crossing(queue') \subseteq crossed'
      BY <2>1, <2>4 DEF Consistent
    <3> QED
      BY <3>1, <3>2, <3>3 DEF Consistent
  <2> QED
    BY <2>1, <2>3, <2>4 DEF RegionsInv
<1>2. CASE \E u \in Users : Enter(u)
  BY <1>2, EnterStep
<1>3. CASE \E u \in Users : Leave(u)
  BY <1>3, LeaveStep
<1>4. CASE \E u \in Users : \E cell \in Cell : UpdateSelf(u, cell)
  BY <1>4, UpdateSelfStep
<1>5. CASE TickBegin
  BY <1>5, TickBeginStep
<1>6. CASE TickEnd
  BY <1>6, TickEndStep
<1>7. CASE Apply
  BY <1>7, ApplyStep
<1> QED
  BY <1>1, <1>2, <1>3, <1>4, <1>5, <1>6, <1>7 DEF Next, Tick

\* RegionsInv is inductive: it holds at the start, and every request and every
\* step of a tick preserves it (region.rs, observer.rs and what drives them).
THEOREM RegionsInvariant == Spec => []RegionsInv
<1>1. Init => RegionsInv
  BY RegionsInitially
<1>2. RegionsInv /\ [Next]_vars => RegionsInv'
  BY RegionsStep
<1> QED
  BY <1>1, <1>2, PTL DEF Spec

\* However many users enter, leave and walk between two ticks, wherever the
\* heap puts their changes and wherever the time of a tick runs out: the changes
\* queued for a user in a region lead from the level it has there to the level
\* its center asks for, unless opposite changes of that pair met in the queue
\* (region.rs update and process).
THEOREM QueueLeadsToCenter == Spec => []LeadsToCenter
<1>1. RegionsInv => LeadsToCenter
  <2> SUFFICES ASSUME RegionsInv, panicked = "no", NEW u \in Users, NEW r \in Region,
                      <<u, r>> \notin crossed
               PROVE Pending(u, r) = Range(Update(LevelOf(u, r), Level(r, center[u])))
    BY DEF LeadsToCenter
  <2> DEFINE l == LevelOf(u, r)
             c == Level(r, center[u])
  <2>1. Types /\ Consistent
    BY DEF RegionsInv
  <2>2. Range(Update(l, c)) = Moves(l, c)
    BY Updates
  <2>3. \A k \in Changes \ {"SetupPlayer"}: Has(queue, u, r, k) <=> k \in Moves(l, c)
    BY <2>1 DEF Consistent, Leading, Apart
  <2>4. "SetupPlayer" \notin Moves(l, c) /\ Moves(l, c) \subseteq Changes
    BY DEF Moves
  <2>5. \A e \in Range(queue): e.change \in Changes
    <3>1. queue \in Seq(EntrySet)
      BY <2>1 DEF Types
    <3>2. \A i \in DOMAIN queue: queue[i] \in EntrySet
      BY <3>1, LenProperties
    <3>3. \A e \in Range(queue): e \in EntrySet
      BY <3>2 DEF Range
    <3> QED
      BY <3>3 DEF EntrySet
  <2>6. \A k: k \in Pending(u, r) <=> k # "SetupPlayer" /\ Has(queue, u, r, k)
    BY DEF Pending, Has
  <2>7. \A k: Has(queue, u, r, k) => k \in Changes
    BY <2>5 DEF Has
  <2> HIDE DEF l, c
  <2>8. \A k: k \in Pending(u, r) <=> k \in Moves(l, c)
    BY <2>3, <2>4, <2>6, <2>7
  <2>9. Pending(u, r) = Moves(l, c)
    BY <2>8
  <2> QED
    BY <2>2, <2>9 DEF l, c
<1> QED
  BY <1>1, RegionsInvariant, PTL

\* Variables keep their types, and where no changes crossed a region is there
\* exactly while someone observes it, its count is that of its full observers
\* and its NPCs have bodies exactly while there are any (region.rs apply).
THEOREM RegionsCounted == Spec => []Counted
<1>1. RegionsInv => Counted
  <2> SUFFICES ASSUME RegionsInv PROVE Counted
    OBVIOUS
  <2>1. Types
    BY DEF RegionsInv
  <2>2. TypeOK
    <3>1. \A u \in DOMAIN pc : {pc[u].at, pc[u].target} \subseteq Cell
      BY <2>1 DEF Types
    <3>2. \A r \in DOMAIN regions : /\ DOMAIN regions[r].level \subseteq Users
                                    /\ Range(regions[r].level) \subseteq {"static", "full"}
                                    /\ regions[r].full \in Nat
      <4> TAKE r \in DOMAIN regions
      <4>1. IsRegion(regions[r])
        BY <2>1 DEF Types
      <4> QED
        BY <4>1 DEF IsRegion, Range
    <3>3. \A i \in DOMAIN queue : queue[i].user \in Users /\ queue[i].pos \in Region
      <4>1. queue \in Seq(EntrySet)
        BY <2>1 DEF Types
      <4>2. \A i \in DOMAIN queue: queue[i] \in EntrySet
        BY <4>1, LenProperties
      <4> QED
        BY <4>2 DEF EntrySet
    <3> QED
      BY <2>1, <3>1, <3>2, <3>3 DEF TypeOK, Types, Centers
  <2>3. ASSUME panicked = "no", NEW r \in Region, \A u \in Users : <<u, r>> \notin crossed
        PROVE Counts(r)
    BY <2>3 DEF RegionsInv, Consistent, Counting, Apart
  <2> QED
    BY <2>2, <2>3 DEF Counted, Counts
<1> QED
  BY <1>1, RegionsInvariant, PTL

\* The unwraps of RegionManager::apply fail only after opposite changes of a
\* user in a region have met in the queue.
THEOREM ChangesAreFound == Spec => []AppliedWhereFound
<1>1. RegionsInv => AppliedWhereFound
  BY DEF RegionsInv
<1> QED
  BY <1>1, RegionsInvariant, PTL

-----------------------------------------------------------------------------
(* Where characters stand. *)

\* A region that is there, and stays while the setup of the user is queued.
Held(u, r) ==
  Apart(u, r) => /\ r \in DOMAIN regions
                 /\ LevelOf(u, r) # "none" \/ Has(queue, u, r, "SetupStatic")

\* A character goes to a region its user is to see, and stands in one that is
\* held; while a tick applies changes it stands where it goes to.  One that is
\* to come comes to the region of its place.
Standing ==
  /\ \A u \in DOMAIN pc, r \in Region:
       /\ r = RegionOf(pc[u].target) /\ Apart(u, r) => Level(r, center[u]) # "none"
       /\ r = RegionOf(pc[u].at) => Held(u, r)
  /\ \A u \in DOMAIN pc: ticking # "no" => pc[u].at = pc[u].target
  /\ \A u \in Users, r \in Region: Has(queue, u, r, "SetupPlayer") => r = RegionOf(place[u])

StandingInv == MovesWhereFound /\ (panicked = "no" => Standing)

\* A region its user is to see, and does not, has its setup queued.
LEMMA ToBeSeen ==
  ASSUME Consistent, NEW u \in Users, NEW r \in Region, Apart(u, r),
         Level(r, center[u]) # "none", LevelOf(u, r) = "none"
  PROVE Has(queue, u, r, "SetupStatic")
<1>1. "SetupStatic" \in Changes \ {"SetupPlayer"}
  BY DEF Changes, Setups
<1>2. "SetupStatic" \in Moves(LevelOf(u, r), Level(r, center[u]))
  BY <1>1 DEF Moves
<1> QED
  BY <1>1, <1>2 DEF Consistent, Leading

\* Where characters go is found, for regions that are held.
LEMMA MovesFollow ==
  ASSUME Types, Consistent, Standing PROVE MovesWhereFound
<1> SUFFICES ASSUME NEW u \in DOMAIN pc
             PROVE LET at == RegionOf(pc[u].at)
                       to == RegionOf(pc[u].target)
                   IN /\ at \in DOMAIN regions \/ <<u, at>> \in crossed
                      /\ to \in DOMAIN regions \/ <<u, to>> \in crossed \/ "SetupStatic" \in Pending(u, to)
  BY DEF MovesWhereFound
<1> DEFINE at == RegionOf(pc[u].at)
           to == RegionOf(pc[u].target)
<1>1. u \in Users /\ at \in Region /\ to \in Region
  BY Places DEF Types
<1>2. at \in DOMAIN regions \/ <<u, at>> \in crossed
  BY <1>1 DEF Standing, Held, Apart
<1>3. Apart(u, to) => Level(to, center[u]) # "none"
  BY <1>1 DEF Standing
<1> HIDE DEF at, to
<1>4. ASSUME to \notin DOMAIN regions, Apart(u, to) PROVE "SetupStatic" \in Pending(u, to)
  <2>1. LevelOf(u, to) = "none"
    BY <1>4 DEF LevelOf
  <2>2. Has(queue, u, to, "SetupStatic")
    BY <1>1, <1>3, <1>4, <2>1, ToBeSeen
  <2> QED
    BY <2>2 DEF Has, Pending
<1> QED
  BY <1>2, <1>4 DEF Apart, at, to

LEMMA MovesFollowNext == Types' /\ Consistent' /\ Standing' => MovesWhereFound'
<1>1. Types /\ Consistent /\ Standing => MovesWhereFound
  BY MovesFollow
<1> QED
  BY <1>1, PTL

\* Requests leave regions alone, and only add to the queue.
LEMMA HeldOn ==
  ASSUME regions' = regions, crossed \subseteq crossed', Range(queue) \subseteq Range(queue'),
         NEW u, NEW r, Held(u, r)
  PROVE Held(u, r)'
<1>1. LevelOf(u, r)' = LevelOf(u, r)
  BY DEF LevelOf
<1>2. Has(queue, u, r, "SetupStatic") => Has(queue', u, r, "SetupStatic")
  BY DEF Has
<1> QED
  BY <1>1, <1>2 DEF Held, Apart

LEMMA EnterStands ==
  ASSUME RegionsInv, Standing, NEW u \in Users, Enter(u) PROVE Standing'
<1> DEFINE c == RegionOf(place[u])
           es == Append(Entries(u, Around(c), {}, None, c, c), Entry(c, c, u, "SetupPlayer"))
<1>1. /\ center[u] = None /\ Ready /\ ticking' = ticking
      /\ regions' = regions /\ npcs' = npcs /\ center' = [center EXCEPT ![u] = c]
      /\ Enqueue(es) /\ pc' = pc /\ place' = place /\ panicked' = panicked
  BY DEF Enter, Request
<1>2. Types /\ Consistent
  BY <1>1 DEF RegionsInv, Ready
<1>3. c \in Region /\ c \in Centers
  BY <1>2, Places DEF Types, Centers
<1>4. \A v \in Users: center'[v] = IF v = u THEN c ELSE center[v]
  BY <1>1, <1>2 DEF Types
<1> HIDE DEF c
<1>5. /\ Brings(es, u, None, c) /\ Single(es, PlayerOf(u))
      /\ \A r \in Region: Has(es, u, r, "SetupPlayer") <=> r = c
  BY <1>3, EnterBrings
<1> HIDE DEF es
<1>6. Range(queue') = Range(queue) \cup Range(es) /\ crossed \subseteq crossed'
  BY <1>1, <1>2, <1>3, <1>5, Enqueued
<1>7. ASSUME NEW v \in DOMAIN pc', NEW r \in Region
      PROVE /\ r = RegionOf(pc'[v].target) /\ <<v, r>> \notin crossed' => Level(r, center'[v]) # "none"
            /\ r = RegionOf(pc'[v].at) => Held(v, r)'
  <2>1. v \in DOMAIN pc /\ v # u /\ v \in Users
    BY <1>1, <1>2 DEF Types, Consistent, Arriving
  <2>2. r = RegionOf(pc[v].at) => Held(v, r)'
    BY <1>1, <1>6, <2>1, HeldOn DEF Standing
  <2> QED
    BY <1>1, <1>4, <1>6, <2>1, <2>2 DEF Standing, Apart
<1>8. ASSUME NEW v \in Users, NEW r \in Region, Has(queue', v, r, "SetupPlayer")
      PROVE r = RegionOf(place'[v])
  <2>1. Has(queue, v, r, "SetupPlayer") \/ Has(es, v, r, "SetupPlayer")
    BY <1>6, <1>8 DEF Has
  <2>2. Has(es, v, r, "SetupPlayer") => v = u
    BY <1>5 DEF Brings, Has
  <2> QED
    BY <1>1, <1>5, <2>1, <2>2 DEF Standing, c
<1> QED
  BY <1>1, <1>7, <1>8 DEF Standing, Apart

\* No request but Enter brings a player.
LEMMA NoPlayer ==
  ASSUME NEW es, NEW u, NEW from, NEW to, Brings(es, u, from, to), Range(es) \cap PlayerOf(u) = {}
  PROVE \A v, r: ~Has(es, v, r, "SetupPlayer")
<1> SUFFICES ASSUME NEW e \in Range(es), e.change = "SetupPlayer" PROVE FALSE
  BY DEF Has
<1>1. e \in EntrySet
  BY LenProperties DEF Brings, Range
<1>2. e.user = u
  BY DEF Brings
<1> QED
  BY <1>1, <1>2 DEF PlayerOf

LEMMA LeaveStands ==
  ASSUME RegionsInv, Standing, NEW u \in Users, Leave(u), panicked' = "no" PROVE Standing'
<1> DEFINE c == center[u]
           es == Entries(u, Around(c), {}, c, None, c)
<1>1. /\ c # None /\ Ready /\ ticking' = ticking
      /\ regions' = regions /\ center' = [center EXCEPT ![u] = None]
      /\ u \in DOMAIN pc /\ place' = [place EXCEPT ![u] = pc[u].at] /\ pc' = Without(pc, u)
      /\ Enqueue(es)
  BY DEF Leave, Request
<1>2. Types /\ Consistent /\ npcs' = npcs
  BY <1>1 DEF RegionsInv, Ready, Leave, Request
<1>3. c \in Region /\ c \in Centers /\ None \in Centers
  BY <1>1, <1>2 DEF Types, Centers
<1>4. /\ \A v \in Users: center'[v] = IF v = u THEN None ELSE center[v]
      /\ \A v \in Users \ {u}: place'[v] = place[v]
  BY <1>1, <1>2 DEF Types
<1>5. Brings(es, u, c, None) /\ Single(es, PlayerOf(u)) /\ Range(es) \cap PlayerOf(u) = {}
  BY <1>3, LeaveBrings
<1> HIDE DEF es
<1>6. Range(queue') = Range(queue) \cup Range(es) /\ crossed \subseteq crossed'
  BY <1>1, <1>2, <1>3, <1>5, Enqueued
<1>7. DOMAIN pc' = DOMAIN pc \ {u} /\ \A v \in DOMAIN pc': pc'[v] = pc[v]
  BY <1>1 DEF Without
<1>8. ASSUME NEW v \in DOMAIN pc', NEW r \in Region
      PROVE /\ r = RegionOf(pc'[v].target) /\ <<v, r>> \notin crossed' => Level(r, center'[v]) # "none"
            /\ r = RegionOf(pc'[v].at) => Held(v, r)'
            /\ ticking' # "no" => pc'[v].at = pc'[v].target
  <2>1. v \in DOMAIN pc /\ v # u /\ v \in Users /\ pc'[v] = pc[v]
    BY <1>2, <1>7 DEF Types
  <2>2. r = RegionOf(pc[v].at) => Held(v, r)'
    BY <1>1, <1>6, <2>1, HeldOn DEF Standing
  <2> QED
    BY <1>1, <1>4, <1>6, <2>1, <2>2 DEF Standing, Apart
<1>9. ASSUME NEW v \in Users, NEW r \in Region, Has(queue', v, r, "SetupPlayer")
      PROVE r = RegionOf(place'[v])
  <2>1. ~Has(es, v, r, "SetupPlayer")
    BY <1>5, NoPlayer
  <2>2. Has(queue, v, r, "SetupPlayer")
    BY <1>6, <1>9, <2>1 DEF Has
  <2>3. v # u
    BY <1>1, <1>2, <2>2 DEF Consistent, Arriving
  <2> QED
    BY <1>4, <2>2, <2>3 DEF Standing
<1>10. ASSUME NEW v \in DOMAIN pc', ticking' # "no" PROVE pc'[v].at = pc'[v].target
  BY <1>1, <1>7, <1>10 DEF Standing
<1> QED
  BY <1>8, <1>9, <1>10 DEF Standing, Apart

\* A position near a center is in a region that it sees.
LEMMA NearIsSeen ==
  ASSUME StaticDistance > 0, NEW cell \in Cell, NEW c \in Region, NearRegion(cell, c)
  PROVE Level(RegionOf(cell), c) # "none"
<1>1. RegionOf(cell) \in Region /\ c # None /\ c \in Centers
  BY Places, Nowhere DEF Centers
<1>2. cell \in Int /\ c \in Int /\ cell >= 2 * c - 1 /\ cell <= 2 * c + 2
  BY DistanceAssumption DEF Cell, Region, NearRegion
<1>3. RegionOf(cell) \in {c - 1, c, c + 1}
  BY <1>2 DEF RegionOf
<1>4. Distance(RegionOf(cell), c) \in {0, 1}
  BY <1>2, <1>3 DEF Distance
<1>5. Distance(RegionOf(cell), c) <= StaticDistance
  BY <1>4, DistanceAssumption
<1> QED
  BY <1>1, <1>5 DEF Level, LevelAt

LEMMA UpdateSelfStands ==
  ASSUME StaticDistance > 0, RegionsInv, Standing, NEW u \in Users, NEW cell \in Cell,
         UpdateSelf(u, cell)
  PROVE Standing'
<1> DEFINE old == center[u]
           new == RegionOf(cell)
           es == Entries(u, Around(new), {}, old, new, new) \o
                 Entries(u, Around(old), {r \in Region : Level(r, new) # "none"}, old, new, old)
<1>1. /\ old # None /\ Ready /\ ticking' = ticking /\ ticking = "no"
      /\ regions' = regions /\ npcs' = npcs /\ place' = place
      /\ pc' = (IF u \in DOMAIN pc THEN [pc EXCEPT ![u].target = cell] ELSE pc)
  BY DEF UpdateSelf, Request, Ready
<1>2. Types /\ Consistent
  BY <1>1 DEF RegionsInv, Ready
<1>3. old \in Region /\ new \in Region /\ old \in Centers /\ new \in Centers
  BY <1>1, <1>2, Places DEF Types, Centers
<1>4. /\ DOMAIN pc' = DOMAIN pc
      /\ \A v \in DOMAIN pc: pc'[v].at = pc[v].at /\ pc'[v].target = IF v = u THEN cell ELSE pc[v].target
  BY <1>1, <1>2 DEF Types
<1>5. /\ Range(queue) \subseteq Range(queue') /\ crossed \subseteq crossed'
      /\ \A v, r: Has(queue', v, r, "SetupPlayer") => Has(queue, v, r, "SetupPlayer")
      /\ Level(new, center'[u]) # "none" /\ \A v \in Users \ {u}: center'[v] = center[v]
  <2>1. CASE NearRegion(cell, old)
    <3>1. center' = center /\ queue' = queue /\ crossed' = crossed
      BY <2>1 DEF UpdateSelf
    <3>2. Level(new, old) # "none"
      BY <1>3, <2>1, NearIsSeen
    <3> QED
      BY <3>1, <3>2
  <2>2. CASE ~NearRegion(cell, old)
    <3>1. center' = [center EXCEPT ![u] = new] /\ Enqueue(es)
      BY <2>2 DEF UpdateSelf
    <3>2. center'[u] = new /\ \A v \in Users \ {u}: center'[v] = center[v]
      BY <1>2, <3>1 DEF Types
    <3> HIDE DEF new
    <3>3. Brings(es, u, old, new) /\ Single(es, PlayerOf(u)) /\ Range(es) \cap PlayerOf(u) = {}
      BY <1>3, MoveBrings
    <3> HIDE DEF es
    <3>4. Range(queue') = Range(queue) \cup Range(es) /\ crossed \subseteq crossed'
      BY <1>1, <1>2, <1>3, <3>1, <3>3, Enqueued
    <3>5. \A v, r: ~Has(es, v, r, "SetupPlayer")
      BY <3>3, NoPlayer
    <3>6. Level(new, new) = "full" /\ "full" # "none"
      BY <1>3, Placement
    <3> QED
      BY <3>2, <3>4, <3>5, <3>6 DEF Has
  <2> QED
    BY <2>1, <2>2
<1> HIDE DEF new
<1>6. ASSUME NEW v \in DOMAIN pc, NEW r \in Region
      PROVE /\ r = RegionOf(pc'[v].target) /\ <<v, r>> \notin crossed' => Level(r, center'[v]) # "none"
            /\ r = RegionOf(pc'[v].at) => Held(v, r)'
  <2>1. v \in Users
    BY <1>2 DEF Types
  <2>2. r = RegionOf(pc'[v].at) => Held(v, r)'
    BY <1>1, <1>4, <1>5, HeldOn DEF Standing
  <2>3. CASE v = u
    BY <1>4, <1>5, <2>2, <2>3 DEF new
  <2>4. CASE v # u
    BY <1>4, <1>5, <2>1, <2>2, <2>4 DEF Standing, Apart
  <2> QED
    BY <2>3, <2>4
<1>7. \A v \in Users, r \in Region: Has(queue', v, r, "SetupPlayer") => r = RegionOf(place'[v])
  BY <1>1, <1>5 DEF Standing
<1> QED
  BY <1>1, <1>4, <1>6, <1>7 DEF Standing, Apart

LEMMA TickBeginStands ==
  ASSUME RegionsInv, StandingInv, TickBegin PROVE StandingInv'
<1>1. /\ Ready /\ center' = center /\ place' = place /\ queue' = queue
      /\ regions' = regions /\ crossed' = crossed
  BY DEF TickBegin
<1>2. Types /\ Consistent /\ Standing /\ MovesWhereFound /\ panicked = "no"
  BY <1>1 DEF RegionsInv, StandingInv, Ready
<1>3. RegionsInv'
  BY TickBeginStep
<1>4. CASE \A u \in Moving : {RegionOf(pc[u].at), RegionOf(pc[u].target)} \subseteq DOMAIN regions
  <2>1. /\ pc' = [u \in DOMAIN pc |-> [pc[u] EXCEPT !.at = pc[u].target]] /\ panicked' = panicked
    BY <1>4 DEF TickBegin
  <2>2. /\ DOMAIN pc' = DOMAIN pc
        /\ \A u \in DOMAIN pc: pc'[u].at = pc[u].target /\ pc'[u].target = pc[u].target
    BY <1>2, <2>1 DEF Types
  <2>3. ASSUME NEW u \in DOMAIN pc, NEW to \in Region, to = RegionOf(pc[u].target)
        PROVE Held(u, to)'
    <3>1. u \in Users
      BY <1>2 DEF Types
    <3>2. Apart(u, to) => to \in DOMAIN regions
      <4>1. CASE u \in Moving
        BY <1>4, <2>3, <4>1
      <4>2. CASE u \notin Moving
        <5>1. pc[u].at = pc[u].target
          BY <4>2 DEF Moving
        <5> QED
          BY <1>2, <2>3, <5>1 DEF Standing, Held
      <4> QED
        BY <4>1, <4>2
    <3>3. Apart(u, to) => Level(to, center[u]) # "none"
      BY <1>2, <2>3 DEF Standing
    <3>4. Held(u, to)
      BY <1>2, <3>1, <3>2, <3>3, ToBeSeen DEF Held
    <3> QED
      BY <1>1, <3>4, HeldOn
  <2>4. Standing'
    BY <1>1, <1>2, <2>2, <2>3 DEF Standing, Apart
  <2>5. Types' /\ Consistent'
    BY <1>2, <1>3, <2>1 DEF RegionsInv
  <2>6. MovesWhereFound'
    BY <2>4, <2>5, MovesFollowNext
  <2> QED
    BY <2>4, <2>6 DEF StandingInv
<1>5. CASE ~ \A u \in Moving : {RegionOf(pc[u].at), RegionOf(pc[u].target)} \subseteq DOMAIN regions
  <2>1. pc' = pc /\ panicked' = "update_pcs"
    BY <1>5 DEF TickBegin
  <2> QED
    BY <1>1, <1>2, <2>1 DEF StandingInv, MovesWhereFound, Pending
<1> QED
  BY <1>4, <1>5

\* A change takes no region from under a character.
LEMMA HeldThrough ==
  ASSUME Types, Consistent, Standing, ticking # "no", queue # <<>>, Pop,
         crossed' = crossed, Finds(Head(queue)), Change(Head(queue)),
         NEW v \in DOMAIN pc, NEW s \in Region, s = RegionOf(pc[v].at)
  PROVE Held(v, s)'
<1> DEFINE e == Head(queue)
<1>1. /\ e \in EntrySet /\ e \in Range(queue)
      /\ \A x, r, c: Has(queue, x, r, c) /\ (x # e.user \/ r # e.pos \/ c # e.change)
           => Has(queue', x, r, c)
      /\ e.change # "SetupStatic" => \A x, r: ~Has(queue, x, r, "SetupStatic")
  BY Taken
<1>2. v \in Users
  BY DEF Types
<1>3. Held(v, s) /\ (Apart(v, s) => Level(s, center[v]) # "none")
  BY DEF Standing
<1>4. SUFFICES ASSUME Apart(v, s)
               PROVE s \in DOMAIN regions' /\ (LevelOf(v, s)' # "none" \/ Has(queue', v, s, "SetupStatic"))
  BY DEF Held, Apart
<1>5. s \in DOMAIN regions /\ (LevelOf(v, s) # "none" \/ Has(queue, v, s, "SetupStatic"))
  BY <1>3, <1>4 DEF Held
<1>6. PICK u \in Users, r \in Region, c \in Changes: e.user = u /\ e.pos = r /\ e.change = c
  BY <1>1 DEF EntrySet
<1>7. /\ Elsewhere(u, r)
      /\ Apart(u, r) => LevelOf(u, r)' = Becomes(LevelOf(u, r), c)
  BY <1>6, Applied
<1>8. \A x, t: LevelOf(x, t)' # "none" => t \in DOMAIN regions'
  BY DEF LevelOf
<1>9. CASE v = u /\ s = r
  <2>1. c # "TeardownStatic"
    <3> SUFFICES ASSUME c = "TeardownStatic" PROVE FALSE
      OBVIOUS
    <3>1. Has(queue, v, s, "TeardownStatic")
      BY <1>1, <1>6, <1>9 DEF Has
    <3>2. c \in Changes \ {"SetupPlayer"}
      BY DEF Changes, Setups, Teardowns
    <3>3. "TeardownStatic" \in Moves(LevelOf(v, s), Level(s, center[v]))
      BY <1>2, <1>4, <3>1, <3>2 DEF Consistent, Leading
    <3> QED
      BY <1>3, <1>4, <3>3 DEF Moves
  <2>2. LevelOf(v, s)' = Becomes(LevelOf(v, s), c)
    BY <1>4, <1>7, <1>9
  <2>3. LevelOf(v, s) = "none" => c = "SetupStatic"
    BY <1>1, <1>5, <1>6
  <2>4. Changes = {"SetupStatic", "SetupDynamic", "SetupPlayer", "TeardownDynamic", "TeardownStatic"}
    BY DEF Changes, Setups, Teardowns
  <2>5. LevelOf(v, s)' # "none"
    BY <2>1, <2>2, <2>3, <2>4 DEF Becomes
  <2> QED
    BY <1>8, <2>5
<1>10. CASE v # u \/ s # r
  <2>1. LevelOf(v, s)' = LevelOf(v, s)
    BY <1>7, <1>10 DEF Elsewhere
  <2>2. CASE LevelOf(v, s) # "none"
    BY <1>8, <2>1, <2>2
  <2>3. CASE LevelOf(v, s) = "none"
    <3>1. Has(queue, v, s, "SetupStatic")
      BY <1>5, <2>3
    <3>2. c = "SetupStatic" /\ Has(queue', v, s, "SetupStatic")
      BY <1>1, <1>6, <1>10, <3>1
    <3>3. SetupStatic(u, r)
      BY <1>6, <3>2 DEF Change
    <3>4. DOMAIN regions' = DOMAIN regions \cup {r}
      BY <3>3 DEF SetupStatic, With
    <3> QED
      BY <1>5, <3>2, <3>4
  <2> QED
    BY <2>2, <2>3
<1> QED
  BY <1>9, <1>10

LEMMA ApplyStands ==
  ASSUME RegionsInv, Standing, Apply, panicked' = "no" PROVE Standing'
<1> DEFINE e == Head(queue)
<1>1. /\ panicked = "no" /\ queue # <<>> /\ Pop /\ ticking' = "more" /\ ticking # "no"
      /\ center' = center /\ place' = place /\ crossed' = crossed
      /\ Finds(e) /\ Change(e)
  BY DEF Apply
<1>2. Types /\ Consistent
  BY <1>1 DEF RegionsInv
<1>3. /\ e \in EntrySet /\ e \in Range(queue)
      /\ \A v, s, c: Has(queue', v, s, c) => Has(queue, v, s, c)
  BY <1>1, <1>2, Taken
<1>4. PICK u \in Users, r \in Region, c \in Changes: e.user = u /\ e.pos = r /\ e.change = c
  BY <1>3 DEF EntrySet
<1>5. /\ Elsewhere(u, r)
      /\ Apart(u, r) => LevelOf(u, r)' = Becomes(LevelOf(u, r), c)
      /\ IF c = "SetupPlayer" THEN pc' = With(pc, u, [at |-> place[u], target |-> place[u]])
                              ELSE pc' = pc
  BY <1>1, <1>2, <1>4, Applied
<1>6. \A v \in Users, s \in Region: Has(queue', v, s, "SetupPlayer") => s = RegionOf(place'[v])
  BY <1>1, <1>3 DEF Standing
<1>7. ASSUME NEW v \in DOMAIN pc, pc'[v] = pc[v], NEW s \in Region
      PROVE /\ s = RegionOf(pc'[v].target) /\ <<v, s>> \notin crossed' => Level(s, center'[v]) # "none"
            /\ s = RegionOf(pc'[v].at) => Held(v, s)'
            /\ pc'[v].at = pc'[v].target
  <2>1. s = RegionOf(pc[v].at) => Held(v, s)'
    BY <1>1, <1>2, HeldThrough
  <2> QED
    BY <1>1, <1>7, <2>1 DEF Standing, Apart
<1>8. CASE c # "SetupPlayer"
  BY <1>5, <1>6, <1>7, <1>8 DEF Standing, Apart
<1>9. CASE c = "SetupPlayer"
  <2>1. /\ DOMAIN pc' = DOMAIN pc \cup {u} /\ pc'[u].at = place[u] /\ pc'[u].target = place[u]
        /\ \A v \in DOMAIN pc: v # u => pc'[v] = pc[v]
    BY <1>5, <1>9 DEF With
  <2>2. Has(queue, u, r, "SetupPlayer")
    BY <1>3, <1>4, <1>9 DEF Has
  <2>3. r = RegionOf(place[u]) /\ u \notin DOMAIN pc /\ (Apart(u, r) => Level(r, center[u]) # "none")
    BY <1>2, <2>2 DEF Standing, Consistent, Arriving
  <2>4. Apart(u, r) => LevelOf(u, r) # "none"
    BY <1>1, <1>2, <1>4, <1>9, FirstLevel
  <2>5. Apart(u, r) => LevelOf(u, r)' # "none"
    BY <1>5, <1>9, <2>4 DEF Becomes
  <2>6. Held(u, r)'
    BY <1>1, <2>5 DEF Held, Apart, LevelOf
  <2>7. ASSUME NEW v \in DOMAIN pc', NEW s \in Region
        PROVE /\ s = RegionOf(pc'[v].target) /\ <<v, s>> \notin crossed' => Level(s, center'[v]) # "none"
              /\ s = RegionOf(pc'[v].at) => Held(v, s)'
              /\ pc'[v].at = pc'[v].target
    <3>1. CASE v = u
      BY <1>1, <2>1, <2>3, <2>6, <3>1 DEF Apart
    <3>2. CASE v # u
      BY <1>7, <2>1, <3>2
    <3> QED
      BY <3>1, <3>2
  <2> QED
    BY <1>6, <2>7 DEF Standing, Apart
<1> QED
  BY <1>8, <1>9

LEMMA StandingStep ==
  ASSUME StaticDistance > 0, RegionsInv, StandingInv, [Next]_vars PROVE StandingInv'
<1>1. RegionsInv'
  BY RegionsStep
<1>2. ASSUME panicked' = "no", Standing' PROVE StandingInv'
  BY <1>1, <1>2, MovesFollowNext DEF RegionsInv, StandingInv
<1>3. ASSUME panicked' \in {"remove", "apply"} PROVE StandingInv'
  BY <1>3 DEF StandingInv, MovesWhereFound
<1>4. CASE UNCHANGED vars
  <2>1. /\ center' = center /\ pc' = pc /\ place' = place /\ queue' = queue /\ regions' = regions
        /\ ticking' = ticking /\ panicked' = panicked /\ crossed' = crossed
    BY <1>4 DEF vars
  <2>2. MovesWhereFound'
    BY <2>1 DEF StandingInv, MovesWhereFound, Pending
  <2>3. \A u, r: Held(u, r) => Held(u, r)'
    BY <2>1, HeldOn
  <2>4. Standing => Standing'
    BY <2>1, <2>3 DEF Standing, Apart
  <2> QED
    BY <2>1, <2>2, <2>4 DEF StandingInv
<1>5. ASSUME NEW u \in Users, Enter(u) PROVE StandingInv'
  <2>1. panicked = "no" /\ panicked' = "no"
    BY <1>5 DEF Enter, Request, Ready
  <2> QED
    BY <1>2, <1>5, <2>1, EnterStands DEF StandingInv
<1>6. ASSUME NEW u \in Users, Leave(u) PROVE StandingInv'
  <2>1. panicked = "no" /\ panicked' \in {"no", "remove"}
    BY <1>6 DEF Leave, Request, Ready
  <2> QED
    BY <1>2, <1>3, <1>6, <2>1, LeaveStands DEF StandingInv
<1>7. ASSUME NEW u \in Users, NEW cell \in Cell, UpdateSelf(u, cell) PROVE StandingInv'
  <2>1. panicked = "no" /\ panicked' = "no"
    BY <1>7 DEF UpdateSelf, Request, Ready
  <2> QED
    BY <1>2, <1>7, <2>1, UpdateSelfStands DEF StandingInv
<1>8. CASE TickBegin
  BY <1>8, TickBeginStands
<1>9. CASE TickEnd
  <2>1. /\ panicked = "no" /\ ticking' = "no" /\ center' = center /\ place' = place
        /\ queue' = queue /\ regions' = regions /\ crossed' = crossed /\ pc' = pc
        /\ panicked' = panicked
    BY <1>9 DEF TickEnd
  <2>2. \A u, r: Held(u, r) => Held(u, r)'
    BY <2>1, HeldOn
  <2>3. Standing'
    BY <2>1, <2>2 DEF StandingInv, Standing, Apart
  <2> QED
    BY <1>2, <2>1, <2>3
<1>10. CASE Apply
  <2>1. panicked = "no" /\ panicked' \in {"no", "apply"}
    BY <1>10 DEF Apply
  <2> QED
    BY <1>2, <1>3, <1>10, <2>1, ApplyStands DEF StandingInv
<1> QED
  BY <1>4, <1>5, <1>6, <1>7, <1>8, <1>9, <1>10 DEF Next, Tick

\* Where an observer sees more than its own region, a character stands in a region
\* that is there, and the one it is to go to is there or has its setup queued: the
\* unwraps of update_pcs fail only for a setup that no tick has come to yet, or after
\* opposite changes have met (world.rs:236, 244, 255).
THEOREM MovesAreFound ==
  ASSUME StaticDistance > 0 PROVE Spec => []MovesWhereFound
<1>1. Init => StandingInv
  BY DEF Init, StandingInv, MovesWhereFound, Standing, Has, Range
<1>2. RegionsInv /\ StandingInv /\ [Next]_vars => StandingInv'
  BY StandingStep
<1>3. StandingInv => MovesWhereFound
  BY DEF StandingInv
<1> QED
  BY <1>1, <1>2, <1>3, RegionsInvariant, PTL DEF Spec
=============================================================================
