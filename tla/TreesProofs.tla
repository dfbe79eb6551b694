----------------------------- MODULE TreesProofs -----------------------------
(***************************************************************************)
(* Proofs about module Trees, for any keys and values, leaves of any size, *)
(* files of any length and any number of snapshots and reopenings: a tree  *)
(* is the map its callers made, no page is lost or has two owners, and a   *)
(* tree implements SnapshotStore.                                          *)
(***************************************************************************)
EXTENDS Trees, TLAPS, SequenceTheorems, FiniteSetTheorems

-----------------------------------------------------------------------------
(* The operators of module Pages, for pages of any size and files of any   *)
(* length: what each does to the two free lists, and that none touches a   *)
(* page that the last snapshot names.                                      *)

FreeList == [ready: Seq(Nat), kept: Seq(Nat)]

\* The assertions of the containers that may fail, and that none did.
Reasons == {"no", "null", "readonly", "bounds", "grow"}

\* Memories whose pages hold members of P.
Memories(P) ==
  [pages: [PageNr -> P], writable: SUBSET Nat, cur: FreeList, prev: FreeList,
   last: Nat, panicked: Reasons]

\* No page is twice in the lists of a file.
Distinct(f) ==
  /\ IsInjective(f.cur.ready) /\ IsInjective(f.cur.kept)
  /\ IsInjective(f.prev.ready) /\ IsInjective(f.prev.kept)
  /\ Range(f.cur.ready) \cap Range(f.cur.kept) = {}
  /\ Range(f.cur.ready) \cap Range(f.prev.ready) = {}
  /\ Range(f.cur.ready) \cap Range(f.prev.kept) = {}
  /\ Range(f.cur.kept) \cap Range(f.prev.ready) = {}
  /\ Range(f.cur.kept) \cap Range(f.prev.kept) = {}
  /\ Range(f.prev.ready) \cap Range(f.prev.kept) = {}

\* Every page of a file is in use or in the lists, and none is both.
Shared(f, used) ==
  /\ Distinct(f)
  /\ FreePages(f) \cap used = {}
  /\ FreePages(f) \cup used = 2 .. f.last
  /\ FreeCount(f) + Cardinality(used) = f.last - 1

\* The pages that may be written or handed out before the next snapshot.
Exposed(m) == m.writable \cup Range(m.cur.ready) \cup Range(m.prev.ready)

\* A page that the last snapshot names stays as it is.
Safe(m, nr) == nr \notin Exposed(m) /\ nr <= m.last

-----------------------------------------------------------------------------
\* What is put into a free list and taken out of it.

\* An entry is added at the end.
LEMMA Adding ==
  ASSUME NEW S, NEW q \in Seq(S), NEW x \in S
  PROVE /\ Append(q, x) \in Seq(S) /\ Len(Append(q, x)) = Len(q) + 1
        /\ Range(Append(q, x)) = Range(q) \cup {x}
        /\ IsInjective(q) /\ x \notin Range(q) => IsInjective(Append(q, x))
<1> DEFINE r == Append(q, x)
<1>1. /\ r \in Seq(S) /\ Len(r) = Len(q) + 1 /\ Len(q) \in Nat
      /\ \A i \in 1 .. Len(q): r[i] = q[i]
      /\ r[Len(q) + 1] = x
  BY AppendProperties, LenProperties
<1>2. DOMAIN q = 1 .. Len(q) /\ DOMAIN r = 1 .. Len(q) + 1
  BY <1>1, LenProperties
<1> HIDE DEF r
<1>3. Range(r) = Range(q) \cup {x}
  <2>1. \A y \in Range(r): y \in Range(q) \cup {x}
    BY <1>1, <1>2 DEF Range
  <2>2. \A y \in Range(q): y \in Range(r)
    BY <1>1, <1>2 DEF Range
  <2>3. Len(q) + 1 \in DOMAIN r
    BY <1>1, <1>2
  <2>4. x \in Range(r)
    BY <1>1, <2>3 DEF Range
  <2> QED
    BY <2>1, <2>2, <2>4
<1>4. ASSUME IsInjective(q), x \notin Range(q) PROVE IsInjective(r)
  <2>1. \A i \in 1 .. Len(q): q[i] # x
    BY <1>2, <1>4 DEF Range
  <2>2. \A i, j \in 1 .. Len(q): q[i] = q[j] => i = j
    BY <1>2, <1>4 DEF IsInjective
  <2> QED
    BY <1>1, <1>2, <2>1, <2>2 DEF IsInjective
<1> QED
  BY <1>1, <1>3, <1>4 DEF r

\* The last entry is taken.
LEMMA LastTaken ==
  ASSUME NEW S, NEW q \in Seq(S), q # <<>>
  PROVE /\ Front(q) \in Seq(S) /\ Len(Front(q)) = Len(q) - 1 /\ Len(q) \in Nat \ {0}
        /\ Last(q) \in S
        /\ Range(q) = Range(Front(q)) \cup {Last(q)}
        /\ IsInjective(q) => IsInjective(Front(q)) /\ Last(q) \notin Range(Front(q))
<1> DEFINE n == Len(q) - 1
           r == Front(q)
<1>1. /\ Len(q) \in Nat \ {0} /\ DOMAIN q = 1 .. Len(q)
      /\ \A i \in 1 .. Len(q): q[i] \in S
  BY EmptySeq, LenProperties, ElementOfSeq
<1>2. n \in Nat /\ Len(q) = n + 1 /\ \A i \in 1 .. n: q[i] \in S
  BY <1>1
<1>3. r = SubSeq(q, 1, n) /\ Last(q) = q[Len(q)]
  BY DEF Front, Last
<1> HIDE DEF n, r
<1>4. /\ SubSeq(q, 1, n) \in Seq(S)
      /\ Len(SubSeq(q, 1, n)) = IF 1 <= n THEN n - 1 + 1 ELSE 0
      /\ \A i \in 1 .. n - 1 + 1: SubSeq(q, 1, n)[i] = q[1 + i - 1]
  BY <1>2, SubSeqProperties
<1>5. r \in Seq(S) /\ Len(r) = n /\ \A i \in 1 .. n: r[i] = q[i]
  BY <1>2, <1>3, <1>4
<1>6. DOMAIN r = 1 .. n /\ DOMAIN q = 1 .. n + 1
  BY <1>1, <1>2, <1>5, LenProperties
<1>7. Last(q) = q[n + 1] /\ n + 1 \in DOMAIN q
  BY <1>1, <1>2, <1>3
<1>8. Range(q) = Range(r) \cup {Last(q)}
  <2>1. \A y \in Range(q): y \in Range(r) \cup {Last(q)}
    BY <1>2, <1>5, <1>6, <1>7 DEF Range
  <2>2. \A y \in Range(r): y \in Range(q)
    BY <1>2, <1>5, <1>6 DEF Range
  <2>3. Last(q) \in Range(q)
    BY <1>7 DEF Range
  <2> QED
    BY <2>1, <2>2, <2>3
<1>9. ASSUME IsInjective(q) PROVE IsInjective(r) /\ Last(q) \notin Range(r)
  BY <1>2, <1>5, <1>6, <1>7, <1>9 DEF IsInjective, Range
<1> QED
  BY <1>1, <1>2, <1>3, <1>5, <1>8, <1>9 DEF r

\* The first entry is taken.
LEMMA FirstTaken ==
  ASSUME NEW S, NEW q \in Seq(S), q # <<>>
  PROVE /\ Tail(q) \in Seq(S) /\ Len(Tail(q)) = Len(q) - 1 /\ Len(q) \in Nat \ {0}
        /\ Head(q) \in S
        /\ Range(q) = Range(Tail(q)) \cup {Head(q)}
        /\ IsInjective(q) => IsInjective(Tail(q)) /\ Head(q) \notin Range(Tail(q))
<1> DEFINE n == Len(q) - 1
           r == Tail(q)
<1>1. /\ Len(q) \in Nat \ {0} /\ DOMAIN q = 1 .. Len(q)
      /\ Head(q) \in S /\ r \in Seq(S) /\ Len(r) = n
      /\ \A i \in 1 .. Len(r): r[i] = q[i + 1]
  BY EmptySeq, LenProperties, HeadTailProperties
<1>2. n \in Nat /\ Len(q) = n + 1
  BY <1>1
<1>3. Head(q) = q[1]
  OBVIOUS
<1>4. DOMAIN r = 1 .. n /\ DOMAIN q = 1 .. n + 1 /\ 1 \in DOMAIN q
  BY <1>1, <1>2, LenProperties
<1> HIDE DEF n, r
<1>5. Range(q) = Range(r) \cup {Head(q)}
  <2>1. ASSUME NEW i \in DOMAIN q PROVE q[i] \in Range(r) \cup {Head(q)}
    <3>1. CASE i = 1
      BY <1>3, <3>1
    <3>2. CASE i # 1
      <4>1. i - 1 \in DOMAIN r /\ r[i - 1] = q[i]
        BY <1>1, <1>2, <1>4, <3>2
      <4> QED
        BY <4>1 DEF Range
    <3> QED
      BY <3>1, <3>2
  <2>2. \A y \in Range(r): y \in Range(q)
    BY <1>1, <1>2, <1>4 DEF Range
  <2>3. Head(q) \in Range(q)
    BY <1>3, <1>4 DEF Range
  <2> QED
    BY <2>1, <2>2, <2>3 DEF Range
<1>6. ASSUME IsInjective(q) PROVE IsInjective(r) /\ Head(q) \notin Range(r)
  <2>1. ASSUME NEW i \in 1 .. n, NEW j \in 1 .. n, r[i] = r[j] PROVE i = j
    <3>1. q[i + 1] = q[j + 1] /\ i + 1 \in DOMAIN q /\ j + 1 \in DOMAIN q
      BY <1>1, <1>2, <1>4, <2>1
    <3>2. i + 1 = j + 1
      BY <1>6, <3>1 DEF IsInjective
    <3> QED
      BY <3>2
  <2>2. ASSUME NEW i \in 1 .. n, r[i] = Head(q) PROVE FALSE
    <3>1. q[i + 1] = q[1] /\ i + 1 \in DOMAIN q /\ 1 \in DOMAIN q
      BY <1>1, <1>2, <1>3, <1>4, <2>2
    <3>2. i + 1 = 1
      BY <1>6, <3>1 DEF IsInjective
    <3> QED
      BY <3>2
  <2> QED
    BY <1>4, <2>1, <2>2 DEF IsInjective, Range
<1> QED
  BY <1>1, <1>2, <1>5, <1>6 DEF n, r

\* Two lists become one.
LEMMA Joining ==
  ASSUME NEW S, NEW q \in Seq(S), NEW r \in Seq(S)
  PROVE /\ q \o r \in Seq(S) /\ Len(q \o r) = Len(q) + Len(r)
        /\ Range(q \o r) = Range(q) \cup Range(r)
        /\ IsInjective(q) /\ IsInjective(r) /\ Range(q) \cap Range(r) = {} => IsInjective(q \o r)
<1> DEFINE t == q \o r
<1>1. /\ t \in Seq(S) /\ Len(t) = Len(q) + Len(r) /\ Len(q) \in Nat /\ Len(r) \in Nat
      /\ \A i \in 1 .. Len(q) + Len(r): t[i] = IF i <= Len(q) THEN q[i] ELSE r[i - Len(q)]
  BY ConcatProperties, LenProperties
<1>2. Range(t) = Range(q) \cup Range(r)
  BY RangeConcatenation
<1>3. DOMAIN t = 1 .. Len(t) /\ DOMAIN q = 1 .. Len(q) /\ DOMAIN r = 1 .. Len(r)
  BY <1>1, LenProperties
<1> HIDE DEF t
<1>4. ASSUME IsInjective(q), IsInjective(r), Range(q) \cap Range(r) = {} PROVE IsInjective(t)
  <2>1. \A i \in 1 .. Len(q), j \in 1 .. Len(r): q[i] # r[j]
    BY <1>3, <1>4 DEF Range
  <2>2. /\ \A i, j \in 1 .. Len(q): q[i] = q[j] => i = j
        /\ \A i, j \in 1 .. Len(r): r[i] = r[j] => i = j
    BY <1>3, <1>4 DEF IsInjective
  <2>3. ASSUME NEW i \in 1 .. Len(t), NEW j \in 1 .. Len(t), t[i] = t[j] PROVE i = j
    <3>1. CASE i <= Len(q) /\ j <= Len(q)
      BY <1>1, <2>2, <2>3, <3>1
    <3>2. CASE i > Len(q) /\ j > Len(q)
      <4>1. i - Len(q) \in 1 .. Len(r) /\ j - Len(q) \in 1 .. Len(r)
        BY <1>1, <3>2
      <4>2. t[i] = r[i - Len(q)] /\ t[j] = r[j - Len(q)]
        BY <1>1, <3>2
      <4>3. i - Len(q) = j - Len(q)
        BY <2>2, <2>3, <4>1, <4>2
      <4> QED
        BY <1>1, <4>3
    <3>3. CASE i <= Len(q) /\ j > Len(q)
      <4>1. j - Len(q) \in 1 .. Len(r) /\ i \in 1 .. Len(q)
        BY <1>1, <3>3
      <4>2. t[i] = q[i] /\ t[j] = r[j - Len(q)]
        BY <1>1, <3>3
      <4> QED
        BY <2>1, <2>3, <4>1, <4>2
    <3>4. CASE i > Len(q) /\ j <= Len(q)
      <4>1. i - Len(q) \in 1 .. Len(r) /\ j \in 1 .. Len(q)
        BY <1>1, <3>4
      <4>2. t[j] = q[j] /\ t[i] = r[i - Len(q)]
        BY <1>1, <3>4
      <4> QED
        BY <2>1, <2>3, <4>1, <4>2
    <3> QED
      BY <1>1, <3>1, <3>2, <3>3, <3>4
  <2> QED
    BY <1>3, <2>3 DEF IsInjective
<1> QED
  BY <1>1, <1>2, <1>4 DEF t

-----------------------------------------------------------------------------
\* The allocator.

\* The lists of a memory, and the pages in them.
LEMMA Listed ==
  ASSUME NEW P, NEW m \in Memories(P)
  PROVE /\ m.cur.ready \in Seq(Nat) /\ m.cur.kept \in Seq(Nat)
        /\ m.prev.ready \in Seq(Nat) /\ m.prev.kept \in Seq(Nat)
        /\ Len(m.cur.ready) \in Nat /\ Len(m.cur.kept) \in Nat
        /\ Len(m.prev.ready) \in Nat /\ Len(m.prev.kept) \in Nat
        /\ m.pages \in [PageNr -> P] /\ m.writable \in SUBSET Nat /\ m.last \in Nat
        /\ m.panicked \in Reasons
<1>1. /\ m.cur.ready \in Seq(Nat) /\ m.cur.kept \in Seq(Nat)
      /\ m.prev.ready \in Seq(Nat) /\ m.prev.kept \in Seq(Nat)
  BY DEF Memories, FreeList
<1> QED
  BY <1>1, LenProperties DEF Memories, FreeList

\* A page is handed out: it is writable from then on, and the last snapshot does not
\* name it.
Grants(m, r, used) ==
  /\ r.nr \in 2 .. r.m.last /\ r.nr \notin used
  /\ r.m.pages = m.pages /\ r.m.panicked = m.panicked
  /\ r.m.writable = m.writable \cup {r.nr}
  /\ r.m.last \in m.last .. m.last + 1
  /\ Shared(r.m, used \cup {r.nr})
  /\ \A s \in Nat: Safe(m, s) => Safe(r.m, s) /\ r.nr # s

LEMMA Granting ==
  ASSUME NEW P, NEW m \in Memories(P), NEW nr \in Nat
  PROVE LET r == Granted([nr |-> nr, m |-> m]) IN
        /\ r \in [nr: Nat, m: Memories(P)] /\ r.nr = nr
        /\ r.m.pages = m.pages /\ r.m.panicked = m.panicked
        /\ r.m.writable = m.writable \cup {nr} /\ r.m.last = m.last
        /\ r.m.cur = m.cur /\ r.m.prev = m.prev
BY DEF Granted, Memories

LEMMA Obtaining ==
  ASSUME NEW P, NEW m \in Memories(P), NEW used \in SUBSET Nat, IsFiniteSet(used), Shared(m, used)
  PROVE Obtain(m) \in [nr: Nat, m: Memories(P)] /\ Grants(m, Obtain(m), used)
<1> DEFINE r == Obtain(m)
           a == m.cur.ready
           b == m.cur.kept
           c == m.prev.ready
           d == m.prev.kept
<1>1. /\ a \in Seq(Nat) /\ b \in Seq(Nat) /\ c \in Seq(Nat) /\ d \in Seq(Nat)
      /\ Len(a) \in Nat /\ Len(b) \in Nat /\ Len(c) \in Nat /\ Len(d) \in Nat
      /\ m.pages \in [PageNr -> P] /\ m.writable \in SUBSET Nat /\ m.last \in Nat
      /\ m.panicked \in Reasons
  BY Listed
<1>2. /\ IsInjective(a) /\ IsInjective(b) /\ IsInjective(c) /\ IsInjective(d)
      /\ Range(a) \cap Range(b) = {} /\ Range(a) \cap Range(c) = {}
      /\ Range(a) \cap Range(d) = {} /\ Range(b) \cap Range(c) = {}
      /\ Range(b) \cap Range(d) = {} /\ Range(c) \cap Range(d) = {}
  BY DEF Shared, Distinct
<1>3. /\ (Range(a) \cup Range(b) \cup Range(c) \cup Range(d)) \cap used = {}
      /\ Range(a) \cup Range(b) \cup Range(c) \cup Range(d) \cup used = 2 .. m.last
  BY DEF Shared, FreePages
<1>4. /\ Len(a) + Len(b) + Len(c) + Len(d) + Cardinality(used) = m.last - 1
      /\ Cardinality(used) \in Nat
  BY FS_CardinalityType DEF Shared, FreeCount
<1>5. /\ \A x: IsFiniteSet(used \cup {x})
      /\ \A x: x \notin used => Cardinality(used \cup {x}) = Cardinality(used) + 1
  BY FS_AddElement
<1>9. Len(a) \in Nat /\ Len(b) \in Nat /\ Len(c) \in Nat /\ Len(d) \in Nat /\ m.last \in Nat
  BY <1>1
<1> HIDE DEF a, b, c, d
<1>0. m.last >= 1
  BY <1>4, <1>9
<1>6. CASE a # <<>>
  <2> DEFINE f == Front(a)
             nr == Last(a)
  <2>1. /\ f \in Seq(Nat) /\ Len(f) = Len(a) - 1 /\ nr \in Nat
        /\ Range(a) = Range(f) \cup {nr} /\ IsInjective(f) /\ nr \notin Range(f)
    BY <1>1, <1>2, <1>6, LastTaken
  <2>2. /\ r.nr = nr /\ r.m.pages = m.pages /\ r.m.panicked = m.panicked
        /\ r.m.writable = m.writable \cup {nr} /\ r.m.last = m.last
        /\ r.m.cur.ready = f /\ r.m.cur.kept = b
        /\ r.m.prev.ready = c /\ r.m.prev.kept = d
    BY <1>6 DEF a, b, c, d, Obtain, Granted, Memories, FreeList
  <2>3. r \in [nr: Nat, m: Memories(P)]
    <3>1. r = Granted([nr |-> Last(m.cur.ready), m |-> [m EXCEPT !.cur.ready = Front(@)]])
      BY <1>6 DEF Obtain, a
    <3>2. [m EXCEPT !.cur.ready = Front(@)] \in Memories(P) /\ Last(m.cur.ready) \in Nat
      BY <2>1 DEF Memories, FreeList, a
    <3> QED
      BY <3>1, <3>2, Granting
  <2> HIDE DEF f, nr, r
  <2>4. nr \in 2 .. m.last /\ nr \notin used
    BY <1>3, <2>1
  <2>5. Distinct(r.m)
    BY <1>1, <1>2, <2>1, <2>2 DEF Distinct
  <2>6. FreePages(r.m) = Range(f) \cup Range(b) \cup Range(c) \cup Range(d)
    BY <1>1, <2>2 DEF FreePages
  <2>7. /\ FreePages(r.m) \cap (used \cup {nr}) = {}
        /\ FreePages(r.m) \cup (used \cup {nr}) = 2 .. m.last
    BY <1>2, <1>3, <2>1, <2>6
  <2>8. FreeCount(r.m) + Cardinality(used \cup {nr}) = m.last - 1
    <3>1. Cardinality(used \cup {nr}) = Cardinality(used) + 1
      BY <1>5, <2>4
    <3>2. Len(f) + 1 = Len(a) /\ Len(f) \in Nat
      BY <1>9, <2>1, LenProperties
    <3>3. FreeCount(r.m) = Len(f) + Len(b) + Len(c) + Len(d)
      BY <2>2 DEF FreeCount
    <3> QED
      BY <1>4, <1>9, <3>1, <3>2, <3>3
  <2>9. Shared(r.m, used \cup {nr})
    BY <2>2, <2>5, <2>7, <2>8 DEF Shared
  <2>10. Exposed(r.m) = Exposed(m) /\ nr \in Exposed(m)
    BY <1>1, <2>1, <2>2 DEF Exposed, a, b, c, d
  <2> QED
    BY <1>1, <2>2, <2>3, <2>4, <2>9, <2>10 DEF Grants, Safe, r
<1>7. CASE a = <<>> /\ c # <<>>
  <2> DEFINE f == Front(c)
             nr == Last(c)
  <2>1. /\ f \in Seq(Nat) /\ Len(f) = Len(c) - 1 /\ nr \in Nat
        /\ Range(c) = Range(f) \cup {nr} /\ IsInjective(f) /\ nr \notin Range(f)
    BY <1>1, <1>2, <1>7, LastTaken
  <2>2. /\ r.nr = nr /\ r.m.pages = m.pages /\ r.m.panicked = m.panicked
        /\ r.m.writable = m.writable \cup {nr} /\ r.m.last = m.last
        /\ r.m.cur.ready = a /\ r.m.cur.kept = b
        /\ r.m.prev.ready = f /\ r.m.prev.kept = d
    BY <1>7 DEF a, b, c, d, Obtain, Granted, Memories, FreeList
  <2>3. r \in [nr: Nat, m: Memories(P)]
    <3>1. m.cur.ready = <<>> /\ m.prev.ready # <<>>
      BY <1>7 DEF a, c
    <3>2. r = Granted([nr |-> Last(m.prev.ready), m |-> [m EXCEPT !.prev.ready = Front(@)]])
      BY <3>1 DEF Obtain
    <3>3. [m EXCEPT !.prev.ready = Front(@)] \in Memories(P) /\ Last(m.prev.ready) \in Nat
      BY <2>1 DEF Memories, FreeList, c
    <3> QED
      BY <3>2, <3>3, Granting
  <2> HIDE DEF f, nr, r
  <2>4. nr \in 2 .. m.last /\ nr \notin used
    BY <1>3, <2>1
  <2>5. Distinct(r.m)
    BY <1>1, <1>2, <2>1, <2>2 DEF Distinct
  <2>6. FreePages(r.m) = Range(a) \cup Range(b) \cup Range(f) \cup Range(d)
    BY <1>1, <2>2 DEF FreePages
  <2>7. /\ FreePages(r.m) \cap (used \cup {nr}) = {}
        /\ FreePages(r.m) \cup (used \cup {nr}) = 2 .. m.last
    BY <1>2, <1>3, <2>1, <2>6
  <2>8. FreeCount(r.m) + Cardinality(used \cup {nr}) = m.last - 1
    <3>1. Cardinality(used \cup {nr}) = Cardinality(used) + 1
      BY <1>5, <2>4
    <3>2. Len(f) + 1 = Len(c) /\ Len(f) \in Nat
      BY <1>9, <2>1, LenProperties
    <3>3. FreeCount(r.m) = Len(a) + Len(b) + Len(f) + Len(d)
      BY <2>2 DEF FreeCount
    <3> QED
      BY <1>4, <1>9, <3>1, <3>2, <3>3
  <2>9. Shared(r.m, used \cup {nr})
    BY <2>2, <2>5, <2>7, <2>8 DEF Shared
  <2>10. Exposed(r.m) = Exposed(m) /\ nr \in Exposed(m)
    BY <1>1, <2>1, <2>2 DEF Exposed, a, b, c, d
  <2> QED
    BY <1>1, <2>2, <2>3, <2>4, <2>9, <2>10 DEF Grants, Safe, r
<1>8. CASE a = <<>> /\ c = <<>>
  <2> DEFINE nr == m.last + 1
  <2>1. nr \in 2 .. nr /\ nr \in Nat /\ m.last \in Nat /\ nr \in m.last .. m.last + 1
    BY <1>0, <1>1
  <2>2. /\ r.nr = nr /\ r.m.pages = m.pages /\ r.m.panicked = m.panicked
        /\ r.m.writable = m.writable \cup {nr} /\ r.m.last = nr
        /\ r.m.cur.ready = a /\ r.m.cur.kept = b
        /\ r.m.prev.ready = c /\ r.m.prev.kept = d
    BY <1>8 DEF a, b, c, d, Obtain, Granted, Memories, FreeList
  <2> HIDE DEF nr
  <2>3. r \in [nr: Nat, m: Memories(P)]
    <3>1. r = Granted([nr |-> nr, m |-> [m EXCEPT !.last = nr]])
      BY <1>8 DEF Obtain, a, c, nr
    <3>2. [m EXCEPT !.last = nr] \in Memories(P) /\ nr \in Nat
      BY <2>1 DEF Memories
    <3> QED
      BY <3>1, <3>2, Granting
  <2> HIDE DEF r
  <2>4. nr \in 2 .. nr /\ nr \notin used /\ nr \in Nat
    BY <1>1, <1>3, <2>1 DEF nr
  <2>5. Distinct(r.m)
    BY <1>1, <1>2, <2>2 DEF Distinct
  <2>6. FreePages(r.m) = Range(a) \cup Range(b) \cup Range(c) \cup Range(d)
    BY <1>1, <2>2 DEF FreePages
  <2>7. 2 .. nr = (2 .. m.last) \cup {nr} /\ nr \notin 2 .. m.last
    <3>1. m.last \in Nat /\ m.last >= 1 /\ nr = m.last + 1
      BY <1>0, <1>1 DEF nr
    <3> HIDE DEF nr
    <3> QED
      BY <3>1
  <2>8. /\ FreePages(r.m) \cap (used \cup {nr}) = {}
        /\ FreePages(r.m) \cup (used \cup {nr}) = 2 .. nr
    BY <1>3, <2>6, <2>7
  <2>9. FreeCount(r.m) + Cardinality(used \cup {nr}) = nr - 1
    <3>1. Cardinality(used \cup {nr}) = Cardinality(used) + 1
      BY <1>5, <2>4
    <3>2. FreeCount(r.m) = Len(a) + Len(b) + Len(c) + Len(d)
      BY <2>2 DEF FreeCount
    <3> QED
      BY <1>4, <1>9, <3>1, <3>2 DEF nr
  <2>10. Shared(r.m, used \cup {nr})
    BY <2>2, <2>5, <2>8, <2>9 DEF Shared
  <2>11. Exposed(r.m) = Exposed(m) \cup {nr}
    BY <1>1, <2>2 DEF Exposed, a, b, c, d
  <2> QED
    BY <1>1, <2>1, <2>2, <2>3, <2>4, <2>10, <2>11 DEF Grants, Safe, r, nr
<1> QED
  BY <1>6, <1>7, <1>8

\* A page that is given up is behind the ready ones, and kept.
LEMMA Keeping ==
  ASSUME NEW P, NEW m \in Memories(P), NEW used \in SUBSET Nat, IsFiniteSet(used), Shared(m, used),
         NEW nr \in used
  PROVE LET n == Keep(m, nr) IN
        /\ n \in Memories(P) /\ Shared(n, used \ {nr})
        /\ n.pages = m.pages /\ n.panicked = m.panicked /\ n.writable = m.writable /\ n.last = m.last
        /\ n.cur.ready = m.cur.ready /\ n.prev = m.prev
        /\ Exposed(n) = Exposed(m)
<1> DEFINE n == Keep(m, nr)
           a == m.cur.ready
           b == m.cur.kept
           c == m.prev.ready
           d == m.prev.kept
           k == Append(b, nr)
<1>1. /\ a \in Seq(Nat) /\ b \in Seq(Nat) /\ c \in Seq(Nat) /\ d \in Seq(Nat)
      /\ Len(a) \in Nat /\ Len(b) \in Nat /\ Len(c) \in Nat /\ Len(d) \in Nat /\ m.last \in Nat
  BY Listed
<1>2. /\ IsInjective(a) /\ IsInjective(b) /\ IsInjective(c) /\ IsInjective(d)
      /\ Range(a) \cap Range(b) = {} /\ Range(a) \cap Range(c) = {}
      /\ Range(a) \cap Range(d) = {} /\ Range(b) \cap Range(c) = {}
      /\ Range(b) \cap Range(d) = {} /\ Range(c) \cap Range(d) = {}
  BY DEF Shared, Distinct
<1>3. /\ (Range(a) \cup Range(b) \cup Range(c) \cup Range(d)) \cap used = {}
      /\ Range(a) \cup Range(b) \cup Range(c) \cup Range(d) \cup used = 2 .. m.last
  BY DEF Shared, FreePages
<1>4. /\ Len(a) + Len(b) + Len(c) + Len(d) + Cardinality(used) = m.last - 1
      /\ Cardinality(used) \in Nat
  BY FS_CardinalityType DEF Shared, FreeCount
<1>5. Cardinality(used \ {nr}) = Cardinality(used) - 1
  BY FS_RemoveElement
<1>6. nr \in Nat /\ nr \notin Range(b)
  BY <1>3
<1>7. /\ k \in Seq(Nat) /\ Len(k) = Len(b) + 1 /\ Range(k) = Range(b) \cup {nr} /\ IsInjective(k)
  BY <1>1, <1>2, <1>6, Adding
<1>8. /\ n.pages = m.pages /\ n.panicked = m.panicked /\ n.writable = m.writable /\ n.last = m.last
      /\ n.cur.ready = a /\ n.cur.kept = k /\ n.prev = m.prev
      /\ n.prev.ready = c /\ n.prev.kept = d
  BY DEF Keep, Memories, FreeList
<1>9. n \in Memories(P)
  BY <1>7 DEF Keep, Memories, FreeList
<1> HIDE DEF a, b, c, d, k, n
<1>10. Distinct(n)
  BY <1>2, <1>3, <1>7, <1>8 DEF Distinct
<1>11. FreePages(n) = Range(a) \cup Range(k) \cup Range(c) \cup Range(d)
  BY <1>8 DEF FreePages
<1>12. FreePages(n) \cap (used \ {nr}) = {} /\ FreePages(n) \cup (used \ {nr}) = 2 .. m.last
  BY <1>3, <1>7, <1>11
<1>13. FreeCount(n) + Cardinality(used \ {nr}) = m.last - 1
  <2>1. FreeCount(n) = Len(a) + (Len(b) + 1) + Len(c) + Len(d)
    BY <1>7, <1>8 DEF FreeCount
  <2>2. Len(a) \in Nat /\ Len(b) \in Nat /\ Len(c) \in Nat /\ Len(d) \in Nat /\ m.last \in Nat
    BY <1>1
  <2> QED
    BY <1>4, <1>5, <2>1, <2>2
<1>14. Exposed(n) = Exposed(m)
  BY <1>8 DEF Exposed, a, c
<1> QED
  BY <1>8, <1>9, <1>10, <1>12, <1>13, <1>14 DEF Shared, n, a

\* The page that replaces another: as if the other were kept first.
LEMMA Replacing ==
  ASSUME NEW P, NEW m \in Memories(P), NEW used \in SUBSET Nat, IsFiniteSet(used), Shared(m, used),
         NEW nr \in used
  PROVE /\ Replace(m, nr) \in [nr: Nat, m: Memories(P)]
        /\ Grants(Keep(m, nr), Replace(m, nr), used \ {nr})
<1> DEFINE n == Keep(m, nr)
           r == Replace(m, nr)
           rest == used \ {nr}
<1>1. /\ n \in Memories(P) /\ Shared(n, rest) /\ n.cur.ready = m.cur.ready
      /\ n.pages = m.pages /\ n.panicked = m.panicked /\ n.writable = m.writable /\ n.last = m.last
  BY Keeping
<1>2. rest \in SUBSET Nat /\ IsFiniteSet(rest)
  BY FS_RemoveElement
<1>3. CASE m.cur.ready = <<>>
  <2>1. r = Obtain(n)
    BY <1>3 DEF Replace
  <2> HIDE DEF n, r, rest
  <2> QED
    BY <1>1, <1>2, <2>1, Obtaining DEF n, r, rest
<1>4. CASE m.cur.ready # <<>>
  <2> DEFINE a == n.cur.ready
             b == n.cur.kept
             c == n.prev.ready
             d == n.prev.kept
             f == Tail(a)
             x == Head(a)
  <2>1. r = Granted([nr |-> x, m |-> [n EXCEPT !.cur.ready = f]])
    BY <1>1, <1>4 DEF Replace
  <2> HIDE DEF n, rest
  <2>2. /\ a \in Seq(Nat) /\ b \in Seq(Nat) /\ c \in Seq(Nat) /\ d \in Seq(Nat)
        /\ Len(a) \in Nat /\ Len(b) \in Nat /\ Len(c) \in Nat /\ Len(d) \in Nat /\ n.last \in Nat
    BY <1>1, Listed
  <2>3. /\ IsInjective(a) /\ IsInjective(b) /\ IsInjective(c) /\ IsInjective(d)
        /\ Range(a) \cap Range(b) = {} /\ Range(a) \cap Range(c) = {}
        /\ Range(a) \cap Range(d) = {} /\ Range(b) \cap Range(c) = {}
        /\ Range(b) \cap Range(d) = {} /\ Range(c) \cap Range(d) = {}
    BY <1>1 DEF Shared, Distinct
  <2>4. /\ (Range(a) \cup Range(b) \cup Range(c) \cup Range(d)) \cap rest = {}
        /\ Range(a) \cup Range(b) \cup Range(c) \cup Range(d) \cup rest = 2 .. n.last
    BY <1>1 DEF Shared, FreePages
  <2>5. /\ Len(a) + Len(b) + Len(c) + Len(d) + Cardinality(rest) = n.last - 1
        /\ Cardinality(rest) \in Nat
    BY <1>1, <1>2, FS_CardinalityType DEF Shared, FreeCount
  <2>6. /\ f \in Seq(Nat) /\ Len(f) = Len(a) - 1 /\ x \in Nat
        /\ Range(a) = Range(f) \cup {x} /\ IsInjective(f) /\ x \notin Range(f)
    <3>1. a # <<>>
      BY <1>1, <1>4
    <3> HIDE DEF a
    <3> QED
      BY <2>2, <2>3, <3>1, FirstTaken
  <2>7. /\ r.nr = x /\ r.m.pages = n.pages /\ r.m.panicked = n.panicked
        /\ r.m.writable = n.writable \cup {x} /\ r.m.last = n.last
        /\ r.m.cur.ready = f /\ r.m.cur.kept = b
        /\ r.m.prev.ready = c /\ r.m.prev.kept = d
        /\ r \in [nr: Nat, m: Memories(P)]
    <3> DEFINE t == [n EXCEPT !.cur.ready = f]
    <3>1. t \in Memories(P) /\ x \in Nat
      BY <1>1, <2>6 DEF Memories, FreeList
    <3>2. /\ t.pages = n.pages /\ t.panicked = n.panicked
          /\ t.writable = n.writable /\ t.last = n.last
          /\ t.cur.ready = f /\ t.cur.kept = b /\ t.prev = n.prev
      BY <1>1 DEF Memories, FreeList
    <3>3. r = Granted([nr |-> x, m |-> t])
      BY <2>1
    <3> HIDE DEF t, x, r, f
    <3> QED
      BY <3>1, <3>2, <3>3, Granting
  <2> HIDE DEF a, b, c, d, f, x, r
  <2>9. x \in 2 .. n.last /\ x \notin rest
    BY <2>4, <2>6
  <2>10. Distinct(r.m)
    BY <2>3, <2>6, <2>7 DEF Distinct
  <2>11. FreePages(r.m) = Range(f) \cup Range(b) \cup Range(c) \cup Range(d)
    BY <2>7 DEF FreePages
  <2>12. /\ FreePages(r.m) \cap (rest \cup {x}) = {}
         /\ FreePages(r.m) \cup (rest \cup {x}) = 2 .. n.last
    BY <2>3, <2>4, <2>6, <2>11
  <2>13. FreeCount(r.m) + Cardinality(rest \cup {x}) = n.last - 1
    <3>1. Cardinality(rest \cup {x}) = Cardinality(rest) + 1
      BY <1>2, <2>9, FS_AddElement
    <3>2. Len(f) + 1 = Len(a) /\ Len(f) \in Nat
      BY <2>2, <2>6, LenProperties
    <3>3. FreeCount(r.m) = Len(f) + Len(b) + Len(c) + Len(d)
      BY <2>7 DEF FreeCount
    <3>4. Len(b) \in Nat /\ Len(c) \in Nat /\ Len(d) \in Nat /\ n.last \in Nat
      BY <2>2
    <3>5. FreeCount(r.m) + 1 = Len(a) + Len(b) + Len(c) + Len(d)
      BY <3>2, <3>3, <3>4
    <3>6. FreeCount(r.m) \in Nat
      BY <3>2, <3>3, <3>4
    <3> QED
      BY <2>5, <3>1, <3>4, <3>5, <3>6
  <2>14. Shared(r.m, rest \cup {x})
    BY <2>7, <2>10, <2>12, <2>13 DEF Shared
  <2>15. Exposed(r.m) = Exposed(n) /\ x \in Exposed(n)
    BY <2>6, <2>7 DEF Exposed, a, c
  <2> QED
    BY <2>2, <2>7, <2>9, <2>14, <2>15 DEF Grants, Safe, r, n, rest
<1> QED
  BY <1>3, <1>4

\* A page that is given back is free, and only what was so before may be handed out.
LEMMA Deallocating ==
  ASSUME NEW P, NEW m \in Memories(P), NEW used \in SUBSET Nat, IsFiniteSet(used), Shared(m, used),
         NEW nr \in used
  PROVE LET n == Deallocate(m, nr) IN
        /\ n \in Memories(P) /\ Shared(n, used \ {nr})
        /\ n.pages = m.pages /\ n.panicked = m.panicked /\ n.writable = m.writable /\ n.last = m.last
        /\ Exposed(n) = Exposed(m)
<1> DEFINE n == Deallocate(m, nr)
<1>1. CASE nr \in m.writable
  <2> DEFINE a == m.cur.ready
             b == m.cur.kept
             c == m.prev.ready
             d == m.prev.kept
             k == Append(a, nr)
  <2>1. /\ a \in Seq(Nat) /\ b \in Seq(Nat) /\ c \in Seq(Nat) /\ d \in Seq(Nat)
        /\ Len(a) \in Nat /\ Len(b) \in Nat /\ Len(c) \in Nat /\ Len(d) \in Nat /\ m.last \in Nat
    BY Listed
  <2>2. /\ IsInjective(a) /\ IsInjective(b) /\ IsInjective(c) /\ IsInjective(d)
        /\ Range(a) \cap Range(b) = {} /\ Range(a) \cap Range(c) = {}
        /\ Range(a) \cap Range(d) = {} /\ Range(b) \cap Range(c) = {}
        /\ Range(b) \cap Range(d) = {} /\ Range(c) \cap Range(d) = {}
    BY DEF Shared, Distinct
  <2>3. /\ (Range(a) \cup Range(b) \cup Range(c) \cup Range(d)) \cap used = {}
        /\ Range(a) \cup Range(b) \cup Range(c) \cup Range(d) \cup used = 2 .. m.last
    BY DEF Shared, FreePages
  <2>4. /\ Len(a) + Len(b) + Len(c) + Len(d) + Cardinality(used) = m.last - 1
        /\ Cardinality(used) \in Nat /\ Cardinality(used \ {nr}) = Cardinality(used) - 1
    BY FS_CardinalityType, FS_RemoveElement DEF Shared, FreeCount
  <2>5. nr \in Nat /\ nr \notin Range(a)
    BY <2>3
  <2>6. /\ k \in Seq(Nat) /\ Len(k) = Len(a) + 1 /\ Range(k) = Range(a) \cup {nr} /\ IsInjective(k)
    BY <2>1, <2>2, <2>5, Adding
  <2>7. n = [m EXCEPT !.cur.ready = k]
    BY <1>1 DEF Deallocate
  <2>8. /\ n.pages = m.pages /\ n.panicked = m.panicked /\ n.writable = m.writable /\ n.last = m.last
        /\ n.cur.ready = k /\ n.cur.kept = b /\ n.prev.ready = c /\ n.prev.kept = d
    BY <2>7 DEF Memories, FreeList
  <2>9. n \in Memories(P)
    BY <2>6, <2>7 DEF Memories, FreeList
  <2> HIDE DEF a, b, c, d, k, n
  <2>10. Distinct(n)
    BY <2>2, <2>3, <2>6, <2>8 DEF Distinct
  <2>11. FreePages(n) = Range(k) \cup Range(b) \cup Range(c) \cup Range(d)
    BY <2>8 DEF FreePages
  <2>12. FreePages(n) \cap (used \ {nr}) = {} /\ FreePages(n) \cup (used \ {nr}) = 2 .. m.last
    BY <2>3, <2>6, <2>11
  <2>13. FreeCount(n) + Cardinality(used \ {nr}) = m.last - 1
    <3>1. FreeCount(n) = (Len(a) + 1) + Len(b) + Len(c) + Len(d)
      BY <2>6, <2>8 DEF FreeCount
    <3>2. Len(a) \in Nat /\ Len(b) \in Nat /\ Len(c) \in Nat /\ Len(d) \in Nat /\ m.last \in Nat
      BY <2>1
    <3> QED
      BY <2>4, <3>1, <3>2
  <2>14. Exposed(n) = Exposed(m)
    BY <1>1, <2>6, <2>8 DEF Exposed, a, c
  <2> QED
    BY <2>8, <2>9, <2>10, <2>12, <2>13, <2>14 DEF Shared, n
<1>2. CASE nr \notin m.writable /\ m.cur.ready = <<>>
  <2>1. n = Keep(m, nr)
    BY <1>2 DEF Deallocate
  <2> HIDE DEF n
  <2> QED
    BY <2>1, Keeping DEF n
<1>3. CASE nr \notin m.writable /\ m.cur.ready # <<>>
  <2> DEFINE o == Keep(m, nr)
             a == o.cur.ready
             k == Append(Tail(a), Head(a))
             rest == used \ {nr}
  <2>1. /\ o \in Memories(P) /\ Shared(o, rest) /\ a = m.cur.ready /\ Exposed(o) = Exposed(m)
        /\ o.pages = m.pages /\ o.panicked = m.panicked /\ o.writable = m.writable /\ o.last = m.last
    BY Keeping
  <2>2. n = [o EXCEPT !.cur.ready = k]
    BY <1>3, <2>1 DEF Deallocate
  <2> HIDE DEF o
  <2>3. a \in Seq(Nat) /\ a # <<>> /\ IsInjective(a)
    BY <1>3, <2>1, Listed DEF Shared, Distinct
  <2>4. /\ Tail(a) \in Seq(Nat) /\ Len(Tail(a)) = Len(a) - 1 /\ Len(a) \in Nat /\ Head(a) \in Nat
        /\ Range(a) = Range(Tail(a)) \cup {Head(a)}
        /\ IsInjective(Tail(a)) /\ Head(a) \notin Range(Tail(a))
    BY <2>3, FirstTaken
  <2>5. /\ k \in Seq(Nat) /\ Len(k) = Len(Tail(a)) + 1 /\ IsInjective(k)
        /\ Range(k) = Range(Tail(a)) \cup {Head(a)}
    <3> DEFINE t == Tail(a)
               h == Head(a)
    <3>1. t \in Seq(Nat) /\ h \in Nat /\ IsInjective(t) /\ h \notin Range(t)
      BY <2>4
    <3> HIDE DEF t, h
    <3>2. /\ Append(t, h) \in Seq(Nat) /\ Len(Append(t, h)) = Len(t) + 1
          /\ IsInjective(Append(t, h)) /\ Range(Append(t, h)) = Range(t) \cup {h}
      BY <3>1, Adding
    <3> QED
      BY <3>2 DEF t, h
  <2>6. Range(k) = Range(a) /\ Len(k) = Len(a)
    BY <2>4, <2>5
  <2>7. /\ n.pages = o.pages /\ n.panicked = o.panicked /\ n.writable = o.writable /\ n.last = o.last
        /\ n.cur.ready = k /\ n.cur.kept = o.cur.kept /\ n.prev = o.prev
    BY <2>1, <2>2 DEF Memories, FreeList
  <2>8. n \in Memories(P)
    BY <2>1, <2>2, <2>5 DEF Memories, FreeList
  <2> HIDE DEF k, n, rest
  <2>9. FreePages(n) = FreePages(o) /\ FreeCount(n) = FreeCount(o) /\ Exposed(n) = Exposed(o)
    BY <2>6, <2>7 DEF FreePages, FreeCount, Exposed
  <2>10. Distinct(n)
    BY <2>1, <2>5, <2>6, <2>7 DEF Shared, Distinct
  <2> QED
    BY <2>1, <2>7, <2>8, <2>9, <2>10 DEF Shared, n, rest
<1> QED
  BY <1>1, <1>2, <1>3

-----------------------------------------------------------------------------
\* Pages that are written.

\* A page to write is had: nr itself, or another one in its place.
Opens(m, r, nr, used) ==
  /\ r.nr \in 2 .. r.m.last
  /\ r.m.last \in m.last .. m.last + 1 /\ r.m.panicked = m.panicked
  /\ r.m.writable = m.writable \cup {r.nr}
  /\ Shared(r.m, (used \ {nr}) \cup {r.nr})
  /\ \A s \in PageNr: s # r.nr => r.m.pages[s] = m.pages[s]
  /\ \A s \in Nat: Safe(m, s) => Safe(r.m, s) /\ r.nr # s

\* Only the lists decide who has a page.
LEMMA SameLists ==
  ASSUME NEW m, NEW n, n.cur = m.cur, n.prev = m.prev, n.last = m.last
  PROVE /\ \A used: Shared(m, used) => Shared(n, used)
        /\ n.writable = m.writable => Exposed(n) = Exposed(m) /\ \A s: Safe(m, s) => Safe(n, s)
<1>1. FreePages(n) = FreePages(m) /\ FreeCount(n) = FreeCount(m)
  BY DEF FreePages, FreeCount
<1>2. Distinct(m) => Distinct(n)
  BY DEF Distinct
<1>3. n.writable = m.writable => Exposed(n) = Exposed(m)
  BY DEF Exposed
<1> QED
  BY <1>1, <1>2, <1>3 DEF Shared, Safe

\* The page of r is filled with x.
Filled(r, x) == [r EXCEPT !.m.pages[r.nr] = x]

LEMMA Filling ==
  ASSUME NEW P, NEW r \in [nr: Nat, m: Memories(P)], NEW x \in P
  PROVE LET t == Filled(r, x) IN
        /\ t \in [nr: Nat, m: Memories(P)] /\ t.nr = r.nr
        /\ t.m.pages = [r.m.pages EXCEPT ![r.nr] = x]
        /\ t.m.cur = r.m.cur /\ t.m.prev = r.m.prev /\ t.m.last = r.m.last
        /\ t.m.writable = r.m.writable /\ t.m.panicked = r.m.panicked
BY DEF Filled, Memories

\* Filling does not disturb the rest.
LEMMA OpensFilled ==
  ASSUME NEW P, NEW m \in Memories(P), NEW r \in [nr: Nat, m: Memories(P)], NEW x \in P,
         NEW nr, NEW used, Opens(m, r, nr, used)
  PROVE Filled(r, x) \in [nr: Nat, m: Memories(P)] /\ Opens(m, Filled(r, x), nr, used)
<1> DEFINE t == Filled(r, x)
<1>1. /\ t \in [nr: Nat, m: Memories(P)] /\ t.nr = r.nr
      /\ t.m.pages = [r.m.pages EXCEPT ![r.nr] = x]
      /\ t.m.cur = r.m.cur /\ t.m.prev = r.m.prev /\ t.m.last = r.m.last
      /\ t.m.writable = r.m.writable /\ t.m.panicked = r.m.panicked
  BY Filling
<1>2. r.m.pages \in [PageNr -> P]
  BY DEF Memories
<1> HIDE DEF t
<1>3. \A s \in PageNr: s # r.nr => t.m.pages[s] = r.m.pages[s]
  BY <1>1, <1>2
<1>4. \A u: Shared(r.m, u) => Shared(t.m, u)
  BY <1>1, SameLists
<1>5. \A s: Safe(r.m, s) => Safe(t.m, s)
  BY <1>1, SameLists
<1>6. Opens(m, t, nr, used)
  BY <1>1, <1>3, <1>4, <1>5 DEF Opens
<1> QED
  BY <1>1, <1>6 DEF t

\* A new page.
LEMMA Creating ==
  ASSUME NEW P, NEW m \in Memories(P), NEW used \in SUBSET Nat, IsFiniteSet(used), Shared(m, used)
  PROVE Obtain(m) \in [nr: Nat, m: Memories(P)] /\ Opens(m, Obtain(m), Null, used)
<1> DEFINE r == Obtain(m)
<1>1. r \in [nr: Nat, m: Memories(P)] /\ Grants(m, r, used)
  BY Obtaining
<1>2. used \ {Null} = used
  <2>1. used \subseteq 2 .. m.last
    BY DEF Shared
  <2>2. Null \notin 2 .. m.last
    BY DEF Null
  <2> QED
    BY <2>1, <2>2
<1> HIDE DEF r
<1>3. Opens(m, r, Null, used)
  BY <1>1, <1>2 DEF Opens, Grants
<1> QED
  BY <1>1, <1>3 DEF r

\* Lock::page_mut of a page in use.
LEMMA Opening ==
  ASSUME NEW P, NEW m \in Memories(P), NEW used \in SUBSET Nat, IsFiniteSet(used), Shared(m, used),
         NEW nr \in used, nr \in PageNr
  PROVE PageMut(m, nr) \in [nr: Nat, m: Memories(P)] /\ Opens(m, PageMut(m, nr), nr, used)
<1>1. nr # Null /\ nr \in 2 .. m.last /\ m.last \in Nat
  <2>1. nr \in 2 .. m.last
    BY DEF Shared
  <2> QED
    BY <2>1, Listed DEF Null
<1>2. CASE nr \in m.writable
  <2> DEFINE r == [nr |-> nr, m |-> m]
  <2>1. PageMut(m, nr) = r
    BY <1>1, <1>2 DEF PageMut
  <2>2. r \in [nr: Nat, m: Memories(P)] /\ r.nr = nr /\ r.m = m
    BY <1>1
  <2> HIDE DEF r
  <2>3. (used \ {nr}) \cup {nr} = used /\ m.writable \cup {nr} = m.writable
    BY <1>2
  <2>4. \A s \in Nat: Safe(m, s) => nr # s
    BY <1>2 DEF Safe, Exposed
  <2>5. m.last \in m.last .. m.last + 1
    BY <1>1
  <2> QED
    BY <1>1, <2>1, <2>2, <2>3, <2>4, <2>5 DEF Opens
<1>3. CASE nr \notin m.writable
  <2> DEFINE n == Keep(m, nr)
             r == Replace(m, nr)
             x == m.pages[nr]
  <2>1. PageMut(m, nr) = Filled(r, x)
    BY <1>1, <1>3 DEF PageMut, Filled
  <2>2. r \in [nr: Nat, m: Memories(P)] /\ Grants(n, r, used \ {nr}) /\ x \in P
    BY Replacing DEF Memories
  <2>3. /\ n.pages = m.pages /\ n.panicked = m.panicked /\ n.writable = m.writable /\ n.last = m.last
        /\ Exposed(n) = Exposed(m)
    BY Keeping
  <2> HIDE DEF n, r, x
  <2>4. \A s: Safe(m, s) => Safe(n, s)
    BY <2>3 DEF Safe
  <2>5. Opens(m, r, nr, used)
    BY <2>2, <2>3, <2>4 DEF Grants, Opens
  <2> QED
    BY <2>1, <2>2, <2>5, OpensFilled
<1> QED
  BY <1>2, <1>3

\* After a snapshot nothing is exposed that was not free.
LEMMA Sealing ==
  ASSUME NEW P, NEW m \in Memories(P), NEW used, Shared(m, used)
  PROVE LET n == Sealed(m) IN
        /\ n \in Memories(P) /\ Shared(n, used)
        /\ n.pages = m.pages /\ n.panicked = m.panicked /\ n.writable = {} /\ n.last = m.last
        /\ n.cur \in FreeList /\ n.prev \in FreeList
        /\ \A s \in used: Safe(n, s)
<1> DEFINE n == Sealed(m)
           a == m.cur.ready
           b == m.cur.kept
           c == m.prev.ready
           d == m.prev.kept
           j == d \o c
<1>1. /\ a \in Seq(Nat) /\ b \in Seq(Nat) /\ c \in Seq(Nat) /\ d \in Seq(Nat)
      /\ Len(a) \in Nat /\ Len(b) \in Nat /\ Len(c) \in Nat /\ Len(d) \in Nat /\ m.last \in Nat
  BY Listed
<1>2. /\ IsInjective(a) /\ IsInjective(b) /\ IsInjective(c) /\ IsInjective(d)
      /\ Range(a) \cap Range(b) = {} /\ Range(a) \cap Range(c) = {}
      /\ Range(a) \cap Range(d) = {} /\ Range(b) \cap Range(c) = {}
      /\ Range(b) \cap Range(d) = {} /\ Range(c) \cap Range(d) = {}
  BY DEF Shared, Distinct
<1>3. /\ (Range(a) \cup Range(b) \cup Range(c) \cup Range(d)) \cap used = {}
      /\ Range(a) \cup Range(b) \cup Range(c) \cup Range(d) \cup used = 2 .. m.last
      /\ Len(a) + Len(b) + Len(c) + Len(d) + Cardinality(used) = m.last - 1
  BY DEF Shared, FreePages, FreeCount
<1>4. /\ j \in Seq(Nat) /\ Len(j) = Len(d) + Len(c) /\ Range(j) = Range(d) \cup Range(c)
      /\ IsInjective(j)
  BY <1>1, <1>2, Joining
<1>5. /\ n.pages = m.pages /\ n.panicked = m.panicked /\ n.writable = {} /\ n.last = m.last
      /\ n.cur = [ready |-> j, kept |-> <<>>] /\ n.prev = m.cur
  BY DEF Sealed, Memories
<1>6. n \in Memories(P) /\ n.cur \in FreeList /\ n.prev \in FreeList
  BY <1>4, EmptySeq DEF Sealed, Memories, FreeList
<1> HIDE DEF n, j
<1>7. n.prev.ready = a /\ n.prev.kept = b /\ n.cur.ready = j /\ n.cur.kept = <<>>
  BY <1>5
<1> HIDE DEF a, b, c, d
<1>8. Range(<<>>) = {} /\ IsInjective(<<>>) /\ Len(<<>>) = 0
  BY DEF Range, IsInjective
<1>9. Distinct(n)
  BY <1>2, <1>4, <1>7, <1>8 DEF Distinct
<1>10. FreePages(n) = Range(j) \cup Range(a) \cup Range(b)
  BY <1>7, <1>8 DEF FreePages
<1>11. FreePages(n) \cap used = {} /\ FreePages(n) \cup used = 2 .. m.last
  BY <1>3, <1>4, <1>10
<1>12. FreeCount(n) = Len(a) + Len(b) + Len(c) + Len(d)
  BY <1>1, <1>4, <1>7, <1>8 DEF FreeCount
<1>13. Shared(n, used)
  BY <1>3, <1>5, <1>9, <1>11, <1>12 DEF Shared
<1>14. Exposed(n) = Range(j) \cup Range(a)
  BY <1>5, <1>7 DEF Exposed
<1>15. \A s \in used: Safe(n, s)
  BY <1>1, <1>3, <1>4, <1>5, <1>14 DEF Safe
<1> QED
  BY <1>5, <1>6, <1>13, <1>15 DEF n

-----------------------------------------------------------------------------
(* Trees. *)

Entries == [key: Keys, value: Values]

\* What a page may hold.
Rows == Seq(Entries) \cup {ZeroPage}

Leaf(leaf) == leaf \in Seq(Entries) /\ Sorted(leaf) /\ Len(leaf) <= Order

\* A leaf stands for the map e.
Maps(leaf, e) ==
  /\ e = [x \in DOMAIN e |-> e[x]]
  /\ \A i \in 1 .. Len(leaf): leaf[i].key \in DOMAIN e /\ e[leaf[i].key] = leaf[i].value
  /\ \A x \in DOMAIN e: \E i \in 1 .. Len(leaf): leaf[i].key = x
  /\ IsFiniteSet(DOMAIN e) /\ Cardinality(DOMAIN e) = Len(leaf)

\* The page nr is the root of a tree: none if the tree is empty.
Rooted(m, nr) ==
  /\ nr \in PageNr /\ Leaf(LeafAt(m, nr))
  /\ nr = Null <=> LeafAt(m, nr) = <<>>

Owned(nr) == {nr} \ {Null}

TreesInv ==
  /\ mem \in Memories(Rows) /\ mem.last \in 1 .. LastNr
  /\ mem.writable \subseteq 2 .. mem.last /\ FreePages(mem) \subseteq 2 .. mem.last
  /\ Rooted(mem, root) /\ mem.panicked \in {"no", "grow"}
  /\ mem.panicked = "no" => Maps(LeafAt(mem, root), entries) /\ Shared(mem, Owned(root))
  /\ mem.panicked = "grow" => Cardinality(DOMAIN entries) = Order + 1
  /\ saved \in [root: PageNr, cur: FreeList, prev: FreeList, last: 1 .. LastNr]
  /\ Rooted(mem, saved.root) /\ Maps(LeafAt(mem, saved.root), savedEntries)
  /\ Shared(saved, Owned(saved.root)) /\ \A s \in Owned(saved.root): Safe(mem, s)
  /\ snapshots \in 0 .. MaxSnapshots /\ opens \in 0 .. MaxOpens

\* The map with a value for k, and the leaf with another value for it.
Joined(e, k, x) == [j \in DOMAIN e \cup {k} |-> IF j = k THEN x ELSE e[j]]
Updated(leaf, k, x) == [leaf EXCEPT ![Position(leaf, k)].value = x]

-----------------------------------------------------------------------------
(* Leaves. *)

\* A set of positions with all positions before them is a prefix.
LEMMA Prefix ==
  ASSUME NEW n \in Nat, NEW S \in SUBSET (1 .. n), \A i \in S, j \in 1 .. n: j < i => j \in S
  PROVE Cardinality(S) \in 0 .. n /\ S = 1 .. Cardinality(S)
<1> DEFINE c == Cardinality(S)
<1>1. IsFiniteSet(1 .. n) /\ Cardinality(1 .. n) = n
  BY FS_Interval
<1>2. IsFiniteSet(S) /\ c <= n /\ c \in Nat
  BY <1>1, FS_Subset, FS_CardinalityType
<1>3. ASSUME NEW i \in S PROVE i \in 1 .. c
  <2>1. 1 .. i \in SUBSET S
    OBVIOUS
  <2>2. Cardinality(1 .. i) = i
    BY FS_Interval
  <2>3. Cardinality(1 .. i) <= c
    BY <1>2, <2>1, FS_Subset
  <2> QED
    BY <1>2, <2>2, <2>3
<1>4. S \in SUBSET (1 .. c) /\ IsFiniteSet(1 .. c) /\ Cardinality(1 .. c) = c
  <2> HIDE DEF c
  <2>1. c \in Int /\ (0 < c \/ c = 0)
    BY <1>2
  <2>2. IsFiniteSet(1 .. c) /\ Cardinality(1 .. c) = IF 1 > c THEN 0 ELSE c - 1 + 1
    BY <2>1, FS_Interval
  <2> QED
    BY <1>2, <1>3, <2>1, <2>2
<1>5. S = 1 .. c
  BY <1>4, FS_Subset
<1> QED
  BY <1>2, <1>5

\* The position of a key: it is behind the smaller ones, and there if it is anywhere.
LEMMA Placing ==
  ASSUME NEW leaf \in Seq(Entries), Sorted(leaf), NEW k \in Keys
  PROVE LET n == Position(leaf, k) IN
        /\ n \in 1 .. Len(leaf) + 1
        /\ \A i \in 1 .. Len(leaf): i < n <=> leaf[i].key < k
        /\ Holds(leaf, k) => n \in 1 .. Len(leaf) /\ leaf[n].key = k
        /\ ~Holds(leaf, k) => \A i \in 1 .. Len(leaf): leaf[i].key # k
<1> DEFINE below == {i \in DOMAIN leaf : leaf[i].key < k}
           c == Cardinality(below)
           n == Position(leaf, k)
<1>1. /\ Len(leaf) \in Nat /\ DOMAIN leaf = 1 .. Len(leaf)
      /\ k \in Int /\ \A i \in 1 .. Len(leaf): leaf[i].key \in Int
  <2>1. Len(leaf) \in Nat /\ DOMAIN leaf = 1 .. Len(leaf)
    BY LenProperties
  <2>2. \A i \in 1 .. Len(leaf): leaf[i] \in Entries
    BY ElementOfSeq
  <2> QED
    BY <2>1, <2>2, KeysAssumption DEF Entries
<1>2. \A i, j \in 1 .. Len(leaf): i < j => leaf[i].key < leaf[j].key
  BY <1>1 DEF Sorted
<1>3. below \in SUBSET (1 .. Len(leaf))
  BY <1>1
<1>4. \A i \in below, j \in 1 .. Len(leaf): j < i => j \in below
  BY <1>1, <1>2
<1>5. c \in 0 .. Len(leaf) /\ below = 1 .. c
  <2> HIDE DEF below
  <2> QED
    BY <1>1, <1>3, <1>4, Prefix
<1>6. n = c + 1
  BY DEF Position
<1>7. \A i \in 1 .. Len(leaf): i \in below <=> leaf[i].key < k
  BY <1>1
<1> HIDE DEF below, c, n
<1>8. \A i \in 1 .. Len(leaf): i < n <=> leaf[i].key < k
  BY <1>1, <1>5, <1>6, <1>7
<1>9. n \in 1 .. Len(leaf) + 1
  BY <1>1, <1>5, <1>6
<1>10. ASSUME Holds(leaf, k) PROVE n \in 1 .. Len(leaf) /\ leaf[n].key = k
  <2>1. PICK i \in 1 .. Len(leaf): leaf[i].key = k
    BY <1>1, <1>10 DEF Holds
  <2>2. ~(i < n)
    BY <1>1, <1>8, <2>1
  <2>3. n \in 1 .. Len(leaf)
    BY <1>1, <1>9, <2>2
  <2>4. ~(n < i)
    <3>1. SUFFICES ASSUME n < i PROVE FALSE
      OBVIOUS
    <3>2. leaf[n].key < k
      BY <1>2, <2>1, <2>3, <3>1
    <3> QED
      BY <1>8, <1>9, <2>3, <3>2
  <2> QED
    BY <1>1, <2>1, <2>2, <2>3, <2>4
<1>11. ASSUME ~Holds(leaf, k) PROVE \A i \in 1 .. Len(leaf): leaf[i].key # k
  BY <1>1, <1>11 DEF Holds
<1> QED
  BY <1>8, <1>9, <1>10, <1>11 DEF n

\* A key is put where it belongs.
LEMMA Inserting ==
  ASSUME NEW leaf, Leaf(leaf), Len(leaf) < Order, NEW k \in Keys, NEW x \in Values, ~Holds(leaf, k),
         NEW e, Maps(leaf, e)
  PROVE LET more == InsertAt(leaf, Position(leaf, k), [key |-> k, value |-> x])
        IN Leaf(more) /\ more # <<>> /\ Maps(more, Joined(e, k, x))
<1> DEFINE n == Position(leaf, k)
           entry == [key |-> k, value |-> x]
           before == SubSeq(leaf, 1, n - 1)
           behind == SubSeq(leaf, n, Len(leaf))
           start == before \o <<entry>>
           more == InsertAt(leaf, n, entry)
           f == [j \in DOMAIN e \cup {k} |-> IF j = k THEN x ELSE e[j]]
<1>1. /\ leaf \in Seq(Entries) /\ Sorted(leaf) /\ Len(leaf) \in Nat /\ Order \in Nat
      /\ DOMAIN leaf = 1 .. Len(leaf)
  BY OrderAssumption, LenProperties DEF Leaf
<1>2. /\ n \in 1 .. Len(leaf) + 1
      /\ \A i \in 1 .. Len(leaf): i < n <=> leaf[i].key < k
      /\ \A i \in 1 .. Len(leaf): leaf[i].key # k
  BY <1>1, Placing
<1>3. \A i \in 1 .. Len(leaf): leaf[i] \in Entries /\ leaf[i].key \in Int
  <2>1. \A i \in 1 .. Len(leaf): leaf[i] \in Entries
    BY <1>1, ElementOfSeq
  <2> QED
    BY <2>1, KeysAssumption DEF Entries
<1>4. more = start \o behind
  BY DEF InsertAt
<1>5. entry \in Entries /\ entry.key = k /\ entry.value = x
  BY DEF Entries
<1> HIDE DEF n, entry, more
<1>6. /\ before \in Seq(Entries) /\ Len(before) = n - 1
      /\ \A i \in 1 .. n - 1: before[i] = leaf[i]
  <2>1. n - 1 \in Int /\ 1 \in Int /\ \A i \in 1 .. n - 1: leaf[i] \in Entries
    BY <1>1, <1>2, <1>3
  <2>2. /\ before \in Seq(Entries)
        /\ Len(before) = IF 1 <= n - 1 THEN (n - 1) - 1 + 1 ELSE 0
        /\ \A i \in 1 .. (n - 1) - 1 + 1: before[i] = leaf[1 + i - 1]
    BY <2>1, SubSeqProperties
  <2> QED
    BY <1>1, <1>2, <2>2
<1>7. /\ behind \in Seq(Entries) /\ Len(behind) = Len(leaf) - n + 1
      /\ \A i \in 1 .. Len(leaf) - n + 1: behind[i] = leaf[n + i - 1]
  <2>1. n \in Int /\ Len(leaf) \in Int /\ \A i \in n .. Len(leaf): leaf[i] \in Entries
    BY <1>1, <1>2, <1>3
  <2>2. /\ behind \in Seq(Entries)
        /\ Len(behind) = IF n <= Len(leaf) THEN Len(leaf) - n + 1 ELSE 0
        /\ \A i \in 1 .. Len(leaf) - n + 1: behind[i] = leaf[n + i - 1]
    BY <2>1, SubSeqProperties
  <2> QED
    BY <1>1, <1>2, <2>2
<1> HIDE DEF before, behind
<1>8. <<entry>> \in Seq(Entries) /\ Len(<<entry>>) = 1 /\ <<entry>>[1] = entry
  BY <1>5
<1>9. /\ start \in Seq(Entries) /\ Len(start) = n
      /\ \A i \in 1 .. n: start[i] = IF i <= n - 1 THEN leaf[i] ELSE entry
  <2>1. /\ start \in Seq(Entries) /\ Len(start) = (n - 1) + 1
        /\ \A i \in 1 .. (n - 1) + 1: start[i] = IF i <= n - 1 THEN before[i] ELSE <<entry>>[i - (n - 1)]
    BY <1>6, <1>8, ConcatProperties
  <2>2. n \in Int
    BY <1>1, <1>2
  <2>3. \A i \in 1 .. n: i <= n - 1 \/ (i = n /\ i - (n - 1) = 1)
    BY <2>2
  <2>4. \A i \in 1 .. n: i <= n - 1 => start[i] = leaf[i]
    BY <1>6, <2>1, <2>2
  <2>5. start[n] = entry
    BY <1>2, <1>8, <2>1, <2>2, <2>3
  <2> QED
    BY <2>1, <2>2, <2>3, <2>4, <2>5
<1> HIDE DEF start
<1>10. /\ more \in Seq(Entries) /\ Len(more) = Len(leaf) + 1 /\ DOMAIN more = 1 .. Len(leaf) + 1
       /\ \A i \in 1 .. Len(leaf) + 1:
            more[i] = IF i <= n - 1 THEN leaf[i] ELSE IF i = n THEN entry ELSE leaf[i - 1]
  <2>1. /\ more \in Seq(Entries) /\ Len(more) = n + (Len(leaf) - n + 1)
        /\ \A i \in 1 .. n + (Len(leaf) - n + 1): more[i] = IF i <= n THEN start[i] ELSE behind[i - n]
    BY <1>4, <1>7, <1>9, ConcatProperties
  <2>2. n \in Int /\ n >= 1 /\ n <= Len(leaf) + 1 /\ Len(leaf) \in Nat
    BY <1>1, <1>2
  <2>3. Len(more) = Len(leaf) + 1 /\ n + (Len(leaf) - n + 1) = Len(leaf) + 1
    BY <2>1, <2>2
  <2>4. ASSUME NEW i \in 1 .. Len(leaf) + 1, i <= n
        PROVE more[i] = IF i <= n - 1 THEN leaf[i] ELSE IF i = n THEN entry ELSE leaf[i - 1]
    <3>1. i \in 1 .. n /\ (i <= n - 1 \/ i = n) /\ ~(n <= n - 1)
      BY <2>2, <2>4
    <3>2. more[i] = start[i]
      BY <2>1, <2>3, <2>4
    <3> QED
      BY <1>9, <3>1, <3>2
  <2>5. ASSUME NEW i \in 1 .. Len(leaf) + 1, ~(i <= n)
        PROVE more[i] = IF i <= n - 1 THEN leaf[i] ELSE IF i = n THEN entry ELSE leaf[i - 1]
    <3>1. i - n \in 1 .. Len(leaf) - n + 1 /\ ~(i <= n - 1) /\ i # n /\ n + (i - n) - 1 = i - 1
      BY <2>2, <2>5
    <3>2. more[i] = behind[i - n]
      BY <2>1, <2>3, <2>5
    <3> QED
      BY <1>7, <3>1, <3>2
  <2> QED
    BY <2>1, <2>3, <2>4, <2>5, LenProperties
<1>11. Sorted(more)
  <2> SUFFICES ASSUME NEW i \in 1 .. Len(leaf) + 1, NEW j \in 1 .. Len(leaf) + 1, i < j
               PROVE more[i].key < more[j].key
    BY <1>10 DEF Sorted
  <2>1. \A p, q \in 1 .. Len(leaf): p < q => leaf[p].key < leaf[q].key
    BY <1>1 DEF Sorted
  <2>2. n \in 1 .. Len(leaf) + 1 /\ Len(leaf) \in Nat /\ k \in Int
    BY <1>1, <1>2, KeysAssumption
  <2>3. CASE j <= n - 1
    BY <1>10, <2>1, <2>2, <2>3
  <2>4. CASE j = n
    <3>1. i \in 1 .. Len(leaf) /\ i <= n - 1 /\ i < n
      BY <2>2, <2>4
    <3>2. more[i] = leaf[i] /\ more[j] = entry
      BY <1>10, <2>2, <2>4, <3>1
    <3> QED
      BY <1>2, <1>5, <3>1, <3>2
  <2>5. CASE j > n
    <3>1. j - 1 \in 1 .. Len(leaf) /\ ~(j - 1 < n) /\ more[j] = leaf[j - 1]
      BY <1>10, <2>2, <2>5
    <3>2. leaf[j - 1].key > k
      BY <1>2, <1>3, <2>2, <3>1
    <3>3. CASE i <= n - 1
      <4>1. i \in 1 .. Len(leaf) /\ more[i] = leaf[i] /\ i < j - 1
        BY <1>10, <2>2, <2>5, <3>3
      <4> QED
        BY <2>1, <3>1, <4>1
    <3>4. CASE i = n
      BY <1>5, <1>10, <3>1, <3>2, <3>4, <2>2
    <3>5. CASE i > n
      <4>1. i - 1 \in 1 .. Len(leaf) /\ more[i] = leaf[i - 1] /\ i - 1 < j - 1
        BY <1>10, <2>2, <3>5
      <4> QED
        BY <2>1, <3>1, <4>1
    <3> QED
      BY <2>2, <3>3, <3>4, <3>5
  <2> QED
    BY <2>2, <2>3, <2>4, <2>5
<1>12. Leaf(more) /\ more # <<>>
  <2>1. Len(more) <= Order /\ Len(more) # 0
    BY <1>1, <1>10
  <2> QED
    BY <1>10, <1>11, <2>1, EmptySeq DEF Leaf
<1>13. Maps(more, f)
  <2>1. /\ \A i \in 1 .. Len(leaf): leaf[i].key \in DOMAIN e /\ e[leaf[i].key] = leaf[i].value
        /\ \A y \in DOMAIN e: \E i \in 1 .. Len(leaf): leaf[i].key = y
        /\ IsFiniteSet(DOMAIN e) /\ Cardinality(DOMAIN e) = Len(leaf)
    BY DEF Maps
  <2>2. k \notin DOMAIN e
    BY <1>2, <2>1
  <2>3. /\ DOMAIN f = DOMAIN e \cup {k} /\ f[k] = x /\ f = [y \in DOMAIN f |-> f[y]]
        /\ \A y \in DOMAIN e: f[y] = e[y]
    BY <2>2
  <2>4. IsFiniteSet(DOMAIN f) /\ Cardinality(DOMAIN f) = Len(more)
    BY <1>10, <2>1, <2>2, <2>3, FS_AddElement
  <2> HIDE DEF f
  <2>5. n \in 1 .. Len(leaf) + 1 /\ Len(leaf) \in Nat
    BY <1>1, <1>2
  <2>6. ASSUME NEW i \in 1 .. Len(more) PROVE more[i].key \in DOMAIN f /\ f[more[i].key] = more[i].value
    <3>1. i \in 1 .. Len(leaf) + 1
      BY <1>10
    <3>2. CASE i = n
      BY <1>5, <1>10, <2>3, <2>5, <3>2
    <3>3. CASE i # n
      <4>1. PICK p \in 1 .. Len(leaf): more[i] = leaf[p]
        <5>1. CASE i <= n - 1
          BY <1>10, <2>5, <3>1, <5>1
        <5>2. CASE i > n
          <6>1. i - 1 \in 1 .. Len(leaf) /\ more[i] = leaf[i - 1]
            BY <1>10, <2>5, <3>1, <5>2
          <6> QED
            BY <6>1
        <5> QED
          BY <2>5, <3>1, <3>3, <5>1, <5>2
      <4> QED
        BY <2>1, <2>3, <4>1
    <3> QED
      BY <3>2, <3>3
  <2>7. ASSUME NEW y \in DOMAIN f PROVE \E i \in 1 .. Len(more): more[i].key = y
    <3>1. CASE y = k
      <4>1. n \in 1 .. Len(more) /\ more[n] = entry
        BY <1>10, <2>5
      <4> QED
        BY <1>5, <3>1, <4>1
    <3>2. CASE y # k
      <4>1. PICK p \in 1 .. Len(leaf): leaf[p].key = y
        BY <2>1, <2>3, <3>2
      <4>2. CASE p < n
        <5>1. p \in 1 .. Len(more) /\ more[p] = leaf[p]
          BY <1>10, <2>5, <4>2
        <5> QED
          BY <4>1, <5>1
      <4>3. CASE ~(p < n)
        <5>1. p + 1 \in 1 .. Len(more) /\ more[p + 1] = leaf[p]
          BY <1>10, <2>5, <4>3
        <5> QED
          BY <4>1, <5>1
      <4> QED
        BY <4>2, <4>3
    <3> QED
      BY <3>1, <3>2
  <2> QED
    BY <2>3, <2>4, <2>6, <2>7 DEF Maps
<1> QED
  BY <1>12, <1>13 DEF more, n, entry, Joined


\* The value of a key that is there is replaced.
LEMMA Updating ==
  ASSUME NEW leaf, Leaf(leaf), NEW k \in Keys, NEW x \in Values, Holds(leaf, k), NEW e, Maps(leaf, e)
  PROVE LET more == Updated(leaf, k, x) IN
        Leaf(more) /\ more # <<>> /\ Maps(more, Joined(e, k, x))
<1> DEFINE n == Position(leaf, k)
           more == [leaf EXCEPT ![n].value = x]
           f == [j \in DOMAIN e \cup {k} |-> IF j = k THEN x ELSE e[j]]
<1>1. /\ leaf \in Seq(Entries) /\ Sorted(leaf) /\ Len(leaf) \in Nat /\ Len(leaf) <= Order
      /\ DOMAIN leaf = 1 .. Len(leaf)
  BY LenProperties DEF Leaf
<1>2. n \in 1 .. Len(leaf) /\ leaf[n].key = k
  BY <1>1, Placing
<1>3. \A i \in 1 .. Len(leaf): leaf[i] \in Entries /\ leaf[i].key \in Int
  <2>1. \A i \in 1 .. Len(leaf): leaf[i] \in Entries
    BY <1>1, ElementOfSeq
  <2> QED
    BY <2>1, KeysAssumption DEF Entries
<1> HIDE DEF n
<1>4. /\ DOMAIN more = 1 .. Len(leaf) /\ more = [leaf EXCEPT ![n] = [leaf[n] EXCEPT !.value = x]]
      /\ more[n] = [leaf[n] EXCEPT !.value = x]
      /\ \A i \in 1 .. Len(leaf): i # n => more[i] = leaf[i]
  BY <1>1, <1>2
<1>5. more[n] \in Entries /\ more[n].key = k /\ more[n].value = x
  BY <1>2, <1>3, <1>4 DEF Entries
<1>6. more \in Seq(Entries) /\ Len(more) = Len(leaf)
  BY <1>1, <1>2, <1>4, <1>5, ExceptSeq
<1> HIDE DEF more
<1>7. \A i \in 1 .. Len(leaf): more[i].key = leaf[i].key
  BY <1>2, <1>4, <1>5
<1>8. Sorted(more)
  BY <1>1, <1>4, <1>7 DEF Sorted
<1>9. Leaf(more) /\ more # <<>>
  <2>1. Len(more) # 0
    BY <1>1, <1>2, <1>6
  <2> QED
    BY <1>1, <1>6, <1>8, <2>1, EmptySeq DEF Leaf
<1>10. Maps(more, f)
  <2>1. /\ \A i \in 1 .. Len(leaf): leaf[i].key \in DOMAIN e /\ e[leaf[i].key] = leaf[i].value
        /\ \A y \in DOMAIN e: \E i \in 1 .. Len(leaf): leaf[i].key = y
        /\ IsFiniteSet(DOMAIN e) /\ Cardinality(DOMAIN e) = Len(leaf)
    BY DEF Maps
  <2>2. k \in DOMAIN e
    BY <1>2, <2>1
  <2>3. /\ DOMAIN f = DOMAIN e /\ f[k] = x /\ f = [y \in DOMAIN f |-> f[y]]
        /\ \A y \in DOMAIN e: y # k => f[y] = e[y]
    BY <2>2
  <2> HIDE DEF f
  <2>4. ASSUME NEW i \in 1 .. Len(leaf) PROVE more[i].key \in DOMAIN f /\ f[more[i].key] = more[i].value
    <3>1. CASE i = n
      BY <1>5, <2>2, <2>3, <3>1
    <3>2. CASE i # n
      <4>1. leaf[i].key # k
        <5>1. i < n \/ n < i
          BY <1>2, <3>2
        <5>2. leaf[i].key < leaf[n].key \/ leaf[n].key < leaf[i].key
          BY <1>1, <1>2, <5>1 DEF Sorted
        <5>3. leaf[i].key \in Int /\ leaf[n].key \in Int
          BY <1>2, <1>3
        <5> QED
          BY <1>2, <5>2, <5>3
      <4> QED
        BY <1>4, <2>1, <2>3, <3>2, <4>1
    <3> QED
      BY <3>1, <3>2
  <2>5. \A y \in DOMAIN f: \E i \in 1 .. Len(leaf): more[i].key = y
    BY <1>7, <2>1, <2>3
  <2> QED
    BY <1>6, <2>1, <2>3, <2>4, <2>5 DEF Maps
<1> QED
  BY <1>9, <1>10 DEF more, n, Updated, Joined

\* A key is taken out; the map of an empty leaf is empty.
LEMMA Removing ==
  ASSUME NEW leaf, Leaf(leaf), NEW k \in Keys, Holds(leaf, k), NEW e, Maps(leaf, e)
  PROVE LET less == RemoveAt(leaf, Position(leaf, k)) IN
        Leaf(less) /\ Len(less) = Len(leaf) - 1 /\ Maps(less, Restrict(e, DOMAIN e \ {k}))
<1> DEFINE n == Position(leaf, k)
           before == SubSeq(leaf, 1, n - 1)
           behind == SubSeq(leaf, n + 1, Len(leaf))
           less == RemoveAt(leaf, n)
           f == Restrict(e, DOMAIN e \ {k})
<1>1. /\ leaf \in Seq(Entries) /\ Sorted(leaf) /\ Len(leaf) \in Nat /\ Len(leaf) <= Order
      /\ DOMAIN leaf = 1 .. Len(leaf) /\ Order \in Nat
  BY LenProperties, OrderAssumption DEF Leaf
<1>2. n \in 1 .. Len(leaf) /\ leaf[n].key = k
  BY <1>1, Placing
<1>3. \A i \in 1 .. Len(leaf): leaf[i] \in Entries /\ leaf[i].key \in Int
  <2>1. \A i \in 1 .. Len(leaf): leaf[i] \in Entries
    BY <1>1, ElementOfSeq
  <2> QED
    BY <2>1, KeysAssumption DEF Entries
<1>4. less = before \o behind
  BY DEF RemoveAt
<1> HIDE DEF n, less
<1>5. /\ before \in Seq(Entries) /\ Len(before) = n - 1
      /\ \A i \in 1 .. n - 1: before[i] = leaf[i]
  <2>1. n - 1 \in Int /\ 1 \in Int /\ \A i \in 1 .. n - 1: leaf[i] \in Entries
    BY <1>1, <1>2, <1>3
  <2>2. /\ before \in Seq(Entries)
        /\ Len(before) = IF 1 <= n - 1 THEN (n - 1) - 1 + 1 ELSE 0
        /\ \A i \in 1 .. (n - 1) - 1 + 1: before[i] = leaf[1 + i - 1]
    BY <2>1, SubSeqProperties
  <2> QED
    BY <1>1, <1>2, <2>2
<1>6. /\ behind \in Seq(Entries) /\ Len(behind) = Len(leaf) - n
      /\ \A i \in 1 .. Len(leaf) - n: behind[i] = leaf[n + i]
  <2> DEFINE p == n + 1
  <2>1. p \in Int /\ Len(leaf) \in Int /\ \A i \in p .. Len(leaf): leaf[i] \in Entries
    BY <1>1, <1>2, <1>3
  <2> HIDE DEF p
  <2>2. behind = SubSeq(leaf, p, Len(leaf))
    BY DEF p
  <2> HIDE DEF behind
  <2>3. /\ behind \in Seq(Entries)
        /\ Len(behind) = IF p <= Len(leaf) THEN Len(leaf) - p + 1 ELSE 0
        /\ \A i \in 1 .. Len(leaf) - p + 1: behind[i] = leaf[p + i - 1]
    BY <2>1, <2>2, SubSeqProperties
  <2>4. n \in Int /\ n <= Len(leaf) /\ Len(leaf) \in Int
    BY <1>1, <1>2
  <2>5. Len(leaf) - p + 1 = Len(leaf) - n /\ \A i \in Int: p + i - 1 = n + i
    BY <2>4 DEF p
  <2>6. (IF p <= Len(leaf) THEN Len(leaf) - p + 1 ELSE 0) = Len(leaf) - n
    BY <2>4 DEF p
  <2>7. Len(behind) = Len(leaf) - n
    BY <2>3, <2>6
  <2>8. ASSUME NEW i \in 1 .. Len(leaf) - n PROVE behind[i] = leaf[n + i]
    <3>1. i \in 1 .. Len(leaf) - p + 1
      BY <2>5
    <3>2. p + i - 1 = n + i
      BY <2>5
    <3>3. behind[i] = leaf[p + i - 1]
      BY <2>3, <3>1
    <3> QED
      BY <3>2, <3>3
  <2> QED
    BY <2>3, <2>7, <2>8
<1> HIDE DEF before, behind
<1>7. n \in 1 .. Len(leaf) /\ Len(leaf) \in Nat /\ (n - 1) + (Len(leaf) - n) = Len(leaf) - 1
  BY <1>1, <1>2
<1>8. /\ less \in Seq(Entries) /\ Len(less) = Len(leaf) - 1 /\ DOMAIN less = 1 .. Len(leaf) - 1
      /\ \A i \in 1 .. Len(leaf) - 1: less[i] = IF i < n THEN leaf[i] ELSE leaf[i + 1]
  <2>1. /\ less \in Seq(Entries) /\ Len(less) = (n - 1) + (Len(leaf) - n)
        /\ \A i \in 1 .. (n - 1) + (Len(leaf) - n):
             less[i] = IF i <= n - 1 THEN before[i] ELSE behind[i - (n - 1)]
    BY <1>4, <1>5, <1>6, ConcatProperties
  <2>2. Len(less) = Len(leaf) - 1
    BY <1>7, <2>1
  <2>3. ASSUME NEW i \in 1 .. Len(leaf) - 1 PROVE less[i] = IF i < n THEN leaf[i] ELSE leaf[i + 1]
    <3>1. less[i] = IF i <= n - 1 THEN before[i] ELSE behind[i - (n - 1)]
      BY <1>7, <2>1
    <3>2. CASE i < n
      <4>1. i <= n - 1 /\ i \in 1 .. n - 1
        BY <1>7, <3>2
      <4> QED
        BY <1>5, <3>1, <3>2, <4>1
    <3>3. CASE ~(i < n)
      <4>1. ~(i <= n - 1) /\ i - (n - 1) \in 1 .. Len(leaf) - n /\ n + (i - (n - 1)) = i + 1
        BY <1>7, <3>3
      <4> QED
        BY <1>6, <3>1, <3>3, <4>1
    <3> QED
      BY <3>2, <3>3
  <2> QED
    BY <2>1, <2>2, <2>3, LenProperties
<1>9. \A i, j \in 1 .. Len(leaf): i < j => leaf[i].key < leaf[j].key
  BY <1>1 DEF Sorted
<1>10. Sorted(less)
  <2> SUFFICES ASSUME NEW i \in 1 .. Len(leaf) - 1, NEW j \in 1 .. Len(leaf) - 1, i < j
               PROVE less[i].key < less[j].key
    BY <1>8 DEF Sorted
  <2>1. /\ i \in 1 .. Len(leaf) /\ i + 1 \in 1 .. Len(leaf)
        /\ j \in 1 .. Len(leaf) /\ j + 1 \in 1 .. Len(leaf)
        /\ i < j + 1 /\ i + 1 < j + 1 /\ (j < n => i < n)
    BY <1>7
  <2> QED
    BY <1>8, <1>9, <2>1
<1>11. Leaf(less)
  <2>1. Len(less) <= Order
    BY <1>1, <1>8
  <2> QED
    BY <1>8, <1>10, <2>1 DEF Leaf
<1>12. Maps(less, f)
  <2>1. /\ \A i \in 1 .. Len(leaf): leaf[i].key \in DOMAIN e /\ e[leaf[i].key] = leaf[i].value
        /\ \A y \in DOMAIN e: \E i \in 1 .. Len(leaf): leaf[i].key = y
        /\ IsFiniteSet(DOMAIN e) /\ Cardinality(DOMAIN e) = Len(leaf)
    BY DEF Maps
  <2>2. /\ DOMAIN f = DOMAIN e \ {k} /\ f = [y \in DOMAIN f |-> f[y]]
        /\ \A y \in DOMAIN f: f[y] = e[y]
    BY DEF Restrict
  <2> HIDE DEF f
  <2>3. IsFiniteSet(DOMAIN f) /\ Cardinality(DOMAIN f) = Len(less)
    BY <1>2, <1>8, <2>1, <2>2, FS_RemoveElement
  <2>4. ASSUME NEW i \in 1 .. Len(less) PROVE \E p \in 1 .. Len(leaf): p # n /\ less[i] = leaf[p]
    <3>1. CASE i < n
      BY <1>7, <1>8, <3>1
    <3>2. CASE ~(i < n)
      <4>1. i + 1 \in 1 .. Len(leaf) /\ i + 1 # n
        BY <1>7, <1>8, <3>2
      <4> QED
        BY <1>8, <3>2, <4>1
    <3> QED
      BY <3>1, <3>2
  <2>5. ASSUME NEW p \in 1 .. Len(leaf), p # n PROVE leaf[p].key # k /\ \E i \in 1 .. Len(less): less[i] = leaf[p]
    <3>1. leaf[p].key # k
      <4>1. p < n \/ n < p
        BY <1>7, <2>5
      <4>2. leaf[p].key < leaf[n].key \/ leaf[n].key < leaf[p].key
        BY <1>7, <1>9, <4>1
      <4>3. leaf[p].key \in Int /\ leaf[n].key \in Int
        BY <1>3, <1>7
      <4> QED
        BY <1>2, <4>2, <4>3
    <3>2. CASE p < n
      <4>1. p \in 1 .. Len(less) /\ less[p] = leaf[p]
        BY <1>7, <1>8, <3>2
      <4> QED
        BY <3>1, <4>1
    <3>3. CASE ~(p < n)
      <4>1. p - 1 \in 1 .. Len(leaf) - 1 /\ ~(p - 1 < n) /\ (p - 1) + 1 = p
        BY <1>7, <2>5, <3>3
      <4>2. p - 1 \in 1 .. Len(less) /\ less[p - 1] = leaf[p]
        BY <1>8, <4>1
      <4> QED
        BY <3>1, <4>2
    <3> QED
      BY <3>2, <3>3
  <2>6. \A i \in 1 .. Len(less): less[i].key \in DOMAIN f /\ f[less[i].key] = less[i].value
    BY <2>1, <2>2, <2>4, <2>5
  <2>7. ASSUME NEW y \in DOMAIN f PROVE \E i \in 1 .. Len(less): less[i].key = y
    <3>1. PICK p \in 1 .. Len(leaf): leaf[p].key = y
      BY <2>1, <2>2
    <3>2. p # n
      BY <1>2, <2>2, <3>1
    <3> QED
      BY <2>5, <3>1, <3>2
  <2> QED
    BY <2>2, <2>3, <2>6, <2>7 DEF Maps
<1> QED
  BY <1>8, <1>11, <1>12 DEF less, n


\* What stays when a full leaf is split, and what goes.
LEMMA Splitting ==
  ASSUME NEW leaf, Leaf(leaf), Len(leaf) = Order
  PROVE Leaf(Kept(leaf)) /\ Kept(leaf) # <<>> /\ Moved(leaf) \in Seq(Entries)
<1> DEFINE h == (Order + 1) \div 2
           kept == SubSeq(leaf, 1, h)
           moved == SubSeq(leaf, h + 1, Order)
<1>1. h \in 1 .. Order /\ Order \in Nat
  BY OrderAssumption
<1>2. leaf \in Seq(Entries) /\ Sorted(leaf) /\ DOMAIN leaf = 1 .. Order
  BY LenProperties DEF Leaf
<1>3. \A i \in 1 .. Order: leaf[i] \in Entries
  BY <1>2, ElementOfSeq, LenProperties
<1> HIDE DEF h
<1>4. /\ kept \in Seq(Entries) /\ Len(kept) = h
      /\ \A i \in 1 .. h: kept[i] = leaf[i]
  <2>1. h \in Int /\ 1 \in Int /\ \A i \in 1 .. h: leaf[i] \in Entries
    BY <1>1, <1>3
  <2>2. /\ kept \in Seq(Entries)
        /\ Len(kept) = IF 1 <= h THEN h - 1 + 1 ELSE 0
        /\ \A i \in 1 .. h - 1 + 1: kept[i] = leaf[1 + i - 1]
    BY <2>1, SubSeqProperties
  <2> QED
    BY <1>1, <2>2
<1>5. moved \in Seq(Entries)
  <2> DEFINE p == h + 1
  <2>1. p \in Int /\ Order \in Int /\ \A i \in p .. Order: leaf[i] \in Entries
    BY <1>1, <1>3
  <2> HIDE DEF p
  <2>2. SubSeq(leaf, p, Order) \in Seq(Entries)
    BY <2>1, SubSeqProperties
  <2> QED
    BY <2>2 DEF p
<1> HIDE DEF kept
<1>6. Sorted(kept)
  <2>1. DOMAIN kept = 1 .. h
    BY <1>4, LenProperties
  <2>2. \A i \in 1 .. h: i \in 1 .. Order
    BY <1>1
  <2>3. \A i, j \in 1 .. Order: i < j => leaf[i].key < leaf[j].key
    BY <1>2 DEF Sorted
  <2> QED
    BY <1>4, <2>1, <2>2, <2>3 DEF Sorted
<1>7. Len(kept) <= Order /\ Len(kept) # 0
  BY <1>1, <1>4
<1>8. Leaf(kept) /\ kept # <<>>
  BY <1>4, <1>6, <1>7, EmptySeq DEF Leaf
<1> QED
  BY <1>5, <1>8 DEF kept, h, Kept, Moved

\* An empty tree has no leaf.
LEMMA Emptied ==
  /\ Leaf(<<>>) /\ Maps(<<>>, <<>>) /\ <<>> \in Rows
  /\ \A e: Maps(<<>>, e) => e = <<>>
<1>1. <<>> \in Seq(Entries) /\ Len(<<>>) = 0 /\ DOMAIN <<>> = {}
  BY EmptySeq
<1>2. Leaf(<<>>)
  BY <1>1, OrderAssumption DEF Leaf, Sorted
<1>3. IsFiniteSet({}) /\ Cardinality({}) = 0
  BY FS_EmptySet
<1>4. <<>> = [x \in DOMAIN <<>> |-> <<>>[x]]
  OBVIOUS
<1>5. ASSUME NEW e, Maps(<<>>, e) PROVE e = <<>>
  <2>1. e = [x \in DOMAIN e |-> e[x]] /\ DOMAIN e = {}
    BY <1>1, <1>5 DEF Maps
  <2> QED
    BY <1>1, <1>4, <2>1
<1> QED
  BY <1>1, <1>2, <1>3, <1>4, <1>5 DEF Maps, Rows

\* A key that is not in the leaf is not in the map.
LEMMA Missing ==
  ASSUME NEW leaf \in Seq(Entries), NEW k, ~Holds(leaf, k), NEW e, Maps(leaf, e)
  PROVE k \notin DOMAIN e /\ Restrict(e, DOMAIN e \ {k}) = e
<1>1. DOMAIN leaf = 1 .. Len(leaf)
  BY LenProperties
<1>2. k \notin DOMAIN e
  BY <1>1 DEF Maps, Holds
<1>3. DOMAIN e \ {k} = DOMAIN e /\ e = [x \in DOMAIN e |-> e[x]]
  BY <1>2 DEF Maps
<1> QED
  BY <1>2, <1>3 DEF Restrict

\* The map a leaf stands for is what its entries say.
LEMMA Reading ==
  ASSUME NEW leaf, Leaf(leaf), NEW e, Maps(leaf, e)
  PROVE Contents(leaf) = e
<1>1. leaf \in Seq(Entries) /\ DOMAIN leaf = 1 .. Len(leaf)
  BY LenProperties DEF Leaf
<1>2. /\ e = [x \in DOMAIN e |-> e[x]]
      /\ \A i \in 1 .. Len(leaf): leaf[i].key \in DOMAIN e /\ e[leaf[i].key] = leaf[i].value
      /\ \A x \in DOMAIN e: \E i \in 1 .. Len(leaf): leaf[i].key = x
  BY DEF Maps
<1> DEFINE S == {leaf[i].key : i \in DOMAIN leaf}
           At(k) == CHOOSE i \in DOMAIN leaf : leaf[i].key = k
<1>3. S = DOMAIN e
  BY <1>1, <1>2
<1>4. ASSUME NEW k \in S PROVE leaf[At(k)].value = e[k]
  <2>1. \E i \in DOMAIN leaf: leaf[i].key = k
    OBVIOUS
  <2>2. At(k) \in DOMAIN leaf /\ leaf[At(k)].key = k
    BY <2>1
  <2> HIDE DEF At
  <2> QED
    BY <1>1, <1>2, <2>2
<1>5. Contents(leaf) = [k \in S |-> leaf[At(k)].value]
  BY DEF Contents
<1> HIDE DEF S, At
<1>6. [k \in S |-> leaf[At(k)].value] = [k \in DOMAIN e |-> e[k]]
  BY <1>3, <1>4
<1> QED
  BY <1>2, <1>5, <1>6


-----------------------------------------------------------------------------
(* Trees in memory. *)

\* What the last snapshot names is not touched.
Keeps(m, n) == \A s \in PageNr: Safe(m, s) => Safe(n, s) /\ n.pages[s] = m.pages[s]

\* What an operation of a tree leaves behind, whatever it does.
Left(m, r) ==
  /\ r.m \in Memories(Rows) /\ r.m.last \in m.last .. m.last + 3
  /\ r.m.writable \subseteq 2 .. r.m.last /\ FreePages(r.m) \subseteq 2 .. r.m.last
  /\ Rooted(r.m, r.nr) /\ Keeps(m, r.m)

\* What it leaves if the tree did not have to grow: a tree that stands for e.
Stands(m, r, e) ==
  /\ Left(m, r) /\ r.m.panicked = m.panicked
  /\ Maps(LeafAt(r.m, r.nr), e) /\ Shared(r.m, Owned(r.nr))

\* The memory an operation starts with.
Ready(m, nr) ==
  /\ m \in Memories(Rows) /\ m.last + 3 <= LastNr /\ m.writable \subseteq 2 .. m.last
  /\ Rooted(m, nr) /\ Shared(m, Owned(nr))

LEMMA Owning == ASSUME NEW nr \in PageNr
                PROVE /\ Owned(nr) \in SUBSET Nat /\ IsFiniteSet(Owned(nr))
                      /\ Owned(nr) \ {nr} = {} /\ PageNr \subseteq Nat
                      /\ nr # Null => Owned(nr) = {nr}
<1>1. PageNr \subseteq Nat
  BY LastNrAssumption DEF PageNr
<1>2. IsFiniteSet({nr})
  BY FS_Singleton
<1>3. IsFiniteSet(Owned(nr))
  BY <1>2, FS_Subset DEF Owned
<1> QED
  BY <1>1, <1>3 DEF Owned

LEMMA KeptOn ==
  ASSUME NEW m, NEW n, NEW o, Keeps(m, n), Keeps(n, o)
  PROVE Keeps(m, o)
BY DEF Keeps

\* A page that is opened is none that the last snapshot names.
LEMMA KeptOpen ==
  ASSUME NEW m, NEW r, NEW nr, NEW used, Opens(m, r, nr, used)
  PROVE Keeps(m, r.m)
<1>1. \A s \in PageNr: s \in Nat
  BY LastNrAssumption DEF PageNr
<1> QED
  BY <1>1 DEF Opens, Keeps

\* A leaf in a page of its own, which is new.
LEMMA Allocating ==
  ASSUME NEW m \in Memories(Rows), NEW used \in SUBSET Nat, IsFiniteSet(used), Shared(m, used)
  PROVE AllocateLeaf(m) \in [nr: Nat, m: Memories(Rows)] /\ Opens(m, AllocateLeaf(m), Null, used)
<1> DEFINE r == Obtain(m)
<1>1. r \in [nr: Nat, m: Memories(Rows)] /\ Opens(m, r, Null, used)
  BY Creating
<1>2. AllocateLeaf(m) = Filled(r, <<>>)
  BY DEF AllocateLeaf, Filled
<1>3. <<>> \in Rows
  BY Emptied
<1> HIDE DEF r
<1>4. Filled(r, <<>>) \in [nr: Nat, m: Memories(Rows)] /\ Opens(m, Filled(r, <<>>), Null, used)
  BY <1>1, <1>3, OpensFilled
<1> QED
  BY <1>2, <1>4

\* The page that takes the changed leaf.
LEMMA Writing ==
  ASSUME NEW m, NEW nr, Ready(m, nr)
  PROVE LET page == IF nr = Null THEN AllocateLeaf(m) ELSE PageMut(m, nr) IN
        page \in [nr: Nat, m: Memories(Rows)] /\ Opens(m, page, nr, Owned(nr))
<1>1. m \in Memories(Rows) /\ nr \in PageNr /\ Shared(m, Owned(nr))
  BY DEF Ready, Rooted
<1>2. Owned(nr) \in SUBSET Nat /\ IsFiniteSet(Owned(nr))
  BY <1>1, Owning
<1>3. CASE nr = Null
  BY <1>1, <1>2, <1>3, Allocating
<1>4. CASE nr # Null
  <2>1. nr \in Owned(nr)
    BY <1>4 DEF Owned
  <2>2. PageMut(m, nr) \in [nr: Nat, m: Memories(Rows)] /\ Opens(m, PageMut(m, nr), nr, Owned(nr))
    BY <1>1, <1>2, <2>1, Opening
  <2> QED
    BY <1>4, <2>2
<1> QED
  BY <1>3, <1>4

\* The changed leaf is in its page.
LEMMA Storing ==
  ASSUME NEW m, NEW nr, Ready(m, nr), NEW page \in [nr: Nat, m: Memories(Rows)],
         Opens(m, page, nr, Owned(nr)), NEW leaf, Leaf(leaf), leaf # <<>>, NEW e, Maps(leaf, e)
  PROVE Stands(m, SetLeaf(page, leaf), e) /\ SetLeaf(page, leaf).nr = page.nr
<1> DEFINE r == SetLeaf(page, leaf)
<1>1. m \in Memories(Rows) /\ m.last + 3 <= LastNr /\ m.writable \subseteq 2 .. m.last /\ nr \in PageNr
  BY DEF Ready, Rooted
<1>2. leaf \in Rows
  BY DEF Leaf, Rows
<1>3. r = Filled(page, leaf)
  BY DEF SetLeaf, Filled
<1>4. /\ r \in [nr: Nat, m: Memories(Rows)] /\ r.nr = page.nr
      /\ r.m.pages = [page.m.pages EXCEPT ![page.nr] = leaf]
  BY <1>2, <1>3, Filling
<1>5. Opens(m, r, nr, Owned(nr))
  BY <1>1, <1>2, <1>3, OpensFilled
<1> HIDE DEF r
<1>6. /\ r.nr \in 2 .. r.m.last /\ r.m.last \in m.last .. m.last + 1 /\ r.m.panicked = m.panicked
      /\ r.m.writable = m.writable \cup {r.nr} /\ Shared(r.m, (Owned(nr) \ {nr}) \cup {r.nr})
  BY <1>5 DEF Opens
<1>7. m.last \in Nat
  BY <1>1, Listed
<1>8. r.nr \in PageNr /\ r.nr # Null
  BY <1>1, <1>6, <1>7, LastNrAssumption DEF PageNr, Null
<1>9. (Owned(nr) \ {nr}) \cup {r.nr} = Owned(r.nr)
  BY <1>1, <1>8, Owning
<1>10. page.m.pages \in [PageNr -> Rows]
  BY DEF Memories
<1>11. LeafAt(r.m, r.nr) = leaf
  BY <1>4, <1>8, <1>10 DEF LeafAt
<1>12. Rooted(r.m, r.nr)
  BY <1>8, <1>11 DEF Rooted
<1>13. r.m.writable \subseteq 2 .. r.m.last /\ r.m.last \in m.last .. m.last + 3
  BY <1>1, <1>6, <1>7
<1>14. FreePages(r.m) \subseteq 2 .. r.m.last
  BY <1>6 DEF Shared
<1>15. Keeps(m, r.m)
  BY <1>5, KeptOpen
<1>16. Left(m, r)
  BY <1>4, <1>12, <1>13, <1>14, <1>15 DEF Left
<1>17. Stands(m, r, e)
  BY <1>6, <1>9, <1>11, <1>16 DEF Stands
<1> QED
  BY <1>4, <1>17 DEF r

\* When the tree has to grow, the leaf keeps half of its entries.
LEMMA Growing ==
  ASSUME NEW m, NEW nr, Ready(m, nr), NEW page \in [nr: Nat, m: Memories(Rows)],
         Opens(m, page, nr, Owned(nr)), NEW leaf, Leaf(leaf), Len(leaf) = Order
  PROVE Left(m, Grow(page, leaf)) /\ Grow(page, leaf).m.panicked = "grow"
<1> DEFINE a == AllocateLeaf(page.m)
           other == Filled(a, Moved(leaf))
           b == AllocateLeaf(other.m)
           r == Grow(page, leaf)
           u == {page.nr}
           v == {page.nr, a.nr}
<1>1. m \in Memories(Rows) /\ m.last + 3 <= LastNr /\ m.writable \subseteq 2 .. m.last /\ nr \in PageNr
  BY DEF Ready, Rooted
<1>2. Leaf(Kept(leaf)) /\ Kept(leaf) # <<>> /\ Kept(leaf) \in Rows /\ Moved(leaf) \in Rows
  BY Splitting DEF Leaf, Rows
<1>3. m.last \in Nat /\ page.m \in Memories(Rows) /\ page.nr \in Nat
  BY <1>1, Listed
<1>4. /\ page.nr \in 2 .. page.m.last /\ page.m.last \in m.last .. m.last + 1
      /\ page.m.writable = m.writable \cup {page.nr} /\ Shared(page.m, u)
      /\ \A s \in Nat: Safe(m, s) => page.nr # s
  <2>1. (Owned(nr) \ {nr}) \cup {page.nr} = u
    BY <1>1, Owning
  <2> QED
    BY <2>1 DEF Opens
<1>5. IsFiniteSet(u) /\ u \in SUBSET Nat
  BY <1>3, FS_Singleton
<1>6. a \in [nr: Nat, m: Memories(Rows)] /\ Opens(page.m, a, Null, u)
  BY <1>3, <1>4, <1>5, Allocating
<1> HIDE DEF a
<1>7. other \in [nr: Nat, m: Memories(Rows)] /\ Opens(page.m, other, Null, u) /\ other.nr = a.nr
  <2> DEFINE x == Moved(leaf)
  <2>1. x \in Rows
    BY <1>2
  <2> HIDE DEF x
  <2>2. Filled(a, x) \in [nr: Nat, m: Memories(Rows)] /\ Opens(page.m, Filled(a, x), Null, u)
    BY <1>3, <1>6, <2>1, OpensFilled
  <2>3. Filled(a, x).nr = a.nr
    BY <1>6 DEF Filled
  <2> QED
    BY <2>2, <2>3 DEF x
<1> HIDE DEF other
<1>8. /\ a.nr \in 2 .. other.m.last /\ other.m.last \in page.m.last .. page.m.last + 1
      /\ other.m.writable = page.m.writable \cup {a.nr} /\ Shared(other.m, v)
  <2>1. (u \ {Null}) \cup {other.nr} = v
    <3>1. page.nr # Null
      BY <1>4 DEF Null
    <3> QED
      BY <1>7, <3>1
  <2> QED
    BY <1>7, <2>1 DEF Opens
<1>9. IsFiniteSet(v) /\ v \in SUBSET Nat
  <2>1. v = u \cup {a.nr}
    OBVIOUS
  <2>2. IsFiniteSet(u \cup {a.nr})
    BY <1>5, FS_AddElement
  <2> QED
    BY <1>5, <1>6, <2>1, <2>2
<1>10. other.m \in Memories(Rows)
  BY <1>7
<1>11. b \in [nr: Nat, m: Memories(Rows)] /\ Opens(other.m, b, Null, v)
  BY <1>8, <1>9, <1>10, Allocating
<1>12. r = [nr |-> page.nr, m |-> [[b.m EXCEPT !.pages[page.nr] = Kept(leaf)] EXCEPT !.panicked = "grow"]]
  BY DEF Grow, Failed, b, other, a, Filled
<1> HIDE DEF b, u, v
<1>13. /\ b.nr \in 2 .. b.m.last /\ b.m.last \in other.m.last .. other.m.last + 1
       /\ b.m.writable = other.m.writable \cup {b.nr} /\ FreePages(b.m) \subseteq 2 .. b.m.last
  BY <1>11 DEF Opens, Shared
<1>14. b.m \in Memories(Rows) /\ b.m.pages \in [PageNr -> Rows]
  BY <1>11 DEF Memories
<1>15. /\ r.nr = page.nr /\ r.m \in Memories(Rows) /\ r.m.panicked = "grow"
       /\ r.m.pages = [b.m.pages EXCEPT ![page.nr] = Kept(leaf)]
       /\ r.m.writable = b.m.writable /\ r.m.last = b.m.last
       /\ r.m.cur = b.m.cur /\ r.m.prev = b.m.prev
  <2> DEFINE t == [b.m EXCEPT !.pages[page.nr] = Kept(leaf)]
  <2>1. /\ t \in Memories(Rows) /\ t.pages = [b.m.pages EXCEPT ![page.nr] = Kept(leaf)]
        /\ t.writable = b.m.writable /\ t.last = b.m.last /\ t.cur = b.m.cur /\ t.prev = b.m.prev
    BY <1>2, <1>14 DEF Memories
  <2> DEFINE o == [t EXCEPT !.panicked = "grow"]
  <2>2. r.nr = page.nr /\ r.m = o
    BY <1>12
  <2> HIDE DEF t, r
  <2>3. o \in Memories(Rows)
    BY <2>1 DEF Memories, Reasons
  <2>4. /\ o.panicked = "grow" /\ o.pages = t.pages /\ o.writable = t.writable
        /\ o.last = t.last /\ o.cur = t.cur /\ o.prev = t.prev
    BY <2>1 DEF Memories
  <2> HIDE DEF o
  <2> QED
    BY <2>1, <2>2, <2>3, <2>4
<1> HIDE DEF r
<1>16. /\ r.m.last \in m.last .. m.last + 3 /\ page.nr \in 2 .. r.m.last
       /\ a.nr \in 2 .. r.m.last /\ b.nr \in 2 .. r.m.last /\ r.m.last <= LastNr
       /\ m.last <= r.m.last
  <2>1. /\ m.last \in Nat /\ m.last + 3 <= LastNr /\ LastNr \in Nat
        /\ page.m.last \in m.last .. m.last + 1 /\ page.nr \in 2 .. page.m.last
    BY <1>1, <1>3, <1>4, LastNrAssumption
  <2>2. other.m.last \in page.m.last .. page.m.last + 1 /\ a.nr \in 2 .. other.m.last
    BY <1>8
  <2>3. b.m.last \in other.m.last .. other.m.last + 1 /\ b.nr \in 2 .. b.m.last /\ r.m.last = b.m.last
    BY <1>13, <1>15
  <2>4. /\ page.m.last \in Nat /\ page.m.last <= m.last + 1 /\ m.last <= page.m.last
        /\ page.nr \in Nat /\ page.nr <= page.m.last
    BY <2>1
  <2>5. /\ other.m.last \in Nat /\ other.m.last <= m.last + 2 /\ page.m.last <= other.m.last
        /\ a.nr \in Nat /\ a.nr <= other.m.last
    BY <2>1, <2>2, <2>4
  <2>6. /\ b.m.last \in Nat /\ b.m.last <= m.last + 3 /\ other.m.last <= b.m.last
        /\ b.nr \in Nat /\ b.nr <= b.m.last
    <3>1. b.m.last \in Nat /\ b.m.last <= other.m.last + 1 /\ other.m.last <= b.m.last
      BY <2>3, <2>5
    <3>2. b.nr \in Nat /\ b.nr <= b.m.last
      BY <2>3, <3>1
    <3>3. b.m.last <= m.last + 3
      <4>1. m.last \in Nat /\ other.m.last \in Nat /\ other.m.last <= m.last + 2
        BY <2>1, <2>5
      <4> QED
        BY <3>1, <4>1
    <3> QED
      BY <3>1, <3>2, <3>3
  <2>7. m.last <= b.m.last /\ b.m.last <= LastNr /\ a.nr <= b.m.last /\ page.nr <= b.m.last
    <3>1. /\ m.last \in Nat /\ LastNr \in Nat /\ m.last + 3 <= LastNr /\ page.m.last \in Nat
          /\ other.m.last \in Nat /\ b.m.last \in Nat
          /\ a.nr \in Nat /\ page.nr \in Nat
      BY <2>1, <2>4, <2>5, <2>6
    <3>2. b.m.last <= LastNr
      BY <2>6, <3>1
    <3>3. other.m.last <= b.m.last /\ page.m.last <= b.m.last
      BY <2>5, <2>6, <3>1
    <3> QED
      BY <2>4, <2>5, <3>1, <3>2, <3>3
  <2>8. page.nr >= 2 /\ a.nr >= 2 /\ b.nr >= 2
    BY <2>1, <2>2, <2>3, <2>4, <2>5, <2>6
  <2> QED
    BY <2>1, <2>3, <2>4, <2>5, <2>6, <2>7, <2>8
<1>17. r.m.writable \subseteq 2 .. r.m.last
  <2>1. r.m.writable = m.writable \cup {page.nr, a.nr, b.nr}
    BY <1>4, <1>8, <1>13, <1>15
  <2>2. 2 .. m.last \subseteq 2 .. r.m.last
    BY <1>3, <1>16
  <2> QED
    BY <1>1, <1>16, <2>1, <2>2
<1>18. FreePages(r.m) \subseteq 2 .. r.m.last
  BY <1>13, <1>15 DEF FreePages
<1>19. page.nr \in PageNr /\ page.nr # Null
  BY <1>16, LastNrAssumption, <1>1, <1>3 DEF PageNr, Null
<1>20. LeafAt(r.m, r.nr) = Kept(leaf)
  BY <1>14, <1>15, <1>19 DEF LeafAt
<1>21. Rooted(r.m, r.nr)
  BY <1>2, <1>15, <1>19, <1>20 DEF Rooted
<1>22. Keeps(m, r.m)
  <2>1. Keeps(m, page.m) /\ Keeps(page.m, other.m) /\ Keeps(other.m, b.m)
    BY <1>7, <1>11, KeptOpen
  <2>2. Keeps(m, b.m)
    BY <2>1, KeptOn
  <2>3. \A s \in PageNr: s # page.nr => r.m.pages[s] = b.m.pages[s]
    BY <1>14, <1>15
  <2>4. \A s: Safe(b.m, s) => Safe(r.m, s)
    BY <1>15, SameLists
  <2>5. \A s \in PageNr: Safe(m, s) => s # page.nr
    BY <1>4, LastNrAssumption DEF PageNr
  <2> QED
    BY <2>2, <2>3, <2>4, <2>5 DEF Keeps
<1>23. Left(m, r)
  BY <1>15, <1>16, <1>17, <1>18, <1>21, <1>22 DEF Left
<1> QED
  BY <1>15, <1>23 DEF r


\* Cursor set_value.
LEMMA Setting ==
  ASSUME NEW m, NEW nr, Ready(m, nr), NEW e, Maps(LeafAt(m, nr), e), NEW k \in Keys, NEW x \in Values
  PROVE LET f == Joined(e, k, x)
            r == SetValue(m, nr, k, x)
        IN \/ Stands(m, r, f)
           \/ Left(m, r) /\ r.m.panicked = "grow" /\ Cardinality(DOMAIN f) = Order + 1
<1> DEFINE leaf == LeafAt(m, nr)
           entry == [key |-> k, value |-> x]
           page == IF nr = Null THEN AllocateLeaf(m) ELSE PageMut(m, nr)
           n == Position(leaf, k)
           f == Joined(e, k, x)
           r == SetValue(m, nr, k, x)
<1>1. page \in [nr: Nat, m: Memories(Rows)] /\ Opens(m, page, nr, Owned(nr))
  BY Writing
<1>2. Leaf(leaf) /\ Maps(leaf, e)
  BY DEF Ready, Rooted
<1>3. r = IF Holds(leaf, k) THEN SetLeaf(page, Updated(leaf, k, x))
          ELSE IF Full(leaf) THEN Grow(page, leaf)
          ELSE SetLeaf(page, InsertAt(leaf, n, entry))
  BY DEF SetValue, Updated
<1>4. Len(leaf) \in Nat /\ Len(leaf) <= Order /\ Order \in Nat
  BY <1>2, LenProperties, OrderAssumption DEF Leaf
<1> HIDE DEF leaf, page, r, f
<1>5. CASE Holds(leaf, k)
  <2> DEFINE more == Updated(leaf, k, x)
  <2>1. Leaf(more) /\ more # <<>> /\ Maps(more, f)
    BY <1>2, <1>5, Updating DEF f
  <2>2. r = SetLeaf(page, more)
    BY <1>3, <1>5
  <2> HIDE DEF more
  <2>3. Stands(m, r, f)
    BY <1>1, <2>1, <2>2, Storing
  <2> QED
    BY <2>3 DEF r, f
<1>6. CASE ~Holds(leaf, k) /\ Full(leaf)
  <2>1. Len(leaf) = Order
    BY <1>4, <1>6 DEF Full
  <2>2. r = Grow(page, leaf)
    BY <1>3, <1>6
  <2>3. Left(m, r) /\ r.m.panicked = "grow"
    BY <1>1, <1>2, <2>1, <2>2, Growing
  <2>4. k \notin DOMAIN e /\ IsFiniteSet(DOMAIN e) /\ Cardinality(DOMAIN e) = Order
    BY <1>2, <1>6, <2>1, Missing DEF Leaf, Maps
  <2>5. DOMAIN f = DOMAIN e \cup {k}
    BY DEF f, Joined
  <2>6. Cardinality(DOMAIN f) = Order + 1
    BY <2>4, <2>5, FS_AddElement
  <2> QED
    BY <2>3, <2>6 DEF r, f
<1>7. CASE ~Holds(leaf, k) /\ ~Full(leaf)
  <2> DEFINE more == InsertAt(leaf, n, entry)
  <2>1. Len(leaf) < Order
    BY <1>4, <1>7 DEF Full
  <2>2. Leaf(more) /\ more # <<>> /\ Maps(more, f)
    BY <1>2, <1>7, <2>1, Inserting DEF f
  <2>3. r = SetLeaf(page, more)
    BY <1>3, <1>7
  <2> HIDE DEF more
  <2>4. Stands(m, r, f)
    BY <1>1, <2>2, <2>3, Storing
  <2> QED
    BY <2>4 DEF r, f
<1> QED
  BY <1>5, <1>6, <1>7

\* The root page is given back.
LEMMA Dropping ==
  ASSUME NEW m \in Memories(Rows), NEW nr \in PageNr, nr # Null, Shared(m, Owned(nr)),
         m.writable \subseteq 2 .. m.last
  PROVE Stands(m, [nr |-> Null, m |-> Deallocate(m, nr)], <<>>)
<1> DEFINE n == Deallocate(m, nr)
           r == [nr |-> Null, m |-> n]
<1>1. Owned(nr) = {nr} /\ Owned(nr) \in SUBSET Nat /\ IsFiniteSet(Owned(nr))
  BY Owning
<1>2. nr \in Owned(nr) /\ Owned(nr) \ {nr} = Owned(Null)
  BY <1>1 DEF Owned
<1>3. /\ n \in Memories(Rows) /\ Shared(n, Owned(Null))
      /\ n.pages = m.pages /\ n.panicked = m.panicked /\ n.writable = m.writable /\ n.last = m.last
      /\ Exposed(n) = Exposed(m)
  BY <1>1, <1>2, Deallocating
<1>4. r.nr = Null /\ r.m = n
  OBVIOUS
<1> HIDE DEF n, r
<1>5. LeafAt(n, Null) = <<>> /\ Rooted(n, Null)
  BY Emptied, LastNrAssumption DEF LeafAt, Rooted, PageNr, Null
<1>6. Keeps(m, n)
  BY <1>3 DEF Keeps, Safe
<1>7. m.last \in Nat
  BY Listed
<1>8. n.last \in m.last .. m.last + 3 /\ n.writable \subseteq 2 .. n.last
  BY <1>3, <1>7
<1>9. FreePages(n) \subseteq 2 .. n.last
  BY <1>3 DEF Shared
<1>10. Left(m, r)
  BY <1>3, <1>4, <1>5, <1>6, <1>8, <1>9 DEF Left
<1>11. Stands(m, r, <<>>)
  BY <1>3, <1>4, <1>5, <1>10, Emptied DEF Stands
<1> QED
  BY <1>11 DEF r, n

\* Cursor delete.
LEMMA Deleting ==
  ASSUME NEW m, NEW nr, Ready(m, nr), NEW e, Maps(LeafAt(m, nr), e), NEW k \in Keys
  PROVE Stands(m, Delete(m, nr, k), Restrict(e, DOMAIN e \ {k}))
<1> DEFINE leaf == LeafAt(m, nr)
           n == Position(leaf, k)
           less == RemoveAt(leaf, n)
           page == PageMut(m, nr)
           rest == SetLeaf(page, less)
           r == Delete(m, nr, k)
           f == Restrict(e, DOMAIN e \ {k})
<1>1. /\ m \in Memories(Rows) /\ m.last + 3 <= LastNr /\ m.writable \subseteq 2 .. m.last
      /\ nr \in PageNr /\ Leaf(leaf) /\ (nr = Null <=> leaf = <<>>) /\ Shared(m, Owned(nr))
      /\ Maps(leaf, e) /\ leaf \in Seq(Entries) /\ Len(leaf) \in Nat
  BY LenProperties DEF Ready, Rooted, Leaf
<1>2. m.last \in Nat
  BY <1>1, Listed
<1>3. r = IF ~Holds(leaf, k) THEN [nr |-> nr, m |-> m]
          ELSE IF Len(leaf) > 1 THEN rest
          ELSE [nr |-> Null, m |-> Deallocate(rest.m, rest.nr)]
  BY DEF Delete
<1> HIDE DEF r
<1>4. CASE ~Holds(leaf, k)
  <2>1. r.nr = nr /\ r.m = m
    BY <1>3, <1>4
  <2>2. f = e
    BY <1>1, <1>4, Missing
  <2>3. FreePages(m) \subseteq 2 .. m.last
    BY <1>1 DEF Shared
  <2>4. Keeps(m, m)
    BY DEF Keeps
  <2>5. m.last \in m.last .. m.last + 3
    BY <1>2
  <2>6. Rooted(m, nr)
    BY DEF Ready
  <2> HIDE DEF leaf
  <2>7. Left(m, r)
    BY <1>1, <2>1, <2>3, <2>4, <2>5, <2>6 DEF Left
  <2> QED
    BY <1>1, <2>1, <2>2, <2>7 DEF Stands, leaf, r
<1>5. CASE Holds(leaf, k)
  <2>1. leaf # <<>> /\ nr # Null
    BY <1>1, <1>5 DEF Holds
  <2>2. page \in [nr: Nat, m: Memories(Rows)] /\ Opens(m, page, nr, Owned(nr))
    BY <2>1, Writing
  <2>3. Leaf(less) /\ Len(less) = Len(leaf) - 1 /\ Maps(less, f)
    BY <1>1, <1>5, Removing
  <2> HIDE DEF less, page, f, leaf
  <2>4. CASE Len(leaf) > 1
    <3>1. less # <<>>
      <4>1. Len(leaf) \in Nat /\ Len(less) = Len(leaf) - 1
        BY <1>1, <2>3
      <4>2. Len(less) # 0
        BY <2>4, <4>1
      <4> QED
        BY <4>2, EmptySeq
    <3>2. Stands(m, rest, f)
      BY <2>2, <2>3, <3>1, Storing
    <3> QED
      BY <1>3, <1>5, <2>4, <3>2 DEF r, f
  <2>5. CASE ~(Len(leaf) > 1)
    <3>1. Len(less) = 0 /\ less \in Seq(Entries)
      <4>1. Len(leaf) # 0 /\ Len(leaf) \in Nat
        BY <1>1, <2>1, EmptySeq
      <4>2. \A c \in Nat: c # 0 /\ ~(c > 1) => c = 1
        OBVIOUS
      <4>3. Len(leaf) = 1
        BY <2>5, <4>1, <4>2, Zenon
      <4> QED
        BY <2>3, <4>3 DEF Leaf
    <3>2. less = <<>>
      BY <3>1, EmptySeq
    <3>3. rest = Filled(page, <<>>)
      BY <3>2 DEF SetLeaf, Filled
    <3> DEFINE t == Filled(page, <<>>)
    <3>4. t \in [nr: Nat, m: Memories(Rows)] /\ Opens(m, t, nr, Owned(nr))
      BY <1>1, <2>2, Emptied, OpensFilled
    <3> HIDE DEF t
    <3>5. (Owned(nr) \ {nr}) \cup {t.nr} = {t.nr}
      BY <1>1, Owning
    <3>6. /\ t.nr \in 2 .. t.m.last /\ t.m.last \in m.last .. m.last + 1 /\ t.m.panicked = m.panicked
          /\ t.m.writable = m.writable \cup {t.nr} /\ Shared(t.m, {t.nr})
      BY <3>4, <3>5 DEF Opens
    <3>7. t.nr \in PageNr /\ t.nr # Null /\ t.m.last \in Nat /\ m.last <= t.m.last
      BY <1>1, <1>2, <3>6, LastNrAssumption DEF PageNr, Null
    <3>8. Owned(t.nr) = {t.nr}
      BY <3>7, Owning
    <3>9. t.m.writable \subseteq 2 .. t.m.last
      <4>1. 2 .. m.last \subseteq 2 .. t.m.last
        BY <1>2, <3>7
      <4> QED
        BY <1>1, <3>6, <4>1
    <3> DEFINE o == [nr |-> Null, m |-> Deallocate(t.m, t.nr)]
    <3>10. Stands(t.m, o, <<>>)
      BY <3>4, <3>6, <3>7, <3>8, <3>9, Dropping
    <3>11. r = o
      BY <1>3, <1>5, <2>5, <3>3 DEF t
    <3> HIDE DEF o
    <3>12. /\ Left(t.m, o) /\ o.m.panicked = m.panicked
           /\ Maps(LeafAt(o.m, o.nr), <<>>) /\ Shared(o.m, Owned(o.nr))
      BY <3>6, <3>10 DEF Stands
    <3>13. Keeps(m, o.m)
      <4>1. Keeps(m, t.m)
        BY <3>4, KeptOpen
      <4>2. Keeps(t.m, o.m)
        BY <3>12 DEF Left
      <4> QED
        BY <4>1, <4>2, KeptOn
    <3>14. o.m.last \in m.last .. m.last + 3
      <4>1. t.m \in Memories(Rows) /\ {t.nr} \in SUBSET Nat /\ IsFiniteSet({t.nr}) /\ t.nr \in {t.nr}
        BY <3>4, FS_Singleton
      <4>2. Deallocate(t.m, t.nr).last = t.m.last
        BY <3>6, <4>1, Deallocating
      <4>3. o.m.last = t.m.last
        BY <4>2 DEF o
      <4> QED
        BY <1>2, <3>6, <3>7, <4>3
    <3>15. Left(m, o)
      BY <3>12, <3>13, <3>14 DEF Left
    <3>16. Maps(LeafAt(o.m, o.nr), f)
      <4>1. f = <<>>
        BY <2>3, <3>2, Emptied
      <4> QED
        BY <3>12, <4>1
    <3>17. Stands(m, o, f)
      BY <3>12, <3>15, <3>16 DEF Stands
    <3> QED
      BY <3>11, <3>17 DEF r, f
  <2> QED
    BY <2>4, <2>5
<1> QED
  BY <1>4, <1>5


-----------------------------------------------------------------------------
(* The invariant. *)

LEMMA TreesInit == Init => TreesInv
<1> SUFFICES ASSUME Init PROVE TreesInv
  OBVIOUS
<1>1. /\ mem = EmptyMemory /\ root = Null
      /\ saved = [root |-> Null, cur |-> EmptyFree, prev |-> EmptyFree, last |-> 1]
      /\ entries = <<>> /\ savedEntries = <<>> /\ snapshots = 0 /\ opens = 0
  BY DEF Init
<1>2. EmptyFree \in FreeList /\ EmptyFree.ready = <<>> /\ EmptyFree.kept = <<>>
  BY EmptySeq DEF EmptyFree, FreeList
<1>3. /\ mem.cur = EmptyFree /\ mem.prev = EmptyFree /\ mem.last = 1 /\ mem.writable = {}
      /\ mem.panicked = "no" /\ mem.pages \in [PageNr -> Rows]
  BY <1>1 DEF EmptyMemory, Rows
<1>4. mem \in Memories(Rows)
  BY <1>1, <1>2, <1>3 DEF EmptyMemory, Memories, Reasons
<1>5. saved.root = Null /\ saved.cur = EmptyFree /\ saved.prev = EmptyFree /\ saved.last = 1
  BY <1>1
<1>6. 1 \in 1 .. LastNr /\ Null \in PageNr
  BY BoundsAssumption, LastNrAssumption DEF PageNr, Null
<1>7. saved \in [root: PageNr, cur: FreeList, prev: FreeList, last: 1 .. LastNr]
  BY <1>1, <1>2, <1>6
<1>8. Range(<<>>) = {} /\ IsInjective(<<>>) /\ Len(<<>>) = 0 /\ 2 .. 1 = {}
  BY DEF Range, IsInjective
<1>9. ASSUME NEW f, f.cur = EmptyFree, f.prev = EmptyFree, f.last = 1
      PROVE FreePages(f) = {} /\ Shared(f, {})
  <2>0. f.cur.ready = <<>> /\ f.cur.kept = <<>> /\ f.prev.ready = <<>> /\ f.prev.kept = <<>>
    BY <1>2, <1>9
  <2>1. FreePages(f) = {} /\ FreeCount(f) = 0 /\ Distinct(f)
    <3>1. FreePages(f) = {}
      BY <1>8, <2>0 DEF FreePages
    <3>2. FreeCount(f) = 0
      BY <1>8, <2>0 DEF FreeCount
    <3>3. Distinct(f)
      BY <1>8, <2>0, Zenon DEF Distinct
    <3> QED
      BY <3>1, <3>2, <3>3
  <2>2. Cardinality({}) = 0
    BY FS_EmptySet
  <2> QED
    BY <1>8, <1>9, <2>1, <2>2 DEF Shared
<1>10. Owned(Null) = {}
  BY DEF Owned
<1>11. Shared(mem, Owned(root)) /\ Shared(saved, Owned(saved.root)) /\ FreePages(mem) = {}
  BY <1>1, <1>3, <1>5, <1>9, <1>10
<1>12. LeafAt(mem, Null) = <<>> /\ Rooted(mem, Null)
  BY <1>6, Emptied DEF LeafAt, Rooted
<1>13. Rooted(mem, root) /\ Rooted(mem, saved.root)
  BY <1>1, <1>5, <1>12
<1>14. Maps(LeafAt(mem, root), entries) /\ Maps(LeafAt(mem, saved.root), savedEntries)
  BY <1>1, <1>5, <1>12, Emptied
<1>15. snapshots \in 0 .. MaxSnapshots /\ opens \in 0 .. MaxOpens
  BY <1>1, BoundsAssumption
<1> QED
  BY <1>3, <1>4, <1>5, <1>6, <1>7, <1>10, <1>11, <1>13, <1>14, <1>15 DEF TreesInv

\* The bounds leave room for what one operation obtains.
LEMMA Started ==
  ASSUME TreesInv, Running
  PROVE Ready(mem, root) /\ Maps(LeafAt(mem, root), entries)
<1>1. mem.last + 3 <= LastNr
  <2>1. mem.last \in Int /\ mem.last <= MaxPage
    BY DEF TreesInv, Running
  <2> QED
    BY <2>1, BoundsAssumption, LastNrAssumption
<1> QED
  BY <1>1 DEF TreesInv, Running, Ready

\* An operation that leaves a tree, or one that had to grow.
LEMMA Operated ==
  ASSUME TreesInv, Running, NEW r, Left(mem, r), mem' = r.m, root' = r.nr,
         UNCHANGED <<saved, savedEntries, snapshots, opens>>,
         \/ Stands(mem, r, entries')
         \/ r.m.panicked = "grow" /\ Cardinality(DOMAIN entries') = Order + 1
  PROVE TreesInv'
<1>1. /\ mem' \in Memories(Rows) /\ mem'.last \in mem.last .. mem.last + 3
      /\ mem'.writable \subseteq 2 .. mem'.last /\ FreePages(mem') \subseteq 2 .. mem'.last
      /\ Rooted(mem', root') /\ Keeps(mem, mem')
  BY DEF Left
<1>2. mem'.last \in 1 .. LastNr
  <2>1. mem.last \in 1 .. LastNr /\ mem.last + 3 <= LastNr /\ LastNr \in Nat
    BY Started, LastNrAssumption DEF TreesInv, Ready
  <2> QED
    BY <1>1, <2>1
<1>3. /\ mem'.panicked \in {"no", "grow"}
      /\ mem'.panicked = "no" => Maps(LeafAt(mem', root'), entries') /\ Shared(mem', Owned(root'))
      /\ mem'.panicked = "grow" => Cardinality(DOMAIN entries') = Order + 1
  <2>1. CASE Stands(mem, r, entries')
    BY <2>1 DEF Stands, Running
  <2>2. CASE r.m.panicked = "grow" /\ Cardinality(DOMAIN entries') = Order + 1
    BY <2>2
  <2> QED
    BY <2>1, <2>2
<1>4. /\ Rooted(mem', saved.root) /\ Maps(LeafAt(mem', saved.root), savedEntries)
      /\ \A s \in Owned(saved.root): Safe(mem', s)
  <2>1. /\ Rooted(mem, saved.root) /\ Maps(LeafAt(mem, saved.root), savedEntries)
        /\ \A s \in Owned(saved.root): Safe(mem, s)
    BY DEF TreesInv
  <2>2. saved.root \in PageNr
    BY <2>1 DEF Rooted
  <2>3. \A s \in Owned(saved.root): Safe(mem', s) /\ mem'.pages[s] = mem.pages[s]
    BY <1>1, <2>1, <2>2 DEF Keeps, Owned
  <2>4. LeafAt(mem', saved.root) = LeafAt(mem, saved.root)
    BY <2>3 DEF LeafAt, Owned
  <2> QED
    BY <2>1, <2>3, <2>4 DEF Rooted
<1>5. /\ saved' = saved /\ savedEntries' = savedEntries /\ snapshots' = snapshots /\ opens' = opens
      /\ saved \in [root: PageNr, cur: FreeList, prev: FreeList, last: 1 .. LastNr]
      /\ Shared(saved, Owned(saved.root))
      /\ snapshots \in 0 .. MaxSnapshots /\ opens \in 0 .. MaxOpens
  BY DEF TreesInv
<1> QED
  BY <1>1, <1>2, <1>3, <1>4, <1>5 DEF TreesInv

LEMMA InsertInv ==
  ASSUME TreesInv, NEW k \in Keys, NEW x \in Values, Insert(k, x)
  PROVE TreesInv'
<1> DEFINE r == SetValue(mem, root, k, x)
<1>1. /\ Running /\ mem' = r.m /\ root' = r.nr
      /\ entries' = Joined(entries, k, x)
      /\ UNCHANGED <<saved, savedEntries, snapshots, opens>>
  BY DEF Insert, Put, Joined
<1>2. Ready(mem, root) /\ Maps(LeafAt(mem, root), entries)
  BY <1>1, Started
<1>3. \/ Stands(mem, r, Joined(entries, k, x))
      \/ Left(mem, r) /\ r.m.panicked = "grow" /\ Cardinality(DOMAIN Joined(entries, k, x)) = Order + 1
  BY <1>2, Setting
<1> HIDE DEF r
<1>4. Left(mem, r)
  BY <1>3 DEF Stands
<1> QED
  BY <1>1, <1>3, <1>4, Operated

LEMMA RemoveInv ==
  ASSUME TreesInv, NEW k \in Keys, RemoveKey(k)
  PROVE TreesInv'
<1> DEFINE r == Delete(mem, root, k)
<1>1. /\ Running /\ mem' = r.m /\ root' = r.nr
      /\ entries' = Restrict(entries, DOMAIN entries \ {k})
      /\ UNCHANGED <<saved, savedEntries, snapshots, opens>>
  BY DEF RemoveKey, Put
<1>2. Ready(mem, root) /\ Maps(LeafAt(mem, root), entries)
  BY <1>1, Started
<1>3. Stands(mem, r, Restrict(entries, DOMAIN entries \ {k}))
  BY <1>2, Deleting
<1> HIDE DEF r
<1>4. Left(mem, r)
  BY <1>3 DEF Stands
<1> QED
  BY <1>1, <1>3, <1>4, Operated

LEMMA ClearInv == ASSUME TreesInv, Clear PROVE TreesInv'
<1> DEFINE r == [nr |-> Null, m |-> Deallocate(mem, root)]
<1>1. /\ Running /\ root # Null /\ mem' = r.m /\ root' = r.nr /\ entries' = <<>>
      /\ UNCHANGED <<saved, savedEntries, snapshots, opens>>
  BY DEF Clear
<1>2. Ready(mem, root)
  BY <1>1, Started
<1>3. /\ mem \in Memories(Rows) /\ root \in PageNr /\ Shared(mem, Owned(root))
      /\ mem.writable \subseteq 2 .. mem.last
  BY <1>2 DEF Ready, Rooted
<1>4. Stands(mem, r, <<>>)
  BY <1>1, <1>3, Dropping
<1> HIDE DEF r
<1>5. Left(mem, r)
  BY <1>4 DEF Stands
<1> QED
  BY <1>1, <1>4, <1>5, Operated

LEMMA SnapshotInv == ASSUME TreesInv, Snapshot PROVE TreesInv'
<1> DEFINE n == Sealed(mem)
<1>1. /\ Running /\ snapshots < MaxSnapshots /\ mem' = n
      /\ saved' = [root |-> root, cur |-> mem'.cur, prev |-> mem'.prev, last |-> mem'.last]
      /\ savedEntries' = entries /\ snapshots' = snapshots + 1
      /\ root' = root /\ entries' = entries /\ opens' = opens
  BY DEF Snapshot
<1>2. /\ mem \in Memories(Rows) /\ mem.last \in 1 .. LastNr /\ mem.panicked = "no"
      /\ Rooted(mem, root) /\ Maps(LeafAt(mem, root), entries) /\ Shared(mem, Owned(root))
      /\ snapshots \in 0 .. MaxSnapshots /\ opens \in 0 .. MaxOpens
  BY <1>1 DEF TreesInv, Running
<1>3. /\ n \in Memories(Rows) /\ Shared(n, Owned(root))
      /\ n.pages = mem.pages /\ n.panicked = mem.panicked /\ n.writable = {} /\ n.last = mem.last
      /\ n.cur \in FreeList /\ n.prev \in FreeList
      /\ \A s \in Owned(root): Safe(n, s)
  BY <1>2, Sealing
<1> HIDE DEF n
<1>4. LeafAt(n, root) = LeafAt(mem, root) /\ Rooted(n, root)
  BY <1>2, <1>3 DEF LeafAt, Rooted
<1>5. saved'.root = root /\ saved'.cur = n.cur /\ saved'.prev = n.prev /\ saved'.last = n.last
  BY <1>1
<1>6. root \in PageNr
  BY <1>2 DEF Rooted
<1>7. saved' \in [root: PageNr, cur: FreeList, prev: FreeList, last: 1 .. LastNr]
  BY <1>1, <1>2, <1>3, <1>6
<1>8. Shared(saved', Owned(saved'.root))
  BY <1>3, <1>5, SameLists
<1>9. FreePages(n) \subseteq 2 .. n.last
  BY <1>3 DEF Shared
<1>10. snapshots' \in 0 .. MaxSnapshots
  BY <1>1, <1>2, BoundsAssumption
<1> QED
  BY <1>1, <1>2, <1>3, <1>4, <1>5, <1>7, <1>8, <1>9, <1>10 DEF TreesInv

LEMMA ReopenInv == ASSUME TreesInv, Reopen PROVE TreesInv'
<1> DEFINE n == [mem EXCEPT !.writable = {}, !.cur = saved.cur, !.prev = saved.prev,
                            !.last = saved.last, !.panicked = "no"]
<1>1. /\ opens < MaxOpens /\ mem' = n /\ root' = saved.root
      /\ entries' = savedEntries /\ opens' = opens + 1
      /\ saved' = saved /\ savedEntries' = savedEntries /\ snapshots' = snapshots
  BY DEF Reopen
<1>2. /\ mem \in Memories(Rows)
      /\ saved \in [root: PageNr, cur: FreeList, prev: FreeList, last: 1 .. LastNr]
      /\ Rooted(mem, saved.root) /\ Maps(LeafAt(mem, saved.root), savedEntries)
      /\ Shared(saved, Owned(saved.root))
      /\ snapshots \in 0 .. MaxSnapshots /\ opens \in 0 .. MaxOpens
  BY DEF TreesInv
<1>3. /\ saved.cur \in FreeList /\ saved.prev \in FreeList /\ saved.last \in 1 .. LastNr
      /\ saved.last \in Nat /\ saved.root \in PageNr
  BY <1>2, LastNrAssumption
<1>4. /\ n.pages = mem.pages /\ n.writable = {} /\ n.cur = saved.cur /\ n.prev = saved.prev
      /\ n.last = saved.last /\ n.panicked = "no"
  BY <1>2 DEF Memories
<1>5. n \in Memories(Rows)
  BY <1>2, <1>3 DEF Memories, Reasons
<1> HIDE DEF n
<1>6. Shared(n, Owned(saved.root))
  BY <1>2, <1>4, SameLists
<1>7. LeafAt(n, saved.root) = LeafAt(mem, saved.root) /\ Rooted(n, saved.root)
  BY <1>2, <1>4 DEF LeafAt, Rooted
<1>8. FreePages(n) \subseteq 2 .. n.last /\ n.writable \subseteq 2 .. n.last
  BY <1>4, <1>6 DEF Shared
<1>9. ASSUME NEW s \in Owned(saved.root) PROVE Safe(n, s)
  <2>1. s \notin FreePages(n) /\ s \in 2 .. n.last
    BY <1>6 DEF Shared
  <2>2. n.last \in Nat
    BY <1>3, <1>4
  <2> QED
    BY <1>4, <2>1, <2>2 DEF Safe, Exposed, FreePages
<1>10. opens' \in 0 .. MaxOpens
  BY <1>1, <1>2, BoundsAssumption
<1>11. n.last \in 1 .. LastNr
  BY <1>3, <1>4
<1> QED
  BY <1>1, <1>2, <1>4, <1>5, <1>6, <1>7, <1>8, <1>9, <1>10, <1>11 DEF TreesInv

LEMMA TreesStep == TreesInv /\ [Next]_vars => TreesInv'
<1> SUFFICES ASSUME TreesInv, [Next]_vars PROVE TreesInv'
  OBVIOUS
<1>1. ASSUME NEW k \in Keys, NEW x \in Values, Insert(k, x) PROVE TreesInv'
  BY <1>1, InsertInv
<1>2. ASSUME NEW k \in Keys, RemoveKey(k) PROVE TreesInv'
  BY <1>2, RemoveInv
<1>3. ASSUME Clear PROVE TreesInv'
  BY <1>3, ClearInv
<1>4. ASSUME Snapshot PROVE TreesInv'
  BY <1>4, SnapshotInv
<1>5. ASSUME Reopen PROVE TreesInv'
  BY <1>5, ReopenInv
<1>6. ASSUME UNCHANGED vars PROVE TreesInv'
  BY <1>6 DEF vars, TreesInv
<1> QED
  BY <1>1, <1>2, <1>3, <1>4, <1>5, <1>6 DEF Next

\* A tree and its pages are in order in every state (tree/cursor.rs, lock.rs).
THEOREM TreesInvariant == Spec => []TreesInv
<1>1. Init => TreesInv
  BY TreesInit
<1>2. TreesInv /\ [Next]_vars => TreesInv'
  BY TreesStep
<1> QED
  BY <1>1, <1>2, PTL DEF Spec

\* A tree is well typed and holds exactly what its callers put in, in order of the
\* keys (leaf.rs:69), until it has to grow, which it has with the entry after Order (cursor.rs:189).
THEOREM HoldsTheMap == Spec => []HoldsEntries
<1>1. TreesInv => HoldsEntries
  <2> SUFFICES ASSUME TreesInv PROVE HoldsEntries
    OBVIOUS
  <2>1. Leaf(LeafAt(mem, root))
    BY DEF TreesInv, Rooted
  <2>2. mem.panicked = "no" => Contents(LeafAt(mem, root)) = entries
    BY <2>1, Reading DEF TreesInv
  <2>3. TypeOK
    BY DEF TreesInv, Rooted, Leaf, TypeOK
  <2> QED
    BY <2>1, <2>2, <2>3 DEF HoldsEntries, Leaf, TreesInv
<1> QED
  BY <1>1, TreesInvariant, PTL

\* Every page of the file is the tree's or free, never both, and no page is lost.
THEOREM PagesAreShared == Spec => []PagesShared
<1>1. TreesInv => PagesShared
  <2> SUFFICES ASSUME TreesInv PROVE PagesShared
    OBVIOUS
  <2> QED
    BY DEF PagesShared, TreesInv, Shared, Owned
<1> QED
  BY <1>1, TreesInvariant, PTL

\* A tree implements SnapshotStore: nothing changes the entries that the last
\* snapshot saved, and opening the file again brings exactly these back.
THEOREM StoreImplemented == Spec => StoreKept
<1> DEFINE Now == Contents(LeafAt(mem, root))
           Then == Contents(LeafAt(mem, saved.root))
<1>1. Init => Store!Init
  BY DEF Init, Store!Init
<1>2. TreesInv => Then = savedEntries
  <2> SUFFICES ASSUME TreesInv PROVE Then = savedEntries
    OBVIOUS
  <2>1. Leaf(LeafAt(mem, saved.root)) /\ Maps(LeafAt(mem, saved.root), savedEntries)
    BY DEF TreesInv, Rooted
  <2> QED
    BY <2>1, Reading
<1>3. TreesInv /\ mem.panicked = "no" => Now = entries
  <2> SUFFICES ASSUME TreesInv, mem.panicked = "no" PROVE Now = entries
    OBVIOUS
  <2>1. Leaf(LeafAt(mem, root)) /\ Maps(LeafAt(mem, root), entries)
    BY DEF TreesInv, Rooted
  <2> QED
    BY <2>1, Reading
<1>4. /\ TreesInv' => (Then = savedEntries)'
      /\ TreesInv' /\ (mem.panicked = "no")' => (Now = entries)'
  BY <1>2, <1>3, PTL
<1>5. TreesInv /\ TreesInv' /\ [Next]_vars => [Store!Next]_(Store!storeVars)
  <2> SUFFICES ASSUME TreesInv, TreesInv', [Next]_vars PROVE [Store!Next]_(Store!storeVars)
    OBVIOUS
  <2>1. Then = savedEntries /\ Then' = savedEntries'
    BY <1>2, <1>4
  <2>2. ASSUME UNCHANGED <<savedEntries, opens>> PROVE Store!Mutate
    BY <2>1, <2>2 DEF Store!Mutate
  <2>3. CASE Snapshot
    <3>1. Now = entries /\ savedEntries' = entries /\ opens' = opens
      BY <1>3, <2>3 DEF Snapshot, Running
    <3>2. Now' = entries'  /\ entries' = entries
      <4>1. mem'.panicked = "no"
        BY <2>3 DEF Snapshot, Running, Sealed, TreesInv, Memories
      <4> QED
        BY <1>4, <2>3, <4>1 DEF Snapshot
    <3> QED
      BY <2>1, <3>1, <3>2 DEF Store!Next, Store!Save
  <2>4. CASE Reopen
    <3>1. mem'.panicked = "no" /\ entries' = savedEntries /\ opens' = opens + 1 /\ savedEntries' = savedEntries
      BY <2>4 DEF Reopen, TreesInv, Memories
    <3>2. Now' = entries'
      BY <1>4, <3>1
    <3> QED
      BY <2>1, <3>1, <3>2 DEF Store!Next, Store!Reopen
  <2>5. CASE ~Snapshot /\ ~Reopen
    <3>1. UNCHANGED <<savedEntries, opens>>
      BY <2>5 DEF Next, RemoveKey, Insert, Clear, vars
    <3> QED
      BY <2>2, <3>1 DEF Store!Next
  <2> QED
    BY <2>3, <2>4, <2>5
<1> QED
  BY <1>1, <1>5, TreesInvariant, PTL DEF Spec, StoreKept, Store!Spec
=============================================================================
