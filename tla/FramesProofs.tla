---------------------------- MODULE FramesProofs ----------------------------
(***************************************************************************)
(* Proofs about module Frames, for any regions, extents, layers and        *)
(* changes, and any number of frames, swapchains and fonts: what a         *)
(* submission names is left alone and exists until the processor is done   *)
(* with it, its vertices are those of the regions the client holds, and    *)
(* each of these has a layer with its heights.                             *)
(*                                                                         *)
(* Induction is over sets of naturals with a least member; a fold is the   *)
(* function FoldLeft chooses, which exists, and takes one step for each    *)
(* member of the sequence.                                                 *)
(***************************************************************************)
EXTENDS Frames, TLAPS, SequenceTheorems, FiniteSetTheorems, WellFoundedInduction

\* Records; what a terrain is made of, vertices and uploads, has no type of its own.
IsFrame(f) ==
  f \in [fence: BOOLEAN, objects: Nat, staging: Nat, vertices: {f.vertices}, lastUpdate: Nat,
         setup: Nat, set: Nat, pixels: Nat, text: Nat, font: Nat]

IsSubmission(s) ==
  s \in [number: Nat, index: Frame, waits: Nat, signals: Nat, uploads: {s.uploads},
         upfont: BOOLEAN, uploaded: BOOLEAN, set: Nat, view: Nat, vertices: {s.vertices},
         used: {s.used}, objects: Nat, text: Nat, font: Nat]

Typed ==
  /\ frameCount \in Nat
  /\ frame = [i \in Frame |-> frame[i]] /\ \A i \in Frame: IsFrame(frame[i])
  /\ queue \in Seq(Submitted) /\ \A s \in Submitted: IsSubmission(s)
  /\ terrain \in [changes: {terrain.changes}, used: {terrain.used}, unused: {terrain.unused},
                  lastUpdate: Nat]
  /\ font \in Nat /\ texture \in Nat /\ surface \in Nat
  /\ swapchain \in [id: Nat, extent: 1 .. Extents]
  /\ depth \in [id: Nat, extent: Nat, view: Nat]
  /\ seen \in SUBSET Nat

\* A submission owns its frame: its fence is reset, and there is no other one.
Fenced ==
  /\ \A i \in DOMAIN queue: ~frame[queue[i].index].fence
  /\ \A i, j \in DOMAIN queue: queue[i].index = queue[j].index => i = j

\* What has the size of the swapchain was made for it, as long as no size returned.
Sized ==
  /\ queue # <<>> \/ pc = "frame" => surface = swapchain.id
  /\ queue # <<>> => depth.extent = swapchain.extent
  /\ swapchain.extent \in seen /\ depth.extent \in seen \cup {None}
  /\ \A i \in Frame: frame[i].setup \in seen \cup {None}
  /\ returned \/ /\ depth.extent = swapchain.extent => depth.view = swapchain.id
                 /\ \A i \in Frame: frame[i].setup = swapchain.extent =>
                      frame[i].set = depth.id /\ depth.extent = swapchain.extent
                 /\ \A s \in Submitted: s.set = depth.id /\ s.view = surface

\* The font x is there, or one of the first n submissions of q brings it.
Comes(x, n, q, there) ==
  \/ x \in {None} \cup there
  \/ \E j \in 1 .. n: ~q[j].uploaded /\ q[j].upfont /\ q[j].font = x

Fonts ==
  /\ \A s \in Submitted: s.font \in {None, frame[s.index].font}
  /\ ~lost => /\ Comes(font, Len(queue), queue, fonts)
             /\ \A i \in 1 .. Len(queue): Comes(queue[i].font, i, queue, fonts)

\* The vertices of a frame are of today unless they are older than the last change.
Drawn ==
  /\ terrain.lastUpdate < frameCount
  /\ \A i \in Frame:
       /\ frame[i].lastUpdate <= terrain.lastUpdate
       /\ frame[i].lastUpdate = terrain.lastUpdate => frame[i].vertices = terrain.used
  /\ DrawsWhatIsHeld

FramesInv == Typed /\ Fenced /\ BuffersLeftAlone /\ Sized /\ Fonts /\ Drawn

-----------------------------------------------------------------------------
(* The queue. *)

\* A sequence is one of its own elements.
LEMMA Ranged ==
  ASSUME NEW S, NEW q \in Seq(S)
  PROVE /\ q \in Seq({q[i] : i \in DOMAIN q}) /\ Len(q) \in Nat /\ DOMAIN q = 1 .. Len(q)
<1> DEFINE T == {q[i] : i \in DOMAIN q}
<1>1. Len(q) \in Nat /\ q \in [1 .. Len(q) -> S] /\ DOMAIN q = 1 .. Len(q)
  BY LenProperties
<1>2. q \in [1 .. Len(q) -> T]
  BY <1>1
<1> HIDE DEF T
<1>3. q \in Seq(T)
  BY <1>1, <1>2, SeqDef
<1> QED
  BY <1>1, <1>3 DEF T

\* The submissions of the queue, by their places.
LEMMA Places ==
  ASSUME Typed
  PROVE /\ Len(queue) \in Nat /\ DOMAIN queue = 1 .. Len(queue)
        /\ \A i \in 1 .. Len(queue): queue[i] \in Submitted /\ IsSubmission(queue[i])
        /\ \A s \in Submitted: \E i \in 1 .. Len(queue): s = queue[i]
<1>1. queue \in Seq(Submitted) /\ \A s \in Submitted: IsSubmission(s)
  BY DEF Typed
<1>2. Len(queue) \in Nat /\ DOMAIN queue = 1 .. Len(queue)
  BY <1>1, LenProperties
<1> QED
  BY <1>1, <1>2 DEF Submitted

\* A submission is put behind the others.
LEMMA Appended ==
  ASSUME Typed, NEW s, queue' = Append(queue, s)
  PROVE /\ queue' \in Seq(Submitted') /\ Submitted' = Submitted \cup {s} /\ queue' # <<>>
        /\ Len(queue') = Len(queue) + 1 /\ DOMAIN queue' = 1 .. Len(queue) + 1
        /\ \A i \in 1 .. Len(queue): queue'[i] = queue[i]
        /\ queue'[Len(queue) + 1] = s
<1> DEFINE S == Submitted \cup {s}
<1>1. queue \in Seq(Submitted) /\ Len(queue) \in Nat /\ DOMAIN queue = 1 .. Len(queue)
  BY Places DEF Typed
<1>2. queue \in Seq(S) /\ s \in S
  BY <1>1, SeqMonotonic
<1> HIDE DEF S
<1>3. /\ queue' \in Seq(S) /\ Len(queue') = Len(queue) + 1
      /\ \A i \in 1 .. Len(queue): queue'[i] = queue[i]
      /\ queue'[Len(queue) + 1] = s
  BY <1>2, AppendProperties
<1>4. DOMAIN queue' = 1 .. Len(queue) + 1
  BY <1>3, LenProperties
<1>5. Submitted' = Submitted \cup {s}
  <2>1. \A i \in 1 .. Len(queue) + 1: i \in 1 .. Len(queue) \/ i = Len(queue) + 1
    BY <1>1
  <2>2. \A i \in 1 .. Len(queue): i \in 1 .. Len(queue) + 1
    BY <1>1
  <2>3. Len(queue) + 1 \in 1 .. Len(queue) + 1
    BY <1>1
  <2>4. \A x \in Submitted': x \in Submitted \cup {s}
    BY <1>1, <1>3, <1>4, <2>1 DEF Submitted
  <2>5. \A x \in Submitted: x \in Submitted'
    BY <1>1, <1>3, <1>4, <2>2 DEF Submitted
  <2>6. s \in Submitted'
    BY <1>3, <1>4, <2>3 DEF Submitted
  <2> QED
    BY <2>4, <2>5, <2>6
<1>6. queue' \in Seq(Submitted')
  BY <1>3, Ranged DEF Submitted
<1>7. queue' # <<>>
  <2>1. Len(queue') # 0
    BY <1>1, <1>3
  <2> QED
    BY <2>1, EmptySeq
<1> QED
  BY <1>3, <1>4, <1>5, <1>6, <1>7

\* The first submission is done with.
LEMMA Popped ==
  ASSUME Typed, queue # <<>>, queue' = Tail(queue)
  PROVE /\ queue' \in Seq(Submitted')
        /\ Len(queue) \in Nat \ {0} /\ Len(queue') = Len(queue) - 1
        /\ DOMAIN queue' = 1 .. Len(queue) - 1 /\ Head(queue) = queue[1]
        /\ \A i \in 1 .. Len(queue) - 1: queue'[i] = queue[i + 1]
        /\ \A s \in Submitted': \E i \in 2 .. Len(queue): s = queue[i]
        /\ Submitted' \subseteq Submitted
<1>1. queue \in Seq(Submitted) /\ Len(queue) \in Nat \ {0} /\ DOMAIN queue = 1 .. Len(queue)
  BY Places, EmptySeq DEF Typed
<1>2. /\ queue' \in Seq(Submitted) /\ Len(queue') = Len(queue) - 1
      /\ \A i \in 1 .. Len(queue'): queue'[i] = queue[i + 1]
  BY <1>1, HeadTailProperties
<1>3. Head(queue) = queue[1]
  OBVIOUS
<1>4. DOMAIN queue' = 1 .. Len(queue) - 1
  BY <1>2, LenProperties
<1>5. \A i \in 1 .. Len(queue) - 1: i + 1 \in 2 .. Len(queue) /\ i + 1 \in 1 .. Len(queue)
  BY <1>1
<1>6. \A s \in Submitted': \E i \in 2 .. Len(queue): s = queue[i]
  BY <1>2, <1>4, <1>5 DEF Submitted
<1>7. Submitted' \subseteq Submitted
  BY <1>1, <1>2, <1>4, <1>5 DEF Submitted
<1>8. queue' \in Seq(Submitted')
  <2> DEFINE S == Submitted
             q == queue'
  <2>1. q \in Seq(S) /\ Submitted' = {q[i] : i \in DOMAIN q}
    BY <1>2 DEF Submitted
  <2> HIDE DEF S, q
  <2>2. q \in Seq({q[i] : i \in DOMAIN q})
    BY <2>1, Ranged
  <2> QED
    BY <2>1, <2>2 DEF q
<1> QED
  BY <1>1, <1>2, <1>3, <1>4, <1>6, <1>7, <1>8

\* The transfers of a submission have run.
LEMMA Uploaded ==
  ASSUME Typed, NEW n \in 1 .. Len(queue), queue' = [queue EXCEPT ![n].uploaded = TRUE]
  PROVE /\ queue' \in Seq(Submitted')
        /\ Len(queue') = Len(queue) /\ DOMAIN queue' = 1 .. Len(queue)
        /\ \A i \in 1 .. Len(queue): i # n => queue'[i] = queue[i]
        /\ queue'[n] = [queue[n] EXCEPT !.uploaded = TRUE]
<1> DEFINE x == [queue[n] EXCEPT !.uploaded = TRUE]
           S == Submitted \cup {x}
<1>1. queue \in Seq(Submitted) /\ Len(queue) \in Nat /\ DOMAIN queue = 1 .. Len(queue)
  BY Places DEF Typed
<1>2. queue' = [queue EXCEPT ![n] = x]
  BY <1>1
<1> HIDE DEF x
<1>3. queue \in Seq(S) /\ x \in S
  BY <1>1, SeqMonotonic
<1> HIDE DEF S
<1>4. /\ queue' \in Seq(S) /\ Len(queue') = Len(queue)
      /\ \A i \in 1 .. Len(queue): queue'[i] = IF i = n THEN x ELSE queue[i]
  <2> DEFINE q == queue
             r == [q EXCEPT ![n] = x]
  <2>1. q \in Seq(S) /\ x \in S /\ n \in 1 .. Len(q) /\ queue' = r
    BY <1>2, <1>3
  <2> HIDE DEF q
  <2>2. /\ r \in Seq(S) /\ Len(r) = Len(q)
        /\ \A i \in 1 .. Len(q): r[i] = IF i = n THEN x ELSE q[i]
    BY <2>1, ExceptSeq
  <2> HIDE DEF r
  <2> QED
    BY <2>1, <2>2 DEF q
<1>5. DOMAIN queue' = 1 .. Len(queue)
  BY <1>4, LenProperties
<1>6. queue' \in Seq(Submitted')
  <2> DEFINE q == queue'
  <2>1. q \in Seq(S) /\ Submitted' = {q[i] : i \in DOMAIN q}
    BY <1>4 DEF Submitted
  <2> HIDE DEF q
  <2>2. q \in Seq({q[i] : i \in DOMAIN q})
    BY <2>1, Ranged
  <2> QED
    BY <2>1, <2>2 DEF q
<1> QED
  BY <1>4, <1>5, <1>6 DEF x

-----------------------------------------------------------------------------
(* Induction. *)

\* A set of naturals has a least member.
LEMMA Least ==
  ASSUME NEW T \in SUBSET Nat, T # {}
  PROVE \E x \in T: \A y \in T: x <= y
<1> DEFINE R == OpToRel(<, Nat)
<1>1. IsWellFoundedOn(R, Nat)
  BY NatLessThanWellFounded
<1>2. \A x, y \in Nat: <<y, x>> \in R <=> y < x
  BY DEF OpToRel
<1> HIDE DEF R
<1>3. PICK x \in T: \A y \in T: ~(<<y, x>> \in R)
  BY <1>1, WFMin
<1>4. ASSUME NEW y \in T PROVE x <= y
  <2>1. x \in Nat /\ y \in Nat /\ ~(y < x)
    BY <1>2, <1>3
  <2> QED
    BY <2>1
<1> QED
  BY <1>4

\* A set of naturals below n has a greatest member.
LEMMA Greatest ==
  ASSUME NEW n \in Nat, NEW T \in SUBSET (1 .. n), T # {}
  PROVE \E x \in T: \A y \in T: y <= x
<1> DEFINE U == {i \in Nat : \E t \in T : i = n - t}
<1>1. U \in SUBSET Nat /\ U # {}
  <2>1. PICK t \in T: TRUE
    OBVIOUS
  <2>2. n - t \in Nat
    BY <2>1
  <2> QED
    BY <2>1, <2>2
<1>2. \A t \in T: n - t \in U
  OBVIOUS
<1>3. PICK x \in U: \A y \in U: x <= y
  <2> HIDE DEF U
  <2> QED
    BY <1>1, Least
<1>4. PICK t \in T: x = n - t
  OBVIOUS
<1>5. ASSUME NEW s \in T PROVE s <= t
  <2>1. x <= n - s
    BY <1>2, <1>3, <1>5
  <2>2. s \in Int /\ t \in Int /\ n \in Int
    OBVIOUS
  <2> QED
    BY <1>4, <2>1, <2>2
<1> QED
  BY <1>5

\* Induction, with a set for the property: from n to n + 1 ...
LEMMA Upwards ==
  ASSUME NEW S, 0 \in S, \A n \in Nat: n \in S => n + 1 \in S
  PROVE \A n \in Nat: n \in S
<1> SUFFICES ASSUME NEW m \in Nat, m \notin S PROVE FALSE
  OBVIOUS
<1> DEFINE T == {i \in Nat : i \notin S}
<1>1. PICK x \in T: \A y \in T: x <= y
  <2>1. T \in SUBSET Nat /\ T # {}
    OBVIOUS
  <2> HIDE DEF T
  <2> QED
    BY <2>1, Least
<1>2. x # 0 /\ x \in Nat /\ x - 1 \in Nat
  OBVIOUS
<1>3. x - 1 \notin T
  BY <1>1, <1>2
<1>4. (x - 1) + 1 \in S
  BY <1>2, <1>3
<1> QED
  BY <1>2, <1>4

-----------------------------------------------------------------------------
(* Folds. *)

\* The greatest of the first naturals, and of some of them.
LEMMA Maxima ==
  ASSUME NEW n \in Nat
  PROVE /\ \A s \in SUBSET (1 .. n): s # {} => Max(s) \in s /\ \A i \in s: i <= Max(s)
        /\ \A s \in SUBSET (1 .. n + 1): n + 1 \in s => Max(s) = n + 1
        /\ \A k \in 1 .. n: /\ 1 .. k \in SUBSET (1 .. n) /\ 1 .. k # {}
                            /\ Max(1 .. k) = k /\ (1 .. k) \ {k} = 1 .. k - 1
<1>1. ASSUME NEW s \in SUBSET (1 .. n), s # {}
      PROVE Max(s) \in s /\ \A i \in s: i <= Max(s)
  <2>1. PICK x \in s: \A y \in s: y <= x
    BY <1>1, Greatest
  <2>2. \A y \in s: x >= y
    BY <2>1
  <2>3. Max(s) \in s /\ \A y \in s: Max(s) >= y
    BY <2>2 DEF Max
  <2> QED
    BY <2>3
<1>2. ASSUME NEW s \in SUBSET (1 .. n + 1), n + 1 \in s
      PROVE Max(s) = n + 1
  <2>1. \A y \in s: n + 1 >= y
    OBVIOUS
  <2>2. Max(s) \in s /\ \A y \in s: Max(s) >= y
    BY <1>2, <2>1 DEF Max
  <2>3. Max(s) >= n + 1 /\ Max(s) \in 1 .. n + 1
    BY <1>2, <2>2
  <2> QED
    BY <2>3
<1>3. ASSUME NEW k \in 1 .. n
      PROVE /\ 1 .. k \in SUBSET (1 .. n) /\ 1 .. k # {}
            /\ Max(1 .. k) = k /\ (1 .. k) \ {k} = 1 .. k - 1
  <2>1. k \in 1 .. k /\ \A y \in 1 .. k: k >= y
    OBVIOUS
  <2>2. Max(1 .. k) \in 1 .. k /\ \A y \in 1 .. k: Max(1 .. k) >= y
    BY <2>1 DEF Max
  <2>3. Max(1 .. k) = k
    <3>1. Max(1 .. k) >= k
      BY <2>1, <2>2
    <3> QED
      BY <2>2, <3>1
  <2>4. 1 .. k \in SUBSET (1 .. n) /\ (1 .. k) \ {k} = 1 .. k - 1
    OBVIOUS
  <2> QED
    BY <2>1, <2>3, <2>4
<1> QED
  BY <1>1, <1>2, <1>3

\* The function that FoldLeft defines to drain changes, and one for its first changes.
DrainsAll(f, base, seq, n) ==
  f = [s \in SUBSET (1 .. n) |-> IF s = {} THEN base ELSE Drain(f[s \ {Max(s)}], seq[Max(s)])]

LEMMA DrainExists ==
  ASSUME NEW base, NEW seq
  PROVE \A n \in Nat: \E f: DrainsAll(f, base, seq, n)
<1> DEFINE S == {n \in Nat : \E f : DrainsAll(f, base, seq, n)}
<1>1. 0 \in S
  <2> DEFINE f == [s \in SUBSET (1 .. 0) |-> base]
  <2>1. \A s \in SUBSET (1 .. 0): s = {}
    OBVIOUS
  <2>2. DrainsAll(f, base, seq, 0)
    BY <2>1 DEF DrainsAll
  <2> QED
    BY <2>2
<1>2. ASSUME NEW n \in Nat, n \in S PROVE n + 1 \in S
  <2>1. PICK f: DrainsAll(f, base, seq, n)
    BY <1>2
  <2> DEFINE m == n + 1
             g == [s \in SUBSET (1 .. m) |-> IF m \in s THEN Drain(f[s \ {m}], seq[m]) ELSE f[s]]
             Step(h, s) == IF s = {} THEN base ELSE Drain(h[s \ {Max(s)}], seq[Max(s)])
  <2>2. ASSUME NEW s \in SUBSET (1 .. m) PROVE g[s] = Step(g, s)
    <3>1. CASE m \in s
      <4>1. s \ {m} \in SUBSET (1 .. m) /\ m \notin s \ {m} /\ Max(s) = m /\ s # {}
        BY <3>1, Maxima
      <4>2. g[s] = Drain(f[s \ {m}], seq[m]) /\ g[s \ {m}] = f[s \ {m}]
        BY <3>1, <4>1
      <4> HIDE DEF g
      <4> QED
        BY <4>1, <4>2
    <3>2. CASE m \notin s
      <4>1. s \in SUBSET (1 .. n)
        BY <3>2
      <4>2. g[s] = f[s] /\ f[s] = Step(f, s)
        BY <2>1, <3>2, <4>1 DEF DrainsAll
      <4>3. CASE s = {}
        BY <4>2, <4>3
      <4>4. CASE s # {}
        <5>1. s \ {Max(s)} \in SUBSET (1 .. m) /\ m \notin s \ {Max(s)}
          BY <3>2, <4>1
        <5>2. g[s \ {Max(s)}] = f[s \ {Max(s)}]
          BY <5>1
        <5> HIDE DEF g
        <5> QED
          BY <4>2, <4>4, <5>2
      <4> QED
        BY <4>3, <4>4
    <3> QED
      BY <3>1, <3>2
  <2>3. g = [s \in SUBSET (1 .. m) |-> Step(g, s)]
    <3>1. g = [s \in SUBSET (1 .. m) |-> g[s]]
      OBVIOUS
    <3> HIDE DEF g
    <3> QED
      BY <2>2, <3>1
  <2>4. DrainsAll(g, base, seq, m)
    <3> HIDE DEF g
    <3> QED
      BY <2>3 DEF DrainsAll
  <2> QED
    BY <2>4
<1> HIDE DEF S
<1>3. \A n \in Nat: n \in S
  BY <1>1, <1>2, Upwards
<1> QED
  BY <1>3 DEF S

\* The changes are drained one by one.
LEMMA DrainSteps ==
  ASSUME NEW C, terrain.changes \in Seq(C)
  PROVE \E f:
          /\ f[0] = [used |-> terrain.used, unused |-> terrain.unused, uploads |-> <<>>]
          /\ \A k \in 1 .. Len(terrain.changes): f[k] = Drain(f[k - 1], terrain.changes[k])
          /\ Drained = f[Len(terrain.changes)]
<1> DEFINE base == [used |-> terrain.used, unused |-> terrain.unused, uploads |-> <<>>]
           seq == terrain.changes
           n == Len(seq)
           iter[s \in SUBSET (DOMAIN seq)] == IF s = {} THEN base
                                   ELSE Drain(iter[s \ {Max(s)}], seq[Max(s)])
<1>1. n \in Nat /\ DOMAIN seq = 1 .. n
  BY LenProperties
<1>2. Drained = iter[DOMAIN seq]
  BY DEF Drained, FoldLeft, MapThenFoldSet
<1>3. iter = CHOOSE g: g = [s \in SUBSET (DOMAIN seq) |-> IF s = {} THEN base
                                   ELSE Drain(g[s \ {Max(s)}], seq[Max(s)])]
  OBVIOUS
<1> HIDE DEF iter, base, seq, n
<1>4. iter = [s \in SUBSET (DOMAIN seq) |-> IF s = {} THEN base
                                   ELSE Drain(iter[s \ {Max(s)}], seq[Max(s)])]
  <2> DEFINE All(g) == [s \in SUBSET (DOMAIN seq) |-> IF s = {} THEN base
                                   ELSE Drain(g[s \ {Max(s)}], seq[Max(s)])]
  <2>1. PICK g: DrainsAll(g, base, seq, n)
    BY <1>1, DrainExists
  <2>2. g = All(g)
    BY <1>1, <2>1 DEF DrainsAll
  <2>3. iter = CHOOSE h: h = All(h)
    BY <1>3
  <2> HIDE DEF All
  <2>4. iter = All(iter)
    BY <2>2, <2>3
  <2> QED
    BY <2>4 DEF All
<1> DEFINE f == [k \in 0 .. n |-> iter[1 .. k]]
<1>5. f[0] = base
  <2>1. 1 .. 0 = {} /\ {} \in SUBSET (DOMAIN seq)
    OBVIOUS
  <2> QED
    BY <1>1, <1>4, <2>1
<1>6. ASSUME NEW k \in 1 .. n PROVE f[k] = Drain(f[k - 1], seq[k])
  <2>1. /\ 1 .. k \in SUBSET (DOMAIN seq) /\ 1 .. k # {}
        /\ Max(1 .. k) = k /\ (1 .. k) \ {k} = 1 .. k - 1
    BY <1>1, Maxima
  <2>3. f[k] = iter[1 .. k] /\ f[k - 1] = iter[1 .. k - 1]
    BY <1>1
  <2> HIDE DEF f
  <2> QED
    BY <1>4, <2>1, <2>3
<1>7. Drained = f[n]
  BY <1>1, <1>2
<1> QED
  BY <1>5, <1>6, <1>7 DEF base, seq, n

\* The same for what is held after the changes ...
Hold(s, c) == IF c.add THEN s \cup {c.pos} ELSE s \ {c.pos}

HoldsAll(f, base, seq, n) ==
  f = [s \in SUBSET (1 .. n) |-> IF s = {} THEN base ELSE Hold(f[s \ {Max(s)}], seq[Max(s)])]

LEMMA HoldExists ==
  ASSUME NEW base, NEW seq
  PROVE \A n \in Nat: \E f: HoldsAll(f, base, seq, n)
<1> DEFINE S == {n \in Nat : \E f : HoldsAll(f, base, seq, n)}
<1>1. 0 \in S
  <2> DEFINE f == [s \in SUBSET (1 .. 0) |-> base]
  <2>1. \A s \in SUBSET (1 .. 0): s = {}
    OBVIOUS
  <2>2. HoldsAll(f, base, seq, 0)
    BY <2>1 DEF HoldsAll
  <2> QED
    BY <2>2
<1>2. ASSUME NEW n \in Nat, n \in S PROVE n + 1 \in S
  <2>1. PICK f: HoldsAll(f, base, seq, n)
    BY <1>2
  <2> DEFINE m == n + 1
             g == [s \in SUBSET (1 .. m) |-> IF m \in s THEN Hold(f[s \ {m}], seq[m]) ELSE f[s]]
             Step(h, s) == IF s = {} THEN base ELSE Hold(h[s \ {Max(s)}], seq[Max(s)])
  <2>2. ASSUME NEW s \in SUBSET (1 .. m) PROVE g[s] = Step(g, s)
    <3>1. CASE m \in s
      <4>1. s \ {m} \in SUBSET (1 .. m) /\ m \notin s \ {m} /\ Max(s) = m /\ s # {}
        BY <3>1, Maxima
      <4>2. g[s] = Hold(f[s \ {m}], seq[m]) /\ g[s \ {m}] = f[s \ {m}]
        BY <3>1, <4>1
      <4> HIDE DEF g
      <4> QED
        BY <4>1, <4>2
    <3>2. CASE m \notin s
      <4>1. s \in SUBSET (1 .. n)
        BY <3>2
      <4>2. g[s] = f[s] /\ f[s] = Step(f, s)
        BY <2>1, <3>2, <4>1 DEF HoldsAll
      <4>3. CASE s = {}
        BY <4>2, <4>3
      <4>4. CASE s # {}
        <5>1. s \ {Max(s)} \in SUBSET (1 .. m) /\ m \notin s \ {Max(s)}
          BY <3>2, <4>1
        <5>2. g[s \ {Max(s)}] = f[s \ {Max(s)}]
          BY <5>1
        <5> HIDE DEF g
        <5> QED
          BY <4>2, <4>4, <5>2
      <4> QED
        BY <4>3, <4>4
    <3> QED
      BY <3>1, <3>2
  <2>3. g = [s \in SUBSET (1 .. m) |-> Step(g, s)]
    <3>1. g = [s \in SUBSET (1 .. m) |-> g[s]]
      OBVIOUS
    <3> HIDE DEF g
    <3> QED
      BY <2>2, <3>1
  <2>4. HoldsAll(g, base, seq, m)
    <3> HIDE DEF g
    <3> QED
      BY <2>3 DEF HoldsAll
  <2> QED
    BY <2>4
<1> HIDE DEF S
<1>3. \A n \in Nat: n \in S
  BY <1>1, <1>2, Upwards
<1> QED
  BY <1>3 DEF S

LEMMA HoldSteps ==
  ASSUME NEW C, terrain.changes \in Seq(C)
  PROVE \E f: /\ f[0] = DOMAIN terrain.used
              /\ \A k \in 1 .. Len(terrain.changes): f[k] = Hold(f[k - 1], terrain.changes[k])
              /\ Held = f[Len(terrain.changes)]
<1> DEFINE base == DOMAIN terrain.used
           seq == terrain.changes
           n == Len(seq)
           iter[s \in SUBSET (DOMAIN seq)] == IF s = {} THEN base
                                   ELSE Hold(iter[s \ {Max(s)}], seq[Max(s)])
<1>1. n \in Nat /\ DOMAIN seq = 1 .. n
  BY LenProperties
<1>2. Held = iter[DOMAIN seq]
  BY DEF Held, Hold, FoldLeft, MapThenFoldSet
<1>3. iter = CHOOSE g: g = [s \in SUBSET (DOMAIN seq) |-> IF s = {} THEN base
                                   ELSE Hold(g[s \ {Max(s)}], seq[Max(s)])]
  OBVIOUS
<1> HIDE DEF iter, base, seq, n
<1>4. iter = [s \in SUBSET (DOMAIN seq) |-> IF s = {} THEN base
                                   ELSE Hold(iter[s \ {Max(s)}], seq[Max(s)])]
  <2> DEFINE All(g) == [s \in SUBSET (DOMAIN seq) |-> IF s = {} THEN base
                                   ELSE Hold(g[s \ {Max(s)}], seq[Max(s)])]
  <2>1. PICK g: HoldsAll(g, base, seq, n)
    BY <1>1, HoldExists
  <2>2. g = All(g)
    BY <1>1, <2>1 DEF HoldsAll
  <2>3. iter = CHOOSE h: h = All(h)
    BY <1>3
  <2> HIDE DEF All
  <2>4. iter = All(iter)
    BY <2>2, <2>3
  <2> QED
    BY <2>4 DEF All
<1> DEFINE f == [k \in 0 .. n |-> iter[1 .. k]]
<1>5. f[0] = base
  <2>1. 1 .. 0 = {} /\ {} \in SUBSET (DOMAIN seq)
    OBVIOUS
  <2> QED
    BY <1>1, <1>4, <2>1
<1>6. ASSUME NEW k \in 1 .. n PROVE f[k] = Hold(f[k - 1], seq[k])
  <2>1. /\ 1 .. k \in SUBSET (DOMAIN seq) /\ 1 .. k # {}
        /\ Max(1 .. k) = k /\ (1 .. k) \ {k} = 1 .. k - 1
    BY <1>1, Maxima
  <2>3. f[k] = iter[1 .. k] /\ f[k - 1] = iter[1 .. k - 1]
    BY <1>1
  <2> HIDE DEF f
  <2> QED
    BY <1>4, <2>1, <2>3
<1>7. Held = f[n]
  BY <1>1, <1>2
<1> QED
  BY <1>5, <1>6, <1>7 DEF base, seq, n

\* ... and for the transfer of heights, by a submission of some number.
TransfersAll(f, number, base, seq, n) ==
  f = [s \in SUBSET (1 .. n) |-> IF s = {} THEN base ELSE TransferHeights(f[s \ {Max(s)}], seq[Max(s)], number)]

LEMMA TransferExists ==
  ASSUME NEW number, NEW base, NEW seq
  PROVE \A n \in Nat: \E f: TransfersAll(f, number, base, seq, n)
<1> DEFINE S == {n \in Nat : \E f : TransfersAll(f, number, base, seq, n)}
<1>1. 0 \in S
  <2> DEFINE f == [s \in SUBSET (1 .. 0) |-> base]
  <2>1. \A s \in SUBSET (1 .. 0): s = {}
    OBVIOUS
  <2>2. TransfersAll(f, number, base, seq, 0)
    BY <2>1 DEF TransfersAll
  <2> QED
    BY <2>2
<1>2. ASSUME NEW n \in Nat, n \in S PROVE n + 1 \in S
  <2>1. PICK f: TransfersAll(f, number, base, seq, n)
    BY <1>2
  <2> DEFINE m == n + 1
             g == [s \in SUBSET (1 .. m) |-> IF m \in s THEN TransferHeights(f[s \ {m}], seq[m], number) ELSE f[s]]
             Step(h, s) == IF s = {} THEN base ELSE TransferHeights(h[s \ {Max(s)}], seq[Max(s)], number)
  <2>2. ASSUME NEW s \in SUBSET (1 .. m) PROVE g[s] = Step(g, s)
    <3>1. CASE m \in s
      <4>1. s \ {m} \in SUBSET (1 .. m) /\ m \notin s \ {m} /\ Max(s) = m /\ s # {}
        BY <3>1, Maxima
      <4>2. g[s] = TransferHeights(f[s \ {m}], seq[m], number) /\ g[s \ {m}] = f[s \ {m}]
        BY <3>1, <4>1
      <4> HIDE DEF g
      <4> QED
        BY <4>1, <4>2
    <3>2. CASE m \notin s
      <4>1. s \in SUBSET (1 .. n)
        BY <3>2
      <4>2. g[s] = f[s] /\ f[s] = Step(f, s)
        BY <2>1, <3>2, <4>1 DEF TransfersAll
      <4>3. CASE s = {}
        BY <4>2, <4>3
      <4>4. CASE s # {}
        <5>1. s \ {Max(s)} \in SUBSET (1 .. m) /\ m \notin s \ {Max(s)}
          BY <3>2, <4>1
        <5>2. g[s \ {Max(s)}] = f[s \ {Max(s)}]
          BY <5>1
        <5> HIDE DEF g
        <5> QED
          BY <4>2, <4>4, <5>2
      <4> QED
        BY <4>3, <4>4
    <3> QED
      BY <3>1, <3>2
  <2>3. g = [s \in SUBSET (1 .. m) |-> Step(g, s)]
    <3>1. g = [s \in SUBSET (1 .. m) |-> g[s]]
      OBVIOUS
    <3> HIDE DEF g
    <3> QED
      BY <2>2, <3>1
  <2>4. TransfersAll(g, number, base, seq, m)
    <3> HIDE DEF g
    <3> QED
      BY <2>3 DEF TransfersAll
  <2> QED
    BY <2>4
<1> HIDE DEF S
<1>3. \A n \in Nat: n \in S
  BY <1>1, <1>2, Upwards
<1> QED
  BY <1>3 DEF S

LEMMA TransferSteps ==
  ASSUME NEW s, NEW C, s.uploads \in Seq(C)
  PROVE \E f: /\ f[0] = image
              /\ \A k \in 1 .. Len(s.uploads):
                   f[k] = TransferHeights(f[k - 1], s.uploads[k], s.number)
              /\ TransferAllHeights(s) = f[Len(s.uploads)]
<1> DEFINE base == image
           seq == s.uploads
           number == s.number
           done == TransferAllHeights(s)
           n == Len(seq)
           iter[r \in SUBSET (DOMAIN seq)] == IF r = {} THEN base
                                   ELSE TransferHeights(iter[r \ {Max(r)}], seq[Max(r)], number)
<1>1. n \in Nat /\ DOMAIN seq = 1 .. n
  BY LenProperties
<1>2. done = iter[DOMAIN seq]
  BY DEF TransferAllHeights, FoldLeft, MapThenFoldSet
<1>3. iter = CHOOSE g: g = [r \in SUBSET (DOMAIN seq) |-> IF r = {} THEN base
                                   ELSE TransferHeights(g[r \ {Max(r)}], seq[Max(r)], number)]
  OBVIOUS
<1> HIDE DEF iter, done, number, base, seq, n
<1>4. iter = [r \in SUBSET (DOMAIN seq) |-> IF r = {} THEN base
                                   ELSE TransferHeights(iter[r \ {Max(r)}], seq[Max(r)], number)]
  <2> DEFINE All(g) == [r \in SUBSET (DOMAIN seq) |-> IF r = {} THEN base
                                   ELSE TransferHeights(g[r \ {Max(r)}], seq[Max(r)], number)]
  <2>1. PICK g: TransfersAll(g, number, base, seq, n)
    BY <1>1, TransferExists
  <2>2. g = All(g)
    BY <1>1, <2>1 DEF TransfersAll
  <2>3. iter = CHOOSE h: h = All(h)
    BY <1>3
  <2> HIDE DEF All
  <2>4. iter = All(iter)
    BY <2>2, <2>3
  <2> QED
    BY <2>4 DEF All
<1> DEFINE f == [k \in 0 .. n |-> iter[1 .. k]]
<1>5. f[0] = base
  <2>1. 1 .. 0 = {} /\ {} \in SUBSET (DOMAIN seq)
    OBVIOUS
  <2> QED
    BY <1>1, <1>4, <2>1
<1>6. ASSUME NEW k \in 1 .. n PROVE f[k] = TransferHeights(f[k - 1], seq[k], number)
  <2>1. /\ 1 .. k \in SUBSET (DOMAIN seq) /\ 1 .. k # {}
        /\ Max(1 .. k) = k /\ (1 .. k) \ {k} = 1 .. k - 1
    BY <1>1, Maxima
  <2>3. f[k] = iter[1 .. k] /\ f[k - 1] = iter[1 .. k - 1]
    BY <1>1
  <2> HIDE DEF f
  <2> QED
    BY <1>4, <2>1, <2>3
<1>7. done = f[n]
  BY <1>1, <1>2
<1> QED
  BY <1>5, <1>6, <1>7 DEF base, seq, n, number, done

\* Nothing is drained when nothing has changed.
LEMMA NothingDrained == terrain.changes = <<>> => Drained.used = terrain.used
<1> SUFFICES ASSUME terrain.changes = <<>> PROVE Drained.used = terrain.used
  OBVIOUS
<1>1. terrain.changes \in Seq({}) /\ Len(terrain.changes) = 0
  BY EmptySeq
<1>2. Drained = [used |-> terrain.used, unused |-> terrain.unused, uploads |-> <<>>]
  BY <1>1, DrainSteps
<1> QED
  BY <1>2

-----------------------------------------------------------------------------
(* The event loop. *)

LEMMA FramesInit == Init => FramesInv
<1> SUFFICES ASSUME Init PROVE FramesInv
  OBVIOUS
<1>1. /\ frameCount = 2 /\ timeline = 2 /\ pc = "events" /\ queue = <<>>
      /\ frame = [i \in Frame |-> NewFrame] /\ terrain = NewTerrain
      /\ font = None /\ texture = 1
      /\ swapchain = [id |-> 1, extent |-> 1] /\ surface = 1
      /\ depth = [id |-> None, extent |-> None, view |-> None]
      /\ fonts = {} /\ seen = {1} /\ returned = FALSE /\ lost = FALSE
  BY DEF Init
<1>2. Submitted = {} /\ DOMAIN queue = {} /\ Len(queue) = 0 /\ queue \in Seq(Submitted)
  <2>1. DOMAIN queue = {} /\ Len(queue) = 0
    BY <1>1, EmptySeq
  <2>2. Submitted = {}
    BY <2>1 DEF Submitted
  <2> QED
    BY <1>1, <2>1, <2>2, EmptySeq
<1>3. \A i \in Frame: frame[i] = NewFrame
  BY <1>1
<1>4. /\ NewFrame.fence = TRUE /\ NewFrame.vertices = <<>> /\ NewFrame.lastUpdate = 0
      /\ NewFrame.setup = None /\ NewFrame.set = None /\ IsFrame(NewFrame)
  BY DEF NewFrame, NewRootFrame, NewSceneFrame, NewTerrainFrame, NewCullFrame, NewEguiFrame,
         IsFrame, None
<1>5. /\ terrain.used = <<>> /\ terrain.lastUpdate = 0
      /\ terrain \in [changes: {terrain.changes}, used: {terrain.used}, unused: {terrain.unused},
                      lastUpdate: Nat]
  BY <1>1 DEF NewTerrain
<1>6. 1 \in 1 .. Extents
  BY FramesAssumption
<1>7. Typed
  BY <1>1, <1>2, <1>3, <1>4, <1>5, <1>6 DEF Typed, None
<1>8. Fenced /\ BuffersLeftAlone
  BY <1>2 DEF Fenced, BuffersLeftAlone
<1>9. Sized
  BY <1>1, <1>2, <1>3, <1>4 DEF Sized, None
<1>10. Fonts
  <2>1. \A i \in 1 .. Len(queue): FALSE
    BY <1>2
  <2> QED
    BY <1>1, <1>2, <2>1 DEF Fonts, Comes
<1>11. Drawn
  BY <1>1, <1>2, <1>3, <1>4, <1>5 DEF Drawn, DrawsWhatIsHeld
<1> QED
  BY <1>7, <1>8, <1>9, <1>10, <1>11 DEF FramesInv

LEMMA ChangeTerrainInv == ASSUME FramesInv, ChangeTerrain PROVE FramesInv'
<1>1. /\ UNCHANGED <<frameCount, pc, frame, font, texture, swapchain, surface, depth, seen,
                     returned, lost, queue, fonts>>
      /\ \E x: terrain' = [terrain EXCEPT !.changes = x]
  BY DEF ChangeTerrain, gpu
<1>2. terrain \in [changes: {terrain.changes}, used: {terrain.used}, unused: {terrain.unused},
                   lastUpdate: Nat]
  BY DEF FramesInv, Typed
<1>3. /\ terrain'.used = terrain.used /\ terrain'.lastUpdate = terrain.lastUpdate
      /\ terrain' \in [changes: {terrain'.changes}, used: {terrain'.used},
                       unused: {terrain'.unused}, lastUpdate: Nat]
  BY <1>1, <1>2
<1>4. Submitted' = Submitted
  BY <1>1 DEF Submitted
<1>5. Typed'
  BY <1>1, <1>3, <1>4 DEF FramesInv, Typed
<1>6. Fenced' /\ BuffersLeftAlone' /\ Sized'
  BY <1>1, <1>4 DEF FramesInv, Fenced, BuffersLeftAlone, Sized
<1>7. Fonts'
  BY <1>1, <1>4 DEF FramesInv, Fonts, Comes
<1>8. Drawn'
  BY <1>1, <1>3, <1>4 DEF FramesInv, Drawn, DrawsWhatIsHeld
<1> QED
  BY <1>5, <1>6, <1>7, <1>8 DEF FramesInv

LEMMA AskRecreateInv == ASSUME FramesInv, AskRecreate PROVE FramesInv'
<1>1. /\ UNCHANGED <<frameCount, frame, terrain, font, texture, swapchain, surface, depth, seen,
                     returned, lost, queue, fonts>>
      /\ pc' = "recreate"
  BY DEF AskRecreate, gpu
<1>2. Submitted' = Submitted
  BY <1>1 DEF Submitted
<1>3. Typed'
  BY <1>1, <1>2 DEF FramesInv, Typed
<1>4. Fenced' /\ BuffersLeftAlone' /\ Sized'
  BY <1>1, <1>2 DEF FramesInv, Fenced, BuffersLeftAlone, Sized
<1>5. Fonts' /\ Drawn'
  BY <1>1, <1>2 DEF FramesInv, Fonts, Comes, Drawn, DrawsWhatIsHeld
<1> QED
  BY <1>3, <1>4, <1>5 DEF FramesInv

LEMMA BeginFrameInv == ASSUME FramesInv, BeginFrame PROVE FramesInv'
<1>1. /\ UNCHANGED <<frameCount, frame, terrain, font, texture, swapchain, depth, seen,
                     returned, lost, queue, fonts>>
      /\ pc' = "frame" /\ surface' = swapchain.id
  BY DEF BeginFrame, gpu, Cached, NewSurface
<1>2. Submitted' = Submitted
  BY <1>1 DEF Submitted
<1>3. Typed'
  BY <1>1, <1>2 DEF FramesInv, Typed
<1>4. Fenced' /\ BuffersLeftAlone'
  BY <1>1, <1>2 DEF FramesInv, Fenced, BuffersLeftAlone
<1>5. Sized'
  <2>1. queue # <<>> => surface' = surface
    BY <1>1 DEF FramesInv, Sized
  <2>2. queue = <<>> => Submitted = {}
    BY EmptySeq DEF Submitted
  <2> QED
    BY <1>1, <1>2, <2>1, <2>2 DEF FramesInv, Sized
<1>6. Fonts' /\ Drawn'
  BY <1>1, <1>2 DEF FramesInv, Fonts, Comes, Drawn, DrawsWhatIsHeld
<1> QED
  BY <1>3, <1>4, <1>5, <1>6 DEF FramesInv

LEMMA RecreateSwapchainInv == ASSUME FramesInv, RecreateSwapchain PROVE FramesInv'
<1>1. /\ UNCHANGED <<frameCount, frame, terrain, font, texture, surface, depth, lost, queue, fonts>>
      /\ pc' = "events" /\ queue = <<>>
  BY DEF RecreateSwapchain, WaitIdle, gpu
<1>2. PICK extent \in 1 .. Extents:
        /\ swapchain' = [id |-> swapchain.id + 1, extent |-> extent]
        /\ seen' = seen \cup {extent}
        /\ returned' = (returned \/ extent \in seen)
  BY DEF RecreateSwapchain, NewSwapchain
<1>3. Submitted = {} /\ Submitted' = {}
  BY <1>1, EmptySeq DEF Submitted
<1>4. extent \in Nat /\ extent # None
  BY FramesAssumption DEF None
<1>5. Typed'
  <2>1. swapchain' \in [id: Nat, extent: 1 .. Extents] /\ seen' \in SUBSET Nat
    BY <1>2, <1>4 DEF FramesInv, Typed
  <2> QED
    BY <1>1, <1>3, <2>1 DEF FramesInv, Typed
<1>6. Fenced' /\ BuffersLeftAlone'
  BY <1>1, <1>3 DEF FramesInv, Fenced, BuffersLeftAlone
<1>7. Sized'
  <2>1. swapchain'.extent = extent
    BY <1>2
  <2>2. /\ depth.extent \in seen \cup {None}
        /\ \A i \in Frame: frame[i].setup \in seen \cup {None}
    BY DEF FramesInv, Sized
  <2>3. extent \notin seen => depth.extent # extent /\ \A i \in Frame: frame[i].setup # extent
    BY <1>4, <2>2
  <2> QED
    BY <1>1, <1>2, <1>3, <2>1, <2>2, <2>3 DEF Sized
<1>8. Fonts' /\ Drawn'
  BY <1>1, <1>3 DEF FramesInv, Fonts, Comes, Drawn, DrawsWhatIsHeld
<1> QED
  BY <1>5, <1>6, <1>7, <1>8 DEF FramesInv

-----------------------------------------------------------------------------
(* The processor. *)

LEMMA FinishInv == ASSUME FramesInv, Finish PROVE FramesInv'
<1> DEFINE h == Head(queue)
<1>1. /\ UNCHANGED <<frameCount, pc, terrain, font, texture, swapchain, surface, depth, seen,
                     returned, lost, fonts>>
      /\ queue # <<>> /\ queue' = Tail(queue) /\ h.uploaded
      /\ frame' = [frame EXCEPT ![h.index].fence = TRUE]
  BY DEF Finish
<1>2. Typed
  BY DEF FramesInv
<1>3. /\ queue' \in Seq(Submitted')
      /\ Len(queue) \in Nat \ {0} /\ Len(queue') = Len(queue) - 1
      /\ DOMAIN queue' = 1 .. Len(queue) - 1 /\ h = queue[1]
      /\ \A i \in 1 .. Len(queue) - 1: queue'[i] = queue[i + 1]
      /\ \A s \in Submitted': \E i \in 2 .. Len(queue): s = queue[i]
      /\ Submitted' \subseteq Submitted
  BY <1>1, <1>2, Popped
<1>4. /\ DOMAIN queue = 1 .. Len(queue)
      /\ \A i \in 1 .. Len(queue): queue[i] \in Submitted /\ IsSubmission(queue[i])
  BY <1>2, Places
<1>5. h \in Submitted /\ IsSubmission(h) /\ h.index \in Frame
  <2>1. 1 \in 1 .. Len(queue)
    BY <1>3
  <2>2. h \in Submitted /\ IsSubmission(h)
    BY <1>3, <1>4, <2>1
  <2> QED
    BY <2>2 DEF IsSubmission
<1> HIDE DEF h
<1>6. \A i \in 1 .. Len(queue) - 1: i + 1 \in 2 .. Len(queue) /\ i + 1 \in 1 .. Len(queue)
  BY <1>3
<1>7. \A s \in Submitted': s.index # h.index
  <2>1. \A i \in 2 .. Len(queue): queue[i].index # queue[1].index
    <3>1. \A i \in 2 .. Len(queue): i \in 1 .. Len(queue) /\ 1 \in 1 .. Len(queue) /\ i # 1
      BY <1>3
    <3> QED
      BY <1>4, <3>1 DEF FramesInv, Fenced
  <2> QED
    BY <1>3, <2>1
<1>8. /\ frame' = [i \in Frame |-> frame'[i]]
      /\ \A i \in Frame: /\ i # h.index => frame'[i] = frame[i]
                         /\ IsFrame(frame'[i])
                         /\ frame'[i].vertices = frame[i].vertices
                         /\ frame'[i].lastUpdate = frame[i].lastUpdate
                         /\ frame'[i].setup = frame[i].setup /\ frame'[i].set = frame[i].set
  <2>1. frame = [i \in Frame |-> frame[i]] /\ \A i \in Frame: IsFrame(frame[i])
    BY <1>2 DEF Typed
  <2>2. DOMAIN frame = Frame
    BY <2>1
  <2>3. frame' = [frame EXCEPT ![h.index] = [frame[h.index] EXCEPT !.fence = TRUE]]
    BY <1>1
  <2>4. frame' = [i \in Frame |-> frame'[i]] /\ \A i \in Frame: i # h.index => frame'[i] = frame[i]
    BY <2>2, <2>3
  <2>5. frame'[h.index] = [frame[h.index] EXCEPT !.fence = TRUE]
    BY <1>5, <2>2, <2>3
  <2> DEFINE f == frame[h.index]
             g == [f EXCEPT !.fence = TRUE]
  <2>6. IsFrame(f)
    BY <1>5, <2>1
  <2> HIDE DEF f
  <2>7. /\ IsFrame(g) /\ g.vertices = f.vertices /\ g.lastUpdate = f.lastUpdate
        /\ g.setup = f.setup /\ g.set = f.set
    BY <2>6 DEF IsFrame
  <2>8. frame'[h.index] = g
    BY <2>5 DEF f
  <2> HIDE DEF g
  <2> QED
    BY <2>1, <2>4, <2>7, <2>8 DEF f
<1>9. \A s \in Submitted': s \in Submitted /\ IsSubmission(s) /\ s.index \in Frame /\ frame'[s.index] = frame[s.index]
  <2>1. \A s \in Submitted': IsSubmission(s)
    BY <1>2, <1>3 DEF Typed
  <2>2. \A s \in Submitted': s.index \in Frame
    BY <2>1 DEF IsSubmission
  <2> QED
    BY <1>3, <1>7, <1>8, <2>1, <2>2
<1>10. Typed'
  BY <1>1, <1>2, <1>3, <1>8, <1>9 DEF Typed
<1>11. Fenced'
  <2>1. ASSUME NEW i \in DOMAIN queue' PROVE ~frame'[queue'[i].index].fence
    <3>1. queue'[i] \in Submitted'
      BY DEF Submitted
    <3>2. i + 1 \in DOMAIN queue /\ queue'[i] = queue[i + 1]
      BY <1>3, <1>4, <1>6
    <3> QED
      BY <1>9, <3>1, <3>2 DEF FramesInv, Fenced
  <2>2. ASSUME NEW i \in DOMAIN queue', NEW j \in DOMAIN queue', queue'[i].index = queue'[j].index
        PROVE i = j
    <3>1. /\ i + 1 \in DOMAIN queue /\ queue'[i] = queue[i + 1] /\ i \in Int
          /\ j + 1 \in DOMAIN queue /\ queue'[j] = queue[j + 1] /\ j \in Int
      BY <1>3, <1>4, <1>6
    <3>2. i + 1 = j + 1
      BY <2>2, <3>1 DEF FramesInv, Fenced
    <3> QED
      BY <3>1, <3>2
  <2> QED
    BY <2>1, <2>2 DEF Fenced
<1>12. BuffersLeftAlone'
  BY <1>9 DEF FramesInv, BuffersLeftAlone
<1>13. Sized'
  BY <1>1, <1>3, <1>8 DEF FramesInv, Sized
<1>14. Fonts'
  <2>1. \A s \in Submitted': s.font \in {None, frame'[s.index].font}
    BY <1>9 DEF FramesInv, Fonts
  <2>2. ASSUME NEW x, NEW n \in 1 .. Len(queue), Comes(x, n, queue, fonts)
        PROVE Comes(x, n - 1, queue', fonts)
    <3>1. CASE x \in {None} \cup fonts
      BY <1>1, <3>1 DEF Comes
    <3>2. CASE x \notin {None} \cup fonts
      <4>1. PICK j \in 1 .. n: ~queue[j].uploaded /\ queue[j].upfont /\ queue[j].font = x
        BY <2>2, <3>2 DEF Comes
      <4>2. j # 1
        BY <1>1, <1>3, <4>1
      <4>3. n \in Nat /\ n <= Len(queue) /\ j \in Nat /\ j <= n /\ j >= 2 /\ Len(queue) \in Nat
        BY <1>3, <4>2
      <4>4. j - 1 \in 1 .. n - 1 /\ j - 1 \in 1 .. Len(queue) - 1 /\ (j - 1) + 1 = j
        BY <4>3
      <4>5. queue'[j - 1] = queue[j]
        BY <1>3, <4>4
      <4> QED
        BY <4>1, <4>4, <4>5 DEF Comes
    <3> QED
      BY <3>1, <3>2
  <2>3. ASSUME ~lost 
        PROVE /\ Comes(font, Len(queue'), queue', fonts)
              /\ \A i \in 1 .. Len(queue'): Comes(queue'[i].font, i, queue', fonts)
    <3>1. /\ Comes(font, Len(queue), queue, fonts)
          /\ \A i \in 1 .. Len(queue): Comes(queue[i].font, i, queue, fonts)
      BY <2>3 DEF FramesInv, Fonts
    <3>2. Len(queue) \in 1 .. Len(queue)
      BY <1>3
    <3>3. Comes(font, Len(queue) - 1, queue', fonts)
      BY <2>2, <3>1, <3>2
    <3>4. ASSUME NEW i \in 1 .. Len(queue') PROVE Comes(queue'[i].font, i, queue', fonts)
      <4>1. i \in 1 .. Len(queue) - 1 /\ i + 1 \in 1 .. Len(queue) /\ (i + 1) - 1 = i
        BY <1>3
      <4>2. Comes(queue[i + 1].font, i + 1, queue, fonts)
        BY <3>1, <4>1
      <4> QED
        BY <1>3, <2>2, <4>1, <4>2
    <3> QED
      BY <1>1, <1>3, <3>3, <3>4
  <2> QED
    BY <1>1, <2>1, <2>3 DEF Fonts
<1>15. Drawn'
  BY <1>1, <1>3, <1>8 DEF FramesInv, Drawn, DrawsWhatIsHeld
<1> QED
  BY <1>10, <1>11, <1>12, <1>13, <1>14, <1>15 DEF FramesInv

LEMMA TransferInv == ASSUME FramesInv, Transfer PROVE FramesInv'
<1>1. PICK n \in DOMAIN queue:
        /\ queue' = [queue EXCEPT ![n].uploaded = TRUE]
        /\ fonts' = TransferFont(queue[n])
        /\ UNCHANGED cpu
  BY DEF Transfer
<1>2. UNCHANGED <<frameCount, pc, frame, terrain, font, texture, swapchain, surface, depth, seen,
                  returned, lost>>
  BY <1>1 DEF cpu
<1>3. Typed
  BY DEF FramesInv
<1>4. /\ Len(queue) \in Nat /\ DOMAIN queue = 1 .. Len(queue) /\ n \in 1 .. Len(queue)
      /\ \A i \in 1 .. Len(queue): queue[i] \in Submitted /\ IsSubmission(queue[i])
  BY <1>1, <1>3, Places
<1>5. /\ queue' \in Seq(Submitted')
      /\ Len(queue') = Len(queue) /\ DOMAIN queue' = 1 .. Len(queue)
      /\ \A i \in 1 .. Len(queue): i # n => queue'[i] = queue[i]
      /\ queue'[n] = [queue[n] EXCEPT !.uploaded = TRUE]
  BY <1>1, <1>3, <1>4, Uploaded
<1> DEFINE Same(s, t) ==
             /\ s.number = t.number /\ s.index = t.index /\ s.uploads = t.uploads
             /\ s.upfont = t.upfont /\ s.set = t.set /\ s.view = t.view
             /\ s.vertices = t.vertices /\ s.used = t.used
             /\ s.objects = t.objects /\ s.text = t.text /\ s.font = t.font
             /\ s.uploaded \/ ~t.uploaded
<1>6. \A i \in 1 .. Len(queue): Same(queue'[i], queue[i]) /\ IsSubmission(queue'[i])
  <2> DEFINE s == queue[n]
             t == [s EXCEPT !.uploaded = TRUE]
  <2>1. IsSubmission(s) /\ queue'[n] = t
    BY <1>4, <1>5
  <2> HIDE DEF s
  <2>2. Same(t, s) /\ IsSubmission(t)
    BY <2>1 DEF IsSubmission
  <2> HIDE DEF t
  <2>3. Same(queue'[n], queue[n]) /\ IsSubmission(queue'[n])
    BY <2>1, <2>2 DEF s
  <2>4. ASSUME NEW i \in 1 .. Len(queue), i # n
        PROVE Same(queue'[i], queue[i]) /\ IsSubmission(queue'[i])
    <3>1. queue'[i] = queue[i] /\ IsSubmission(queue[i])
      BY <1>4, <1>5, <2>4
    <3> QED
      BY <3>1
  <2> QED
    BY <2>3, <2>4
<1> HIDE DEF Same
<1>7. \A s \in Submitted': \E i \in 1 .. Len(queue): s = queue'[i]
  BY <1>5 DEF Submitted
<1>8. \A s \in Submitted': IsSubmission(s) /\ \E t \in Submitted: Same(s, t)
  BY <1>4, <1>6, <1>7
<1>9. Typed'
  BY <1>2, <1>3, <1>5, <1>8 DEF Typed
<1>10. Fenced'
  BY <1>2, <1>4, <1>5, <1>6 DEF FramesInv, Fenced, Same
<1>11. BuffersLeftAlone'
  BY <1>2, <1>8 DEF FramesInv, BuffersLeftAlone, Same
<1>12. Sized'
  <2>1. queue # <<>>
    BY <1>4, EmptySeq
  <2>2. returned \/ \A s \in Submitted': s.set = depth.id /\ s.view = surface
    BY <1>8 DEF FramesInv, Sized, Same
  <2> QED
    BY <1>2, <2>1, <2>2 DEF FramesInv, Sized
<1>13. Fonts'
  <2>1. \A s \in Submitted': s.font \in {None, frame[s.index].font}
    BY <1>8 DEF FramesInv, Fonts, Same
  <2>2. ASSUME NEW x, NEW m \in 0 .. Len(queue), Comes(x, m, queue, fonts)
        PROVE Comes(x, m, queue', fonts')
    <3>1. CASE x \in {None} \cup fonts
      BY <1>1, <3>1 DEF Comes, TransferFont
    <3>2. CASE x \notin {None} \cup fonts
      <4>1. PICK j \in 1 .. m: ~queue[j].uploaded /\ queue[j].upfont /\ queue[j].font = x
        BY <2>2, <3>2 DEF Comes
      <4>2. j \in 1 .. Len(queue)
        BY <1>4
      <4>3. CASE j = n
        BY <1>1, <4>1, <4>3 DEF Comes, TransferFont
      <4>4. CASE j # n
        BY <1>5, <4>1, <4>2, <4>4 DEF Comes
      <4> QED
        BY <4>3, <4>4
    <3> QED
      BY <3>1, <3>2
  <2>3. ASSUME ~lost
        PROVE /\ Comes(font, Len(queue'), queue', fonts')
              /\ \A i \in 1 .. Len(queue'): Comes(queue'[i].font, i, queue', fonts')
    <3>1. /\ Comes(font, Len(queue), queue, fonts)
          /\ \A i \in 1 .. Len(queue): Comes(queue[i].font, i, queue, fonts)
      BY <2>3 DEF FramesInv, Fonts
    <3>2. Len(queue) \in 0 .. Len(queue) /\ \A i \in 1 .. Len(queue): i \in 0 .. Len(queue)
      BY <1>4
    <3>3. \A i \in 1 .. Len(queue): queue'[i].font = queue[i].font
      BY <1>6 DEF Same
    <3> QED
      BY <1>5, <2>2, <3>1, <3>2, <3>3
  <2> QED
    BY <1>2, <2>1, <2>3 DEF Fonts
<1>14. Drawn'
  <2>1. \A s \in Submitted': s.vertices = s.used
    BY <1>8 DEF FramesInv, Drawn, DrawsWhatIsHeld, Same
  <2> QED
    BY <1>2, <2>1 DEF FramesInv, Drawn, DrawsWhatIsHeld
<1> QED
  BY <1>9, <1>10, <1>11, <1>12, <1>13, <1>14 DEF FramesInv

-----------------------------------------------------------------------------
(* RootFrame::render. *)

\* The frame that is prepared is the processor's no more.
LEMMA WaitedFor ==
  ASSUME FramesInv, FenceWait
  PROVE Index \in Frame /\ \A s \in Submitted: s.index # Index
<1>1. Index \in Frame
  BY DEF FramesInv, Typed, Index, Frame, FRAMES_IN_FLIGHT
<1>2. \A i \in DOMAIN queue: queue[i].index # Index
  BY DEF FramesInv, Fenced, FenceWait
<1> QED
  BY <1>1, <1>2 DEF Submitted

\* The depth pyramid has the size of the swapchain, and is kept while the
\* processor works; the set the frame holds then names it.
LEMMA PreparedSizes ==
  ASSUME FramesInv, pc = "frame", NEW f, f \in {frame[i] : i \in Frame}
  PROVE /\ PreparedDepth \in [id: Nat, extent: Nat, view: Nat]
        /\ PreparedDepth.extent = swapchain.extent
        /\ queue # <<>> \/ depth.extent = swapchain.extent => PreparedDepth = depth
        /\ returned \/ PreparedDepth.view = swapchain.id
        /\ CullSet(f, PreparedDepth) \in Nat
        /\ returned \/ CullSet(f, PreparedDepth) = PreparedDepth.id
<1>1. /\ swapchain.extent \in Nat /\ frameCount \in Nat /\ surface \in Nat
      /\ depth \in [id: Nat, extent: Nat, view: Nat]
      /\ IsFrame(f)
  BY FramesAssumption DEF FramesInv, Typed
<1>2. f.set \in Nat
  BY <1>1 DEF IsFrame
<1>3. /\ surface = swapchain.id
      /\ queue # <<>> => depth.extent = swapchain.extent
      /\ returned \/ /\ depth.extent = swapchain.extent => depth.view = swapchain.id
                     /\ f.setup = swapchain.extent =>
                          f.set = depth.id /\ depth.extent = swapchain.extent
  BY DEF FramesInv, Sized
<1>4. depth.extent = swapchain.extent => PreparedDepth = depth
  BY DEF PreparedDepth, Cached
<1>5. depth.extent # swapchain.extent =>
        PreparedDepth = [id |-> frameCount, extent |-> swapchain.extent, view |-> surface]
  BY DEF PreparedDepth, Cached, NewDepth
<1> QED
  BY <1>1, <1>2, <1>3, <1>4, <1>5 DEF CullSet, Cached

\* The vertices a prepared frame holds are those of the regions held.
LEMMA PreparedVertices ==
  ASSUME FramesInv, NEW f, f \in {frame[i] : i \in Frame}
  PROVE LET t == PreparedTerrain(Drained)
            b == RebuiltVertices(f, Drained)
        IN  /\ t.lastUpdate \in Nat /\ t.lastUpdate < frameCount + 1 /\ t.used = Drained.used
            /\ t \in [changes: {t.changes}, used: {t.used}, unused: {t.unused}, lastUpdate: Nat]
            /\ \A i \in Frame:
                 /\ frame[i].lastUpdate <= t.lastUpdate
                 /\ frame[i].lastUpdate = t.lastUpdate => frame[i].vertices = t.used
            /\ b.lastUpdate = t.lastUpdate /\ b.vertices = t.used
<1> DEFINE t == PreparedTerrain(Drained)
           b == RebuiltVertices(f, Drained)
<1>1. /\ t.used = Drained.used /\ t.unused = Drained.unused
      /\ t.lastUpdate = IF terrain.changes = <<>> THEN terrain.lastUpdate ELSE frameCount
  BY DEF PreparedTerrain
<1>2. frameCount \in Nat /\ terrain.lastUpdate \in Nat
  BY DEF FramesInv, Typed
<1>3. t \in [changes: {t.changes}, used: {t.used}, unused: {t.unused}, lastUpdate: Nat]
  BY <1>2 DEF PreparedTerrain
<1>4. b = IF f.lastUpdate < t.lastUpdate
          THEN [vertices |-> Drained.used, lastUpdate |-> t.lastUpdate]
          ELSE [vertices |-> f.vertices, lastUpdate |-> f.lastUpdate]
  BY DEF RebuiltVertices, Rebuilds
<1> HIDE DEF t, b
<1>5. \A i \in Frame: frame[i].lastUpdate \in Nat
  BY DEF FramesInv, Typed, IsFrame
<1>6. /\ terrain.lastUpdate < frameCount
      /\ \A i \in Frame:
           /\ frame[i].lastUpdate <= terrain.lastUpdate
           /\ frame[i].lastUpdate = terrain.lastUpdate => frame[i].vertices = terrain.used
  BY DEF FramesInv, Drawn
<1>7. t.lastUpdate \in Nat /\ t.lastUpdate < frameCount + 1
  BY <1>1, <1>2, <1>6
<1>8. ASSUME NEW i \in Frame
      PROVE /\ frame[i].lastUpdate <= t.lastUpdate
            /\ frame[i].lastUpdate = t.lastUpdate => frame[i].vertices = t.used
  <2>1. CASE terrain.changes = <<>>
    BY <1>1, <1>6, <2>1, NothingDrained
  <2>2. CASE terrain.changes # <<>>
    BY <1>1, <1>2, <1>5, <1>6, <2>2
  <2> QED
    BY <2>1, <2>2
<1>9. b.lastUpdate = t.lastUpdate /\ b.vertices = t.used
  <2>1. PICK i \in Frame: f = frame[i]
    OBVIOUS
  <2>2. CASE f.lastUpdate < t.lastUpdate
    BY <1>1, <1>4, <2>2
  <2>3. CASE ~(f.lastUpdate < t.lastUpdate)
    <3>1. f.lastUpdate = t.lastUpdate
      BY <1>5, <1>7, <1>8, <2>1, <2>3
    <3>2. f.vertices = t.used
      BY <1>8, <2>1, <3>1
    <3> QED
      BY <1>4, <2>3, <3>1, <3>2
  <2> QED
    BY <2>2, <2>3
<1> QED
  BY <1>1, <1>3, <1>7, <1>8, <1>9 DEF t, b

\* The frame, when everything was prepared.
LEMMA PreparedFrame ==
  ASSUME FramesInv, pc = "frame", NEW f, f \in {frame[i] : i \in Frame}, NEW e \in LaidOut
  PROVE LET g == Prepared(f, Drained, e)
        IN  /\ IsFrame(g) /\ g.fence = FALSE /\ g.objects = frameCount
            /\ g.staging = StagedHeights(Drained) /\ g.pixels = StagedPixels(e)
            /\ g.vertices = PreparedTerrain(Drained).used
            /\ g.lastUpdate = PreparedTerrain(Drained).lastUpdate
            /\ g.setup = swapchain.extent /\ g.set = CullSet(f, PreparedDepth)
            /\ g.text = WrittenText(f, e) /\ g.font = HeldFont(f, e)
<1> DEFINE g == Prepared(f, Drained, e)
<1>1. IsFrame(f) /\ frameCount \in Nat /\ font \in Nat /\ texture \in Nat
      /\ swapchain.extent \in Nat
  BY FramesAssumption DEF FramesInv, Typed
<1>2. e.texture \in Nat
  BY <1>1 DEF LaidOut
<1>3. /\ g.fence = FALSE /\ g.objects = frameCount
      /\ g.staging = StagedHeights(Drained) /\ g.pixels = StagedPixels(e)
      /\ g.vertices = RebuiltVertices(f, Drained).vertices
      /\ g.lastUpdate = RebuiltVertices(f, Drained).lastUpdate
      /\ g.setup = swapchain.extent /\ g.set = CullSet(f, PreparedDepth)
      /\ g.text = WrittenText(f, e) /\ g.font = HeldFont(f, e)
  BY DEF Prepared, UpdatedScene
<1>4. /\ StagedHeights(Drained) \in Nat /\ StagedPixels(e) \in Nat
      /\ WrittenText(f, e) \in Nat /\ HeldFont(f, e) \in Nat
  BY <1>1, <1>2 DEF StagedHeights, StagedPixels, WrittenText, HeldFont, PreparedFont, IsFrame, None
<1>5. CullSet(f, PreparedDepth) \in Nat
  BY PreparedSizes
<1>6. /\ RebuiltVertices(f, Drained).vertices = PreparedTerrain(Drained).used
      /\ RebuiltVertices(f, Drained).lastUpdate = PreparedTerrain(Drained).lastUpdate
      /\ PreparedTerrain(Drained).lastUpdate \in Nat
  BY PreparedVertices
<1>7. IsFrame(g)
  <2>1. /\ DOMAIN g = {"fence", "objects", "staging", "vertices", "lastUpdate", "setup", "set",
                       "pixels", "text", "font"}
        /\ g = [fence |-> g.fence, objects |-> g.objects, staging |-> g.staging,
                vertices |-> g.vertices, lastUpdate |-> g.lastUpdate, setup |-> g.setup,
                set |-> g.set, pixels |-> g.pixels, text |-> g.text, font |-> g.font]
    BY DEF Prepared
  <2> HIDE DEF g
  <2> QED
    BY <1>1, <1>3, <1>4, <1>5, <1>6, <2>1 DEF IsFrame
<1> HIDE DEF g
<1> QED
  BY <1>3, <1>6, <1>7 DEF g

\* What is submitted, of a frame that was prepared.
LEMMA Recorded ==
  ASSUME FramesInv, pc = "frame", Index \in Frame, NEW f, IsFrame(f), NEW e \in LaidOut
  PROVE LET s == Submission(f, Drained, e)
        IN  /\ IsSubmission(s) /\ s.number = frameCount /\ s.index = Index
            /\ s.uploads = Drained.uploads /\ s.upfont = NewFont(e)
            /\ s.uploaded = (Drained.uploads = <<>> /\ ~NewFont(e))
            /\ s.set = f.set /\ s.view = PreparedDepth.view
            /\ s.vertices = f.vertices /\ s.used = Drained.used /\ s.objects = f.objects
            /\ s.text = (IF e.meshes THEN f.text ELSE None)
            /\ s.font = (IF e.meshes THEN f.font ELSE None)
<1> DEFINE s == Submission(f, Drained, e)
<1>1. /\ s.number = frameCount /\ s.index = Index
      /\ s.waits = frameCount /\ s.signals = frameCount + 1
  BY DEF Submission, Timeline
<1>2. /\ s.uploads = Drained.uploads /\ s.upfont = NewFont(e)
      /\ s.uploaded = (Drained.uploads = <<>> /\ ~NewFont(e))
  BY DEF Submission, Uploads
<1>3. s.set = f.set /\ s.view = PreparedDepth.view
  BY DEF Submission, Culling
<1>4. /\ s.vertices = f.vertices /\ s.used = Drained.used /\ s.objects = f.objects
      /\ s.text = (IF e.meshes THEN f.text ELSE None)
      /\ s.font = (IF e.meshes THEN f.font ELSE None)
  BY DEF Submission, DrawTerrain, DrawScene, DrawText
<1>5. s = [number |-> s.number, index |-> s.index, waits |-> s.waits, signals |-> s.signals,
           uploads |-> s.uploads, upfont |-> s.upfont, uploaded |-> s.uploaded, set |-> s.set,
           view |-> s.view, vertices |-> s.vertices, used |-> s.used, objects |-> s.objects,
           text |-> s.text, font |-> s.font]
  BY DEF Submission
<1>6. frameCount \in Nat /\ frameCount + 1 \in Nat /\ e.meshes \in BOOLEAN
  BY DEF FramesInv, Typed, LaidOut
<1>7. NewFont(e) \in BOOLEAN /\ (Drained.uploads = <<>> /\ ~NewFont(e)) \in BOOLEAN
  BY <1>6 DEF NewFont
<1>8. PreparedDepth.view \in Nat
  <2>1. frame[Index] \in {frame[i] : i \in Frame}
    OBVIOUS
  <2>2. PreparedDepth \in [id: Nat, extent: Nat, view: Nat]
    BY <2>1, PreparedSizes
  <2> QED
    BY <2>2
<1>9. f.set \in Nat /\ f.objects \in Nat /\ f.text \in Nat /\ f.font \in Nat /\ None \in Nat
  BY DEF IsFrame, None
<1> HIDE DEF s
<1>10. s.text \in Nat /\ s.font \in Nat
  BY <1>4, <1>9
<1>11. IsSubmission(s)
  BY <1>1, <1>2, <1>3, <1>4, <1>5, <1>6, <1>7, <1>8, <1>9, <1>10 DEF IsSubmission
<1> QED
  BY <1>1, <1>2, <1>3, <1>4, <1>11 DEF s

LEMMA RenderInv == ASSUME FramesInv, Render PROVE FramesInv'
<1>1. PICK e \in LaidOut:
        /\ Submit(Drained, e) \/ OutOfDate
        /\ frame' = [frame EXCEPT ![Index] = Prepared(@, Drained, e)]
        /\ terrain' = PreparedTerrain(Drained)
        /\ font' = PreparedFont(e) /\ texture' = e.texture
  BY DEF Render
<1>2. /\ UNCHANGED <<swapchain, surface, seen, returned, fonts>>
      /\ depth' = PreparedDepth /\ frameCount' = frameCount + 1
      /\ pc = "frame" /\ FenceWait
  BY DEF Render
<1> DEFINE f == frame[Index]
           g == Prepared(f, Drained, e)
           s == Submission(g, Drained, e)
<1>3. /\ Typed /\ frameCount \in Nat /\ font \in Nat /\ texture \in Nat
      /\ frame = [i \in Frame |-> frame[i]] /\ DOMAIN frame = Frame
      /\ \A i \in Frame: IsFrame(frame[i])
  <2>1. Typed
    BY DEF FramesInv
  <2>2. frame = [i \in Frame |-> frame[i]]
    BY <2>1 DEF Typed
  <2>3. DOMAIN frame = Frame
    BY <2>2
  <2> QED
    BY <2>1, <2>2, <2>3 DEF Typed
<1>4. Index \in Frame /\ \A t \in Submitted: t.index # Index
  BY <1>2, WaitedFor
<1>5. f \in {frame[i] : i \in Frame}
  BY <1>4
<1>6. /\ IsFrame(g) /\ g.fence = FALSE /\ g.objects = frameCount
      /\ g.staging = StagedHeights(Drained) /\ g.pixels = StagedPixels(e)
      /\ g.vertices = PreparedTerrain(Drained).used
      /\ g.lastUpdate = PreparedTerrain(Drained).lastUpdate
      /\ g.setup = swapchain.extent /\ g.set = CullSet(f, PreparedDepth)
      /\ g.text = WrittenText(f, e) /\ g.font = HeldFont(f, e)
  BY <1>2, <1>5, PreparedFrame
<1>7. /\ frame' = [i \in Frame |-> frame'[i]] /\ frame'[Index] = g
      /\ \A i \in Frame: i # Index => frame'[i] = frame[i]
      /\ \A i \in Frame: IsFrame(frame'[i])
  <2>1. frame' = [frame EXCEPT ![Index] = g]
    BY <1>1
  <2> HIDE DEF g
  <2>2. frame' = [i \in Frame |-> IF i = Index THEN g ELSE frame[i]]
    BY <1>3, <2>1
  <2>3. frame'[Index] = g /\ \A i \in Frame: i # Index => frame'[i] = frame[i]
    BY <1>4, <2>2
  <2>4. frame' = [i \in Frame |-> frame'[i]]
    BY <2>2
  <2>5. \A i \in Frame: IsFrame(frame'[i])
    BY <1>3, <1>6, <2>3
  <2> QED
    BY <2>3, <2>4, <2>5
<1>8. /\ PreparedDepth \in [id: Nat, extent: Nat, view: Nat]
      /\ PreparedDepth.extent = swapchain.extent
      /\ queue # <<>> \/ depth.extent = swapchain.extent => PreparedDepth = depth
      /\ returned \/ PreparedDepth.view = swapchain.id
      /\ returned \/ CullSet(f, PreparedDepth) = PreparedDepth.id
  BY <1>2, <1>5, PreparedSizes
<1>9. /\ IsSubmission(s) /\ s.number = frameCount /\ s.index = Index
      /\ s.uploads = Drained.uploads /\ s.upfont = NewFont(e)
      /\ s.uploaded = (Drained.uploads = <<>> /\ ~NewFont(e))
      /\ s.set = g.set /\ s.view = PreparedDepth.view
      /\ s.vertices = g.vertices /\ s.used = Drained.used /\ s.objects = g.objects
      /\ s.text = (IF e.meshes THEN g.text ELSE None)
      /\ s.font = (IF e.meshes THEN g.font ELSE None)
  BY <1>2, <1>4, <1>6, Recorded
<1>10. /\ terrain'.lastUpdate \in Nat /\ terrain'.lastUpdate < frameCount + 1
       /\ terrain'.used = Drained.used
       /\ terrain' \in [changes: {terrain'.changes}, used: {terrain'.used},
                        unused: {terrain'.unused}, lastUpdate: Nat]
       /\ \A i \in Frame:
            /\ frame[i].lastUpdate <= terrain'.lastUpdate
            /\ frame[i].lastUpdate = terrain'.lastUpdate => frame[i].vertices = terrain'.used
       /\ g.lastUpdate = terrain'.lastUpdate /\ g.vertices = terrain'.used
  BY <1>1, <1>5, <1>6, PreparedVertices
<1>11. e.texture \in Nat /\ font' \in Nat /\ texture' \in Nat
  BY <1>1, <1>3 DEF LaidOut, PreparedFont
<1> HIDE DEF f, g, s
<1>12. /\ Len(queue) \in Nat /\ DOMAIN queue = 1 .. Len(queue)
       /\ \A i \in 1 .. Len(queue): queue[i] \in Submitted /\ IsSubmission(queue[i])
       /\ \A t \in Submitted: IsSubmission(t) /\ t.index \in Frame
  BY <1>3, Places DEF Typed, IsSubmission
<1>13. \/ lost' = lost /\ queue' = Append(queue, s)
       \/ lost' = TRUE /\ queue' = queue
  BY <1>1 DEF Submit, OutOfDate, f, g, s
<1>14. /\ queue' \in Seq(Submitted') /\ Submitted' \subseteq Submitted \cup {s}
       /\ queue' = <<>> => queue = <<>>
  <2>1. CASE queue' = Append(queue, s)
    BY <1>3, <2>1, Appended
  <2>2. CASE queue' = queue
    BY <1>3, <2>2 DEF Typed, Submitted
  <2> QED
    BY <1>13, <2>1, <2>2
<1>15. \A t \in Submitted':
         \/ t = s
         \/ t \in Submitted /\ IsSubmission(t) /\ t.index # Index /\ frame'[t.index] = frame[t.index]
  BY <1>4, <1>7, <1>12, <1>14
<1>16. Typed'
  <2>1. \A t \in Submitted': IsSubmission(t)
    BY <1>9, <1>15
  <2>2. /\ frameCount' \in Nat /\ surface' \in Nat /\ swapchain' \in [id: Nat, extent: 1 .. Extents]
        /\ seen' \in SUBSET Nat
    BY <1>2, <1>3 DEF Typed
  <2> QED
    BY <1>2, <1>7, <1>8, <1>10, <1>11, <1>14, <2>1, <2>2 DEF Typed
<1>17. Fenced'
  <2>1. /\ \A i \in DOMAIN queue: ~frame[queue[i].index].fence
        /\ \A i, j \in DOMAIN queue: queue[i].index = queue[j].index => i = j
    BY DEF FramesInv, Fenced
  <2>2. \A i \in DOMAIN queue:
          /\ queue[i].index # Index /\ frame'[queue[i].index] = frame[queue[i].index]
    BY <1>4, <1>7, <1>12
  <2>3. CASE queue' = queue
    BY <2>1, <2>2, <2>3 DEF Fenced
  <2>4. CASE queue' = Append(queue, s)
    <3>1. /\ DOMAIN queue' = 1 .. Len(queue) + 1 /\ queue'[Len(queue) + 1] = s
          /\ \A i \in 1 .. Len(queue): queue'[i] = queue[i]
      BY <1>3, <2>4, Appended
    <3>2. \A i \in DOMAIN queue': i \in DOMAIN queue \/ i = Len(queue) + 1
      BY <1>12, <3>1
    <3>3. ~frame'[s.index].fence /\ s.index = Index
      BY <1>6, <1>7, <1>9
    <3>4. \A i \in DOMAIN queue: queue'[i] = queue[i]
      BY <1>12, <3>1
    <3> QED
      BY <2>1, <2>2, <3>1, <3>2, <3>3, <3>4 DEF Fenced
  <2> QED
    BY <1>13, <2>3, <2>4
<1>18. BuffersLeftAlone'
  <2>1. ASSUME NEW t \in Submitted
        PROVE /\ frame[t.index].vertices = t.vertices /\ frame[t.index].set = t.set
              /\ frame[t.index].objects = t.objects /\ t.text \in {None, frame[t.index].text}
              /\ ~t.uploaded /\ t.uploads # <<>> => frame[t.index].staging = t.number
              /\ ~t.uploaded /\ t.upfont => frame[t.index].pixels = t.number
    BY DEF FramesInv, BuffersLeftAlone
  <2>2. /\ g.vertices = s.vertices /\ g.set = s.set
        /\ g.objects = s.objects /\ s.text \in {None, g.text}
        /\ s.uploads # <<>> => g.staging = s.number
        /\ s.upfont => g.pixels = s.number
    BY <1>6, <1>9 DEF StagedHeights, StagedPixels
  <2>3. frame'[s.index] = g
    BY <1>7, <1>9
  <2> QED
    BY <1>15, <2>1, <2>2, <2>3 DEF BuffersLeftAlone
<1>19. Sized'
  <2>1. /\ surface = swapchain.id
        /\ swapchain.extent \in seen
        /\ \A i \in Frame: frame[i].setup \in seen \cup {None}
        /\ returned \/ /\ \A i \in Frame: frame[i].setup = swapchain.extent =>
                            frame[i].set = depth.id /\ depth.extent = swapchain.extent
                       /\ \A t \in Submitted: t.set = depth.id /\ t.view = surface
    BY <1>2 DEF FramesInv, Sized
  <2>2. \A i \in Frame: frame'[i].setup \in seen \cup {None}
    BY <1>6, <1>7, <2>1
  <2>3. returned \/ \A i \in Frame: frame'[i].setup = swapchain.extent => frame'[i].set = PreparedDepth.id
    BY <1>6, <1>7, <1>8, <2>1
  <2>4. Submitted # {} => queue # <<>>
    BY <1>12, EmptySeq DEF Submitted
  <2>5. returned \/ \A t \in Submitted': t.set = PreparedDepth.id /\ t.view = surface
    BY <1>6, <1>8, <1>9, <1>15, <2>1, <2>4
  <2> QED
    BY <1>2, <1>8, <2>1, <2>2, <2>3, <2>5 DEF Sized
<1>20. Fonts'
  <2>1. \A t \in Submitted': t.font \in {None, frame'[t.index].font}
    BY <1>7, <1>9, <1>15 DEF FramesInv, Fonts
  <2>2. ASSUME ~lost'
        PROVE /\ Comes(font', Len(queue'), queue', fonts)
              /\ \A i \in 1 .. Len(queue'): Comes(queue'[i].font, i, queue', fonts)
    <3>1. /\ Comes(font, Len(queue), queue, fonts)
          /\ \A i \in 1 .. Len(queue): Comes(queue[i].font, i, queue, fonts)
      BY <1>13, <2>2 DEF FramesInv, Fonts
    <3>2. /\ Len(queue') = Len(queue) + 1 /\ queue'[Len(queue) + 1] = s
          /\ \A i \in 1 .. Len(queue): queue'[i] = queue[i]
      BY <1>3, <1>13, <2>2, Appended
    <3>3. ASSUME NEW x, NEW n \in 0 .. Len(queue), Comes(x, n, queue, fonts)
          PROVE Comes(x, n, queue', fonts) /\ Comes(x, Len(queue'), queue', fonts)
      <4>1. \A j \in 1 .. n: j \in 1 .. Len(queue) /\ j \in 1 .. Len(queue')
        BY <1>12, <3>2
      <4> QED
        BY <3>2, <3>3, <4>1 DEF Comes
    <3>4. Comes(font', Len(queue'), queue', fonts)
      <4>1. CASE ~NewFont(e)
        <5>1. font' = font
          BY <1>1, <4>1 DEF NewFont, PreparedFont
        <5>2. Len(queue) \in 0 .. Len(queue)
          BY <1>12
        <5> QED
          BY <3>1, <3>3, <5>1, <5>2
      <4>2. CASE NewFont(e)
        <5>1. font' = s.font /\ s.upfont /\ ~s.uploaded
          BY <1>1, <1>6, <1>9, <4>2 DEF NewFont, HeldFont
        <5>2. Len(queue) + 1 \in 1 .. Len(queue')
          BY <1>12, <3>2
        <5> QED
          BY <3>2, <5>1, <5>2 DEF Comes
      <4> QED
        BY <4>1, <4>2
    <3>5. Comes(s.font, Len(queue'), queue', fonts)
      <4>1. CASE e.meshes
        <5>1. s.font = font'
          BY <1>1, <1>6, <1>9, <4>1 DEF HeldFont
        <5> QED
          BY <3>4, <5>1
      <4>2. CASE ~e.meshes
        BY <1>9, <4>2 DEF Comes
      <4> QED
        BY <4>1, <4>2
    <3>6. ASSUME NEW i \in 1 .. Len(queue') PROVE Comes(queue'[i].font, i, queue', fonts)
      <4>1. CASE i \in 1 .. Len(queue)
        <5>1. i \in 0 .. Len(queue)
          BY <1>12, <4>1
        <5> QED
          BY <3>1, <3>2, <3>3, <4>1, <5>1
      <4>2. CASE i \notin 1 .. Len(queue)
        <5>1. i = Len(queue')
          BY <1>12, <3>2, <4>2
        <5> QED
          BY <3>2, <3>5, <5>1
      <4> QED
        BY <4>1, <4>2
    <3> QED
      BY <3>4, <3>6
  <2> QED
    BY <1>2, <2>1, <2>2 DEF Fonts
<1>21. Drawn'
  <2>1. \A t \in Submitted': t.vertices = t.used
    BY <1>9, <1>10, <1>15 DEF FramesInv, Drawn, DrawsWhatIsHeld
  <2>2. g.lastUpdate <= terrain'.lastUpdate
    BY <1>10
  <2>3. \A i \in Frame:
          /\ frame'[i].lastUpdate <= terrain'.lastUpdate
          /\ frame'[i].lastUpdate = terrain'.lastUpdate => frame'[i].vertices = terrain'.used
    BY <1>7, <1>10, <2>2
  <2> QED
    BY <1>2, <1>10, <2>1, <2>3 DEF Drawn, DrawsWhatIsHeld
<1> QED
  BY <1>16, <1>17, <1>18, <1>19, <1>20, <1>21 DEF FramesInv

-----------------------------------------------------------------------------
(* Layers. *)

Layer == 0 .. Slots - 1
Upload == [layer: Layer, pos: Regions]

\* Every layer is unused or used by one region.
SharedOut(used, unused) ==
  /\ used \in [DOMAIN used -> Layer] /\ DOMAIN used \subseteq Regions /\ IsFiniteSet(DOMAIN used)
  /\ \A p, q \in DOMAIN used: used[p] = used[q] => p = q
  /\ unused \in Seq(Layer)
  /\ \A i, j \in DOMAIN unused: unused[i] = unused[j] => i = j
  /\ \A p \in DOMAIN used, i \in DOMAIN unused: used[p] # unused[i]
  /\ \A l \in Layer: (\E p \in DOMAIN used: used[p] = l) \/ \E i \in DOMAIN unused: unused[i] = l
  /\ Len(unused) + Cardinality(DOMAIN used) = Slots

\* What the client holds after each of the changes: a region that comes is new
\* and has room, one that goes was there.
Legal(changes, h) ==
  \A k \in 1 .. Len(changes):
    IF changes[k].add
    THEN changes[k].pos \notin h[k - 1] /\ Cardinality(h[k - 1]) < Slots
         /\ h[k] = h[k - 1] \cup {changes[k].pos}
    ELSE changes[k].pos \in h[k - 1] /\ h[k] = h[k - 1] \ {changes[k].pos}

\* Among uploads, the last into layer l is for p; there is none.
LastUpload(ups, l, p) ==
  \E i \in DOMAIN ups:
    ups[i].layer = l /\ ups[i].pos = p /\ \A j \in DOMAIN ups: j > i => ups[j].layer # l

NoUpload(ups, l) == \A i \in DOMAIN ups: ups[i].layer # l

\* The submission s, or none of the transfers that are to come, writes layer l.
Paints(s, l, p) == ~s.uploaded /\ LastUpload(s.uploads, l, p)
Spares(s, l) == s.uploaded \/ NoUpload(s.uploads, l)

\* Layer l has the heights of p when the transfers of the queue are done.
Painted(l, p) ==
  \/ image[l].pos = p /\ \A i \in DOMAIN queue: Spares(queue[i], l)
  \/ \E i \in DOMAIN queue: /\ Paints(queue[i], l, p)
                            /\ \A j \in DOMAIN queue: j > i => Spares(queue[j], l)

\* What a submission that is not the last finds in the layer l of p.
Kept(s, l, p) ==
  \/ Paints(s, l, p)
  \/ /\ Spares(s, l)
     /\ \/ image[l].pos = p
        \/ image[l].by > s.number /\ (p \notin DOMAIN terrain.used \/ terrain.used[p] # l)

Bounds ==
  /\ frameCount \in 2 .. MaxFrames /\ (pc = "frame" => frameCount < MaxFrames)
  /\ timeline \in 2 .. MaxFrames /\ \A i \in DOMAIN queue: queue[i].signals \in 2 .. MaxFrames
  /\ pc \in {"events", "frame", "recreate"}
  /\ \A i \in Frame:
       /\ {frame[i].staging, frame[i].set, frame[i].objects, frame[i].text, frame[i].pixels}
            \subseteq 0 .. MaxFrames
       /\ frame[i].setup \in 0 .. Extents /\ frame[i].font \in 0 .. MaxTexture
  /\ depth.id \in 0 .. MaxFrames /\ font \in 0 .. MaxTexture
  /\ swapchain.id \in 1 .. MaxSwapchains /\ surface \in 1 .. swapchain.id
  /\ pc = "recreate" => swapchain.id < MaxSwapchains

\* The layers a submission names are some, and so are the regions.
Placed(s) ==
  /\ s.uploads \in Seq(Upload)
  /\ s.used \in [DOMAIN s.used -> Layer] /\ DOMAIN s.used \subseteq Regions

Layers ==
  /\ SharedOut(terrain.used, terrain.unused)
  /\ terrain.changes \in Seq([add: BOOLEAN, pos: Regions])
  /\ \E h \in [0 .. Len(terrain.changes) -> SUBSET Regions]:
       h[0] = DOMAIN terrain.used /\ Legal(terrain.changes, h)
  /\ image = [l \in Layer |-> image[l]]
  /\ \A i \in DOMAIN queue: Placed(queue[i])

Ordered ==
  /\ \A i \in DOMAIN queue: queue[i].number < frameCount
  /\ \A i, j \in DOMAIN queue: i < j => queue[i].number < queue[j].number
  /\ queue # <<>> => queue[Len(queue)].used = terrain.used

Heights ==
  /\ \A p \in DOMAIN terrain.used: Painted(terrain.used[p], p)
  /\ \A i \in DOMAIN queue: i < Len(queue) =>
       \A p \in DOMAIN queue[i].used: Kept(queue[i], queue[i].used[p], p)

LayersInv == Bounds /\ Layers /\ (~lost => Ordered /\ Heights)

-----------------------------------------------------------------------------
(* The layers are shared out, whatever comes and goes. *)

\* A region that comes takes the last of the unused layers.
LEMMA SharedAdd ==
  ASSUME NEW used, NEW unused, SharedOut(used, unused),
         NEW pos \in Regions, pos \notin DOMAIN used, Cardinality(DOMAIN used) < Slots,
         NEW layer, layer = Last(unused),
         NEW u, u = [p \in DOMAIN used \cup {pos} |-> IF p = pos THEN layer ELSE used[p]]
  PROVE SharedOut(u, Front(unused)) /\ layer \in Layer /\ \A p \in DOMAIN used: used[p] # layer
<1> DEFINE n == Len(unused)
           r == Front(unused)
<1>1. /\ used \in [DOMAIN used -> Layer] /\ DOMAIN used \subseteq Regions /\ IsFiniteSet(DOMAIN used)
      /\ \A p, q \in DOMAIN used: used[p] = used[q] => p = q
      /\ unused \in Seq(Layer)
      /\ \A i, j \in DOMAIN unused: unused[i] = unused[j] => i = j
      /\ \A p \in DOMAIN used, i \in DOMAIN unused: used[p] # unused[i]
      /\ \A l \in Layer: (\E p \in DOMAIN used: used[p] = l) \/ \E i \in DOMAIN unused: unused[i] = l
      /\ n + Cardinality(DOMAIN used) = Slots
  BY DEF SharedOut
<1>2. n \in Nat /\ DOMAIN unused = 1 .. n /\ Cardinality(DOMAIN used) \in Nat /\ Slots \in Nat
  BY <1>1, LenProperties, FS_CardinalityType, FramesAssumption
<1>3. n \in 1 .. n /\ layer = unused[n]
  <2>1. n \in 1 .. n
    BY <1>1, <1>2
  <2> QED
    BY <2>1 DEF Last
<1>4. layer \in Layer /\ \A p \in DOMAIN used: used[p] # layer
  <2>1. \A i \in 1 .. n: unused[i] \in Layer
    BY <1>1, <1>2, LenProperties
  <2> QED
    BY <1>1, <1>2, <1>3, <2>1
<1>5. r \in Seq(Layer) /\ Len(r) = n - 1 /\ DOMAIN r = 1 .. n - 1 /\ \A i \in 1 .. n - 1: r[i] = unused[i]
  <2>1. \A i \in 1 .. n - 1: unused[i] \in Layer
    BY <1>1, <1>2, LenProperties
  <2>2. r = SubSeq(unused, 1, n - 1) /\ 1 \in Int /\ n - 1 \in Int
    BY <1>2 DEF Front
  <2> HIDE DEF r
  <2>3. /\ r \in Seq(Layer) /\ Len(r) = IF 1 <= n - 1 THEN (n - 1) - 1 + 1 ELSE 0
        /\ \A i \in 1 .. (n - 1) - 1 + 1: r[i] = unused[1 + i - 1]
    BY <2>1, <2>2, SubSeqProperties
  <2> HIDE DEF n
  <2>4. Len(r) = n - 1
    BY <1>2, <1>3, <2>3
  <2>5. DOMAIN r = 1 .. n - 1
    BY <2>3, <2>4, LenProperties
  <2>6. ASSUME NEW i \in 1 .. n - 1 PROVE r[i] = unused[i]
    <3>1. i \in 1 .. (n - 1) - 1 + 1 /\ 1 + i - 1 = i
      BY <1>2
    <3> QED
      BY <2>3, <3>1
  <2> QED
    BY <2>3, <2>4, <2>5, <2>6
<1>6. /\ DOMAIN u = DOMAIN used \cup {pos} /\ u[pos] = layer
      /\ \A p \in DOMAIN used: u[p] = used[p] /\ p # pos
  OBVIOUS
<1>7. /\ IsFiniteSet(DOMAIN u) /\ Cardinality(DOMAIN u) = Cardinality(DOMAIN used) + 1
  BY <1>1, <1>6, FS_AddElement
<1> HIDE DEF n, r
<1>8. u \in [DOMAIN u -> Layer] /\ DOMAIN u \subseteq Regions
  <2>1. u = [p \in DOMAIN u |-> u[p]]
    BY <1>6
  <2>2. \A p \in DOMAIN u: u[p] \in Layer
    BY <1>1, <1>4, <1>6
  <2> QED
    BY <1>1, <1>6, <2>1, <2>2
<1>9. \A p, q \in DOMAIN u: u[p] = u[q] => p = q
  BY <1>1, <1>4, <1>6
<1>10. \A i \in DOMAIN r: i \in DOMAIN unused /\ i # n /\ r[i] = unused[i]
  BY <1>2, <1>5
<1>11. \A i, j \in DOMAIN r: r[i] = r[j] => i = j
  BY <1>1, <1>10
<1>12. \A p \in DOMAIN u, i \in DOMAIN r: u[p] # r[i]
  <2>1. \A i \in DOMAIN r: r[i] # layer
    BY <1>1, <1>2, <1>3, <1>10
  <2> QED
    BY <1>1, <1>6, <1>10, <2>1
<1>13. ASSUME NEW l \in Layer
       PROVE (\E p \in DOMAIN u: u[p] = l) \/ \E i \in DOMAIN r: r[i] = l
  <2>1. CASE \E p \in DOMAIN used: used[p] = l
    BY <1>6, <2>1
  <2>2. CASE \E i \in DOMAIN unused: unused[i] = l
    <3>1. PICK i \in DOMAIN unused: unused[i] = l
      BY <2>2
    <3>2. CASE i = n
      BY <1>3, <1>6, <3>1, <3>2
    <3>3. CASE i # n
      <4>1. i \in DOMAIN r
        BY <1>2, <1>5, <3>3
      <4> QED
        BY <1>10, <3>1, <4>1
    <3> QED
      BY <3>2, <3>3
  <2> QED
    BY <1>1, <2>1, <2>2
<1>14. Len(r) + Cardinality(DOMAIN u) = Slots
  BY <1>1, <1>2, <1>5, <1>7
<1>15. SharedOut(u, r)
  BY <1>5, <1>7, <1>8, <1>9, <1>11, <1>12, <1>13, <1>14 DEF SharedOut
<1> QED
  BY <1>4, <1>15 DEF r

\* The layer of a region that goes is unused again.
LEMMA SharedRemove ==
  ASSUME NEW used, NEW unused, SharedOut(used, unused), NEW pos \in DOMAIN used,
         NEW u, u = [p \in DOMAIN used \ {pos} |-> used[p]]
  PROVE SharedOut(u, Append(unused, used[pos]))
<1> DEFINE n == Len(unused)
           r == Append(unused, used[pos])
<1>1. /\ used \in [DOMAIN used -> Layer] /\ DOMAIN used \subseteq Regions /\ IsFiniteSet(DOMAIN used)
      /\ \A p, q \in DOMAIN used: used[p] = used[q] => p = q
      /\ unused \in Seq(Layer)
      /\ \A i, j \in DOMAIN unused: unused[i] = unused[j] => i = j
      /\ \A p \in DOMAIN used, i \in DOMAIN unused: used[p] # unused[i]
      /\ \A l \in Layer: (\E p \in DOMAIN used: used[p] = l) \/ \E i \in DOMAIN unused: unused[i] = l
      /\ n + Cardinality(DOMAIN used) = Slots
  BY DEF SharedOut
<1>2. n \in Nat /\ DOMAIN unused = 1 .. n /\ Cardinality(DOMAIN used) \in Nat /\ Slots \in Nat
  BY <1>1, LenProperties, FS_CardinalityType, FramesAssumption
<1>3. used[pos] \in Layer
  BY <1>1
<1>4. /\ r \in Seq(Layer) /\ Len(r) = n + 1 /\ DOMAIN r = 1 .. n + 1
      /\ r[n + 1] = used[pos] /\ \A i \in 1 .. n: r[i] = unused[i]
  <2>1. /\ r \in Seq(Layer) /\ Len(r) = n + 1
        /\ \A i \in 1 .. n: r[i] = unused[i]
        /\ r[n + 1] = used[pos]
    BY <1>1, <1>3, AppendProperties
  <2> HIDE DEF r
  <2>2. DOMAIN r = 1 .. n + 1
    BY <2>1, LenProperties
  <2> QED
    BY <2>1, <2>2
<1>5. DOMAIN u = DOMAIN used \ {pos} /\ \A p \in DOMAIN u: p \in DOMAIN used /\ p # pos /\ u[p] = used[p]
  OBVIOUS
<1>6. IsFiniteSet(DOMAIN u) /\ Cardinality(DOMAIN u) = Cardinality(DOMAIN used) - 1
  BY <1>1, <1>5, FS_RemoveElement
<1> HIDE DEF n, r
<1>7. u \in [DOMAIN u -> Layer] /\ DOMAIN u \subseteq Regions
  <2>1. u = [p \in DOMAIN u |-> u[p]]
    BY <1>5
  <2>2. \A p \in DOMAIN u: u[p] \in Layer
    BY <1>1, <1>5
  <2> QED
    BY <1>1, <1>5, <2>1, <2>2
<1>8. \A p, q \in DOMAIN u: u[p] = u[q] => p = q
  BY <1>1, <1>5
<1>9. \A i \in DOMAIN r: i = n + 1 \/ (i \in DOMAIN unused /\ r[i] = unused[i])
  BY <1>2, <1>4
<1>10. \A i, j \in DOMAIN r: r[i] = r[j] => i = j
  BY <1>1, <1>4, <1>9
<1>11. \A p \in DOMAIN u, i \in DOMAIN r: u[p] # r[i]
  BY <1>1, <1>4, <1>5, <1>9
<1>12. ASSUME NEW l \in Layer
       PROVE (\E p \in DOMAIN u: u[p] = l) \/ \E i \in DOMAIN r: r[i] = l
  <2>1. n + 1 \in DOMAIN r /\ \A i \in DOMAIN unused: i \in DOMAIN r /\ r[i] = unused[i]
    BY <1>2, <1>4
  <2>2. \A p \in DOMAIN used: p = pos \/ p \in DOMAIN u
    BY <1>5
  <2> QED
    BY <1>1, <1>4, <1>5, <2>1, <2>2
<1>13. Len(r) + Cardinality(DOMAIN u) = Slots
  BY <1>1, <1>2, <1>4, <1>6
<1>14. SharedOut(u, r)
  BY <1>4, <1>6, <1>7, <1>8, <1>10, <1>11, <1>12, <1>13 DEF SharedOut
<1> QED
  BY <1>14 DEF r

\* An upload is put behind the others.
LEMMA UploadAppended ==
  ASSUME NEW ups \in Seq(Upload), NEW u \in Upload, NEW r, r = Append(ups, u)
  PROVE /\ r \in Seq(Upload) /\ LastUpload(r, u.layer, u.pos)
        /\ \A l \in Layer: l # u.layer =>
             /\ \A p \in Regions: LastUpload(ups, l, p) => LastUpload(r, l, p)
             /\ NoUpload(ups, l) => NoUpload(r, l)
<1> DEFINE n == Len(ups)
<1>1. n \in Nat /\ DOMAIN ups = 1 .. n
  BY LenProperties
<1>2. r \in Seq(Upload) /\ Len(r) = n + 1 /\ r[n + 1] = u /\ \A i \in 1 .. n: r[i] = ups[i]
  BY AppendProperties
<1>3. DOMAIN r = 1 .. n + 1
  BY <1>2, LenProperties
<1> HIDE DEF n
<1>4. /\ n + 1 \in DOMAIN r
      /\ \A i \in DOMAIN r: i = n + 1 \/ (i \in DOMAIN ups /\ r[i] = ups[i])
      /\ \A i \in DOMAIN ups: i \in DOMAIN r /\ r[i] = ups[i]
      /\ \A i \in DOMAIN r: ~(i > n + 1)
  BY <1>1, <1>2, <1>3
<1>5. LastUpload(r, u.layer, u.pos)
  BY <1>2, <1>4 DEF LastUpload
<1>6. ASSUME NEW l \in Layer, l # u.layer, NEW p \in Regions, LastUpload(ups, l, p)
      PROVE LastUpload(r, l, p)
  <2>1. PICK i \in DOMAIN ups:
          ups[i].layer = l /\ ups[i].pos = p /\ \A j \in DOMAIN ups: j > i => ups[j].layer # l
    BY <1>6 DEF LastUpload
  <2>2. \A j \in DOMAIN r: j > i => r[j].layer # l
    BY <1>2, <1>4, <1>6, <2>1
  <2>3. i \in DOMAIN r /\ r[i] = ups[i]
    BY <1>4
  <2> QED
    BY <2>1, <2>2, <2>3 DEF LastUpload
<1>7. ASSUME NEW l \in Layer, l # u.layer, NoUpload(ups, l) PROVE NoUpload(r, l)
  BY <1>2, <1>4, <1>7 DEF NoUpload
<1> QED
  BY <1>2, <1>5, <1>6, <1>7

\* While changes are drained: the regions with a layer are h, and the last upload
\* into the layer of each is its own, unless there is none, and it had the layer.
Draining(t, h) ==
  /\ SharedOut(t.used, t.unused) /\ DOMAIN t.used = h /\ t.uploads \in Seq(Upload)
  /\ \A p \in DOMAIN t.used:
       \/ LastUpload(t.uploads, t.used[p], p)
       \/ /\ NoUpload(t.uploads, t.used[p])
          /\ p \in DOMAIN terrain.used /\ terrain.used[p] = t.used[p]

LEMMA DrainStep ==
  ASSUME NEW t, NEW h, Draining(t, h), NEW c, c \in [add: BOOLEAN, pos: Regions],
         c.add => c.pos \notin h /\ Cardinality(h) < Slots, ~c.add => c.pos \in h,
         NEW x, x = Drain(t, c)
  PROVE Draining(x, Hold(h, c))
<1> DEFINE used == t.used
           unused == t.unused
<1>1. /\ SharedOut(used, unused) /\ DOMAIN used = h /\ t.uploads \in Seq(Upload)
      /\ \A p \in DOMAIN used:
           \/ LastUpload(t.uploads, used[p], p)
           \/ /\ NoUpload(t.uploads, used[p])
              /\ p \in DOMAIN terrain.used /\ terrain.used[p] = used[p]
  BY DEF Draining
<1>2. c.pos \in Regions /\ c.add \in BOOLEAN
  OBVIOUS
<1>3. CASE c.add
  <2> DEFINE layer == Last(unused)
             u == [p \in DOMAIN used \cup {c.pos} |-> IF p = c.pos THEN layer ELSE used[p]]
             up == [layer |-> layer, pos |-> c.pos]
  <2>1. x.used = u /\ x.unused = Front(unused) /\ x.uploads = Append(t.uploads, up)
    BY <1>3 DEF Drain
  <2>2. Hold(h, c) = h \cup {c.pos}
    BY <1>3 DEF Hold
  <2>3. DOMAIN u = DOMAIN used \cup {c.pos} /\ u[c.pos] = layer
    OBVIOUS
  <2>4. \A p \in DOMAIN used: p # c.pos /\ u[p] = used[p]
    BY <1>1, <1>3
  <2> HIDE DEF used, unused, u, layer
  <2>5. SharedOut(u, Front(unused)) /\ layer \in Layer /\ \A p \in DOMAIN used: used[p] # layer
    BY <1>1, <1>2, <1>3, SharedAdd DEF u, layer
  <2>6. up \in Upload /\ up.layer = layer /\ up.pos = c.pos
    BY <1>2, <2>5 DEF Upload
  <2> HIDE DEF up
  <2>7. /\ x.uploads \in Seq(Upload) /\ LastUpload(x.uploads, layer, c.pos)
        /\ \A l \in Layer: l # layer =>
             /\ \A p \in Regions: LastUpload(t.uploads, l, p) => LastUpload(x.uploads, l, p)
             /\ NoUpload(t.uploads, l) => NoUpload(x.uploads, l)
    BY <1>1, <2>1, <2>6, UploadAppended
  <2>8. ASSUME NEW p \in DOMAIN used
        PROVE \/ LastUpload(x.uploads, u[p], p)
              \/ /\ NoUpload(x.uploads, u[p])
                 /\ p \in DOMAIN terrain.used /\ terrain.used[p] = u[p]
    <3>1. used[p] \in Layer /\ p \in Regions /\ used[p] # layer /\ u[p] = used[p]
      BY <1>1, <2>4, <2>5 DEF SharedOut
    <3> QED
      BY <1>1, <2>7, <3>1
  <2> QED
    BY <1>1, <2>1, <2>2, <2>3, <2>5, <2>7, <2>8 DEF Draining
<1>4. CASE ~c.add
  <2> DEFINE u == [p \in DOMAIN used \ {c.pos} |-> used[p]]
  <2>1. x.used = u /\ x.unused = Append(unused, used[c.pos]) /\ x.uploads = t.uploads
    BY <1>4 DEF Drain
  <2>2. Hold(h, c) = h \ {c.pos}
    BY <1>4 DEF Hold
  <2>3. DOMAIN u = DOMAIN used \ {c.pos} /\ \A p \in DOMAIN u: p \in DOMAIN used /\ u[p] = used[p]
    OBVIOUS
  <2> HIDE DEF used, unused, u
  <2>4. SharedOut(u, Append(unused, used[c.pos]))
    BY <1>1, <1>4, SharedRemove DEF u
  <2> QED
    BY <1>1, <2>1, <2>2, <2>3, <2>4 DEF Draining
<1> QED
  BY <1>2, <1>3, <1>4

\* What is held after all of the changes, and after some.
LEMMA HeldLegal ==
  ASSUME NEW C, terrain.changes \in Seq(C),
         NEW h, h[0] = DOMAIN terrain.used, Legal(terrain.changes, h)
  PROVE /\ \A k \in 1 .. Len(terrain.changes): h[k] = Hold(h[k - 1], terrain.changes[k])
        /\ Held = h[Len(terrain.changes)]
<1> DEFINE seq == terrain.changes
           n == Len(seq)
<1>1. n \in Nat
  BY LenProperties
<1>2. \A k \in 1 .. n: h[k] = Hold(h[k - 1], seq[k])
  BY DEF Legal, Hold
<1>3. PICK f: /\ f[0] = DOMAIN terrain.used
              /\ \A k \in 1 .. n: f[k] = Hold(f[k - 1], seq[k])
              /\ Held = f[n]
  BY HoldSteps
<1> DEFINE S == {k \in Nat : k <= n => f[k] = h[k]}
<1> HIDE DEF seq, n
<1>4. 0 \in S
  BY <1>3
<1>5. ASSUME NEW k \in Nat, k \in S PROVE k + 1 \in S
  <2>1. SUFFICES ASSUME k + 1 <= n PROVE f[k + 1] = h[k + 1]
    OBVIOUS
  <2>2. k + 1 \in 1 .. n /\ (k + 1) - 1 = k /\ k <= n
    BY <1>1, <2>1
  <2> QED
    BY <1>2, <1>3, <1>5, <2>2
<1> HIDE DEF S
<1>6. n \in S
  BY <1>1, <1>4, <1>5, Upwards
<1>7. f[n] = h[n]
  BY <1>1, <1>6 DEF S
<1> QED
  BY <1>2, <1>3, <1>7 DEF n, seq

\* What was drained, of all the changes.
LEMMA DrainedLayers ==
  ASSUME Layers
  PROVE Draining(Drained, Held)
<1> DEFINE seq == terrain.changes
           n == Len(seq)
           C == [add: BOOLEAN, pos: Regions]
<1>1. seq \in Seq(C)
  BY DEF Layers
<1>2. n \in Nat /\ \A k \in 1 .. n: seq[k] \in C
  BY <1>1, LenProperties
<1>3. PICK h: h[0] = DOMAIN terrain.used /\ Legal(seq, h)
  BY DEF Layers
<1>4. (\A k \in 1 .. n: h[k] = Hold(h[k - 1], seq[k])) /\ Held = h[n]
  BY <1>1, <1>3, HeldLegal
<1>5. PICK f:
        /\ f[0] = [used |-> terrain.used, unused |-> terrain.unused, uploads |-> <<>>]
        /\ \A k \in 1 .. n: f[k] = Drain(f[k - 1], seq[k])
        /\ Drained = f[n]
  BY <1>1, DrainSteps
<1> DEFINE S == {k \in Nat : k <= n => Draining(f[k], h[k])}
<1> HIDE DEF seq, n
<1>6. 0 \in S
  <2>1. <<>> \in Seq(Upload) /\ DOMAIN <<>> = {}
    BY EmptySeq
  <2>2. /\ f[0].used = terrain.used /\ f[0].unused = terrain.unused /\ f[0].uploads = <<>>
    BY <1>5
  <2>3. \A p \in DOMAIN terrain.used: NoUpload(<<>>, terrain.used[p])
    BY <2>1 DEF NoUpload
  <2>4. Draining(f[0], h[0])
    BY <1>3, <2>1, <2>2, <2>3 DEF Draining, Layers
  <2> QED
    BY <2>4
<1>7. ASSUME NEW k \in Nat, k \in S PROVE k + 1 \in S
  <2>1. SUFFICES ASSUME k + 1 <= n PROVE Draining(f[k + 1], h[k + 1])
    OBVIOUS
  <2>2. k + 1 \in 1 .. n /\ (k + 1) - 1 = k /\ k <= n
    BY <1>2, <2>1
  <2>3. Draining(f[k], h[k])
    BY <1>7, <2>2
  <2>4. /\ f[k + 1] = Drain(f[k], seq[k + 1]) /\ h[k + 1] = Hold(h[k], seq[k + 1])
        /\ seq[k + 1] \in C
    BY <1>2, <1>4, <1>5, <2>2
  <2>5. /\ seq[k + 1].add => seq[k + 1].pos \notin h[k] /\ Cardinality(h[k]) < Slots
        /\ ~seq[k + 1].add => seq[k + 1].pos \in h[k]
    BY <1>3, <2>2 DEF Legal, seq, n
  <2> QED
    BY <2>3, <2>4, <2>5, DrainStep
<1> HIDE DEF S
<1>8. n \in S
  BY <1>2, <1>6, <1>7, Upwards
<1>9. Draining(f[n], h[n])
  BY <1>2, <1>8 DEF S
<1> QED
  BY <1>4, <1>5, <1>9

-----------------------------------------------------------------------------
(* The event loop, and the layers. *)

LEMMA LayersInit == Init => LayersInv
<1> SUFFICES ASSUME Init PROVE LayersInv
  OBVIOUS
<1>1. /\ frameCount = 2 /\ timeline = 2 /\ pc = "events" /\ queue = <<>>
      /\ frame = [i \in Frame |-> NewFrame] /\ terrain = NewTerrain
      /\ font = None /\ swapchain = [id |-> 1, extent |-> 1] /\ surface = 1
      /\ depth = [id |-> None, extent |-> None, view |-> None]
      /\ image = [l \in 0..Slots - 1 |-> [pos |-> None, by |-> 0]]
  BY DEF Init
<1>2. DOMAIN queue = {} /\ Len(queue) = 0
  BY <1>1, EmptySeq
<1>3. \A i \in Frame: frame[i] = NewFrame
  BY <1>1
<1>4. /\ NewFrame.objects = 0 /\ NewFrame.staging = 0 /\ NewFrame.setup = 0 /\ NewFrame.set = 0
      /\ NewFrame.pixels = 0 /\ NewFrame.text = 0 /\ NewFrame.font = 0
  BY DEF NewFrame, NewSceneFrame, NewTerrainFrame, NewCullFrame, NewEguiFrame, None
<1>5. /\ terrain.used = <<>> /\ terrain.changes = <<>>
      /\ terrain.unused = [i \in 1 .. Slots |-> Slots - i]
  BY <1>1 DEF NewTerrain
<1>6. /\ MaxFrames \in Nat /\ MaxFrames >= 2 /\ MaxSwapchains \in Nat /\ MaxSwapchains >= 1
      /\ MaxTexture \in Nat /\ Extents \in Nat /\ Slots \in Nat
  BY FramesAssumption
<1>7. Bounds
  <2>1. /\ frameCount \in 2 .. MaxFrames /\ pc # "frame" /\ timeline \in 2 .. MaxFrames
        /\ pc \in {"events", "frame", "recreate"} /\ pc # "recreate"
        /\ depth.id \in 0 .. MaxFrames /\ font \in 0 .. MaxTexture
    BY <1>1, <1>6 DEF None
  <2>2. swapchain.id \in 1 .. MaxSwapchains /\ surface \in 1 .. swapchain.id
    BY <1>1, <1>6
  <2>3. 0 \in 0 .. MaxFrames /\ 0 \in 0 .. Extents /\ 0 \in 0 .. MaxTexture
    BY <1>6
  <2>4. \A i \in Frame:
          /\ {frame[i].staging, frame[i].set, frame[i].objects, frame[i].text, frame[i].pixels}
               \subseteq 0 .. MaxFrames
          /\ frame[i].setup \in 0 .. Extents /\ frame[i].font \in 0 .. MaxTexture
    BY <1>3, <1>4, <2>3
  <2> QED
    BY <1>2, <2>1, <2>2, <2>4 DEF Bounds
<1>8. SharedOut(terrain.used, terrain.unused)
  <2> DEFINE n == Slots
             r == [i \in 1 .. n |-> n - i]
  <2>1. \A i \in 1 .. n: r[i] \in Layer
    BY <1>6 DEF Layer
  <2>2. r \in Seq(Layer) /\ Len(r) = n /\ DOMAIN r = 1 .. n
    <3>1. DOMAIN r = 1 .. n /\ n \in Nat /\ r = [i \in 1 .. n |-> r[i]]
      BY <1>6
    <3> HIDE DEF r
    <3>2. r \in [1 .. n -> Layer]
      BY <2>1, <3>1
    <3>3. r \in Seq(Layer)
      BY <3>1, <3>2, SeqDef
    <3>4. Len(r) = n
      BY <3>1, <3>3, LenProperties
    <3> QED
      BY <3>1, <3>3, <3>4
  <2>3. \A i, j \in DOMAIN r: r[i] = r[j] => i = j
    BY <1>6
  <2>4. \A l \in Layer: n - l \in DOMAIN r /\ r[n - l] = l
    BY <1>6 DEF Layer
  <2>5. DOMAIN terrain.used = {} /\ terrain.used \in [DOMAIN terrain.used -> Layer]
    BY <1>5, EmptySeq
  <2>6. IsFiniteSet({}) /\ Cardinality({}) = 0
    BY FS_EmptySet
  <2>7. terrain.unused = r
    BY <1>5
  <2> HIDE DEF r, n
  <2>8. Len(r) + 0 = n
    BY <1>6, <2>2 DEF n
  <2> QED
    BY <2>2, <2>3, <2>4, <2>5, <2>6, <2>7, <2>8 DEF SharedOut, n
<1>9. Layers
  <2>1. <<>> \in Seq([add: BOOLEAN, pos: Regions]) /\ Len(<<>>) = 0
    BY EmptySeq
  <2>2. DOMAIN terrain.used \subseteq Regions
    BY <1>8 DEF SharedOut
  <2> DEFINE h == [k \in 0 .. 0 |-> DOMAIN terrain.used]
  <2>3. h \in [0 .. Len(terrain.changes) -> SUBSET Regions] /\ h[0] = DOMAIN terrain.used
    BY <1>5, <2>1, <2>2
  <2>4. Legal(terrain.changes, h)
    BY <1>5, <2>1 DEF Legal
  <2>5. image = [l \in Layer |-> image[l]]
    BY <1>1 DEF Layer
  <2> HIDE DEF h
  <2> QED
    BY <1>2, <1>5, <1>8, <2>1, <2>3, <2>4, <2>5 DEF Layers
<1>10. Ordered /\ Heights
  <2>1. DOMAIN terrain.used = {}
    BY <1>5, EmptySeq
  <2> QED
    BY <1>1, <1>2, <2>1 DEF Ordered, Heights
<1> QED
  BY <1>7, <1>9, <1>10 DEF LayersInv

\* Nothing happened to the layers.
LEMMA LayersLeft ==
  ASSUME LayersInv, UNCHANGED <<frameCount, terrain, image, queue, lost>>
  PROVE Layers' /\ (~lost' => Ordered' /\ Heights')
<1>1. Layers'
  BY DEF LayersInv, Layers
<1>2. ASSUME ~lost' PROVE Ordered' /\ Heights'
  <2>1. Ordered /\ Heights
    BY <1>2 DEF LayersInv
  <2>2. Ordered'
    BY <2>1 DEF Ordered
  <2>3. Heights'
    BY <2>1 DEF Heights, Painted, Kept
  <2> QED
    BY <2>2, <2>3
<1> QED
  BY <1>1, <1>2

LEMMA ChangeTerrainLayers == ASSUME FramesInv, LayersInv, ChangeTerrain PROVE LayersInv'
<1> DEFINE seq == terrain.changes
           n == Len(seq)
           C == [add: BOOLEAN, pos: Regions]
<1>1. PICK pos \in Regions, add \in BOOLEAN:
        /\ IF add THEN pos \notin Held /\ Cardinality(Held) < Slots ELSE pos \in Held
        /\ terrain' = [terrain EXCEPT !.changes =
                         Append(@, IF add THEN AddChange(pos) ELSE RemoveChange(pos))]
  BY DEF ChangeTerrain
<1>2. UNCHANGED <<frameCount, pc, frame, font, swapchain, surface, depth, lost, queue, timeline, image>>
  BY DEF ChangeTerrain, gpu
<1> DEFINE c == [add |-> add, pos |-> pos]
<1>3. terrain' = [terrain EXCEPT !.changes = Append(seq, c)]
  BY <1>1 DEF AddChange, RemoveChange
<1>4. terrain \in [changes: {terrain.changes}, used: {terrain.used}, unused: {terrain.unused},
                   lastUpdate: Nat]
  BY DEF FramesInv, Typed
<1>5. /\ terrain'.used = terrain.used /\ terrain'.unused = terrain.unused
      /\ terrain'.changes = Append(seq, c)
  BY <1>3, <1>4
<1>6. SharedOut(terrain.used, terrain.unused) /\ seq \in Seq(C) /\ c \in C
  BY DEF LayersInv, Layers
<1>7. PICK h \in [0 .. n -> SUBSET Regions]: h[0] = DOMAIN terrain.used /\ Legal(seq, h)
  BY DEF LayersInv, Layers
<1>8. Held = h[n]
  BY <1>6, <1>7, HeldLegal
<1>9. n \in Nat
  BY <1>6, LenProperties
<1> DEFINE r == Append(seq, c)
           m == n + 1
           g == [k \in 0 .. m |-> IF k = m THEN Hold(h[n], c) ELSE h[k]]
<1>10. r \in Seq(C) /\ Len(r) = m /\ r[m] = c /\ \A i \in 1 .. n: r[i] = seq[i]
  BY <1>6, AppendProperties
<1>11. g \in [0 .. m -> SUBSET Regions] /\ g[0] = h[0]
  <2>1. h[n] \in SUBSET Regions /\ \A k \in 0 .. m: k # m => k \in 0 .. n
    BY <1>7, <1>9
  <2>2. Hold(h[n], c) \in SUBSET Regions
    BY <2>1 DEF Hold
  <2>3. 0 \in 0 .. m /\ 0 # m
    BY <1>9
  <2> QED
    BY <1>7, <2>1, <2>2, <2>3
<1>12. Legal(r, g)
  <2>1. ASSUME NEW k \in 1 .. m
        PROVE IF r[k].add
              THEN r[k].pos \notin g[k - 1] /\ Cardinality(g[k - 1]) < Slots
                   /\ g[k] = g[k - 1] \cup {r[k].pos}
              ELSE r[k].pos \in g[k - 1] /\ g[k] = g[k - 1] \ {r[k].pos}
    <3>1. CASE k = m
      <4>1. k \in 0 .. m /\ k - 1 = n /\ n \in 0 .. m /\ n # m
        BY <1>9, <3>1
      <4>2. g[k] = Hold(h[n], c) /\ g[k - 1] = h[n] /\ r[k] = c
        BY <1>10, <3>1, <4>1
      <4>3. c.add = add /\ c.pos = pos
        OBVIOUS
      <4> HIDE DEF g, r, c
      <4> QED
        BY <1>1, <1>8, <4>2, <4>3 DEF Hold
    <3>2. CASE k # m
      <4>1. k \in 1 .. n /\ k \in 0 .. m /\ k - 1 \in 0 .. m /\ k - 1 # m
        BY <1>9, <3>2
      <4>2. g[k] = h[k] /\ g[k - 1] = h[k - 1] /\ r[k] = seq[k]
        BY <1>10, <3>2, <4>1
      <4> HIDE DEF g, r
      <4> QED
        BY <1>7, <4>1, <4>2 DEF Legal
    <3> QED
      BY <3>1, <3>2
  <2> HIDE DEF g, r, m
  <2> QED
    BY <1>10, <2>1 DEF Legal
<1>13. Layers'
  <2> HIDE DEF g, r, m
  <2>1. terrain'.changes = r
    BY <1>5 DEF r
  <2>2. \E x \in [0 .. Len(r) -> SUBSET Regions]: x[0] = DOMAIN terrain.used /\ Legal(r, x)
    BY <1>7, <1>10, <1>11, <1>12
  <2> QED
    BY <1>2, <1>5, <1>6, <1>10, <2>1, <2>2 DEF LayersInv, Layers
<1>14. Bounds'
  BY <1>2 DEF LayersInv, Bounds
<1>15. ASSUME ~lost' PROVE Ordered' /\ Heights'
  <2>1. Ordered /\ Heights
    BY <1>2, <1>15 DEF LayersInv
  <2>2. Ordered'
    BY <1>2, <1>5, <2>1 DEF Ordered
  <2>3. Heights'
    BY <1>2, <1>5, <2>1 DEF Heights, Painted, Kept
  <2> QED
    BY <2>2, <2>3
<1> QED
  BY <1>13, <1>14, <1>15 DEF LayersInv

LEMMA AskRecreateLayers == ASSUME LayersInv, AskRecreate PROVE LayersInv'
<1>1. UNCHANGED <<frameCount, frame, terrain, font, swapchain, surface, depth, lost, queue, timeline,
                  image>>
  BY DEF AskRecreate, gpu
<1>2. Layers' /\ (~lost' => Ordered' /\ Heights')
  BY <1>1, LayersLeft
<1>3. Bounds'
  BY <1>1 DEF LayersInv, Bounds, AskRecreate
<1> QED
  BY <1>2, <1>3 DEF LayersInv

LEMMA RecreateSwapchainLayers == ASSUME LayersInv, RecreateSwapchain PROVE LayersInv'
<1>1. UNCHANGED <<frameCount, frame, terrain, font, surface, depth, lost, queue, timeline, image>>
  BY DEF RecreateSwapchain, gpu
<1>2. Layers' /\ (~lost' => Ordered' /\ Heights')
  BY <1>1, LayersLeft
<1>3. Bounds'
  <2>1. pc = "recreate" /\ pc' = "events" /\ swapchain'.id = swapchain.id + 1
    BY DEF RecreateSwapchain, NewSwapchain
  <2>2. swapchain.id \in 1 .. MaxSwapchains /\ swapchain.id < MaxSwapchains /\ surface \in 1 .. swapchain.id
    BY <2>1 DEF LayersInv, Bounds
  <2>3. swapchain'.id \in 1 .. MaxSwapchains /\ surface' \in 1 .. swapchain'.id
    BY <1>1, <2>1, <2>2, FramesAssumption
  <2> QED
    BY <1>1, <2>1, <2>3 DEF LayersInv, Bounds
<1> QED
  BY <1>2, <1>3 DEF LayersInv

LEMMA BeginFrameLayers == ASSUME LayersInv, BeginFrame PROVE LayersInv'
<1>1. UNCHANGED <<frameCount, frame, terrain, font, swapchain, depth, lost, queue, timeline, image>>
  BY DEF BeginFrame, gpu
<1>2. Layers' /\ (~lost' => Ordered' /\ Heights')
  BY <1>1, LayersLeft
<1>3. Bounds'
  <2>1. pc' = "frame" /\ surface' = swapchain.id /\ frameCount < MaxFrames
    BY DEF BeginFrame, Cached, NewSurface
  <2>2. swapchain.id \in 1 .. swapchain.id
    BY FramesAssumption DEF LayersInv, Bounds
  <2> QED
    BY <1>1, <2>1, <2>2 DEF LayersInv, Bounds
<1> QED
  BY <1>2, <1>3 DEF LayersInv

-----------------------------------------------------------------------------
(* The processor, and the layers. *)

\* A frame owns one submission, and none when its fence was waited for.
LEMMA QueueShort ==
  ASSUME FramesInv
  PROVE Len(queue) <= 2 /\ (FenceWait => Len(queue) <= 1)
<1>1. /\ Len(queue) \in Nat /\ DOMAIN queue = 1 .. Len(queue)
      /\ \A i \in 1 .. Len(queue): queue[i].index \in {0, 1}
  <2>1. Typed
    BY DEF FramesInv
  <2>2. \A i \in 1 .. Len(queue): IsSubmission(queue[i])
    BY <2>1, Places
  <2>3. Frame = {0, 1}
    BY DEF Frame, FRAMES_IN_FLIGHT
  <2> QED
    BY <2>1, <2>2, <2>3, Places DEF IsSubmission
<1>2. \A i, j \in 1 .. Len(queue): queue[i].index = queue[j].index => i = j
  BY <1>1 DEF FramesInv, Fenced
<1>3. Len(queue) <= 2
  <2> SUFFICES ASSUME ~(Len(queue) <= 2) PROVE FALSE
    OBVIOUS
  <2>1. 1 \in 1 .. Len(queue) /\ 2 \in 1 .. Len(queue) /\ 3 \in 1 .. Len(queue)
    BY <1>1
  <2>2. /\ queue[1].index # queue[2].index /\ queue[1].index # queue[3].index
        /\ queue[2].index # queue[3].index
    BY <1>2, <2>1
  <2> QED
    BY <1>1, <2>1, <2>2
<1>4. ASSUME FenceWait PROVE Len(queue) <= 1
  <2> SUFFICES ASSUME ~(Len(queue) <= 1) PROVE FALSE
    OBVIOUS
  <2>1. 1 \in 1 .. Len(queue) /\ 2 \in 1 .. Len(queue)
    BY <1>1
  <2>2. Index \in {0, 1} /\ \A i \in 1 .. Len(queue): queue[i].index # Index
    <3>1. Index \in Frame /\ \A s \in Submitted: s.index # Index
      BY <1>4, WaitedFor
    <3>2. Typed
      BY DEF FramesInv
    <3>3. \A i \in 1 .. Len(queue): queue[i] \in Submitted
      BY <3>2, Places
    <3>4. Frame = {0, 1}
      BY DEF Frame, FRAMES_IN_FLIGHT
    <3> QED
      BY <3>1, <3>3, <3>4
  <2>3. queue[1].index # queue[2].index
    BY <1>2, <2>1
  <2> QED
    BY <1>1, <2>1, <2>2, <2>3
<1> QED
  BY <1>3, <1>4

LEMMA FinishLayers == ASSUME FramesInv, LayersInv, Finish PROVE LayersInv'
<1> DEFINE f == frame[Head(queue).index]
           n == Len(queue)
<1>1. /\ UNCHANGED <<frameCount, pc, terrain, font, swapchain, surface, depth, lost, image>>
      /\ queue # <<>> /\ queue' = Tail(queue) /\ Head(queue).uploaded
      /\ timeline' = Head(queue).signals
      /\ frame' = [frame EXCEPT ![Head(queue).index].fence = TRUE]
  BY DEF Finish
<1>2. /\ n \in Nat \ {0} /\ Len(queue') = n - 1 /\ DOMAIN queue' = 1 .. n - 1
      /\ Head(queue) = queue[1] /\ \A i \in 1 .. n - 1: queue'[i] = queue[i + 1]
      /\ DOMAIN queue = 1 .. n
  <2>1. Typed
    BY DEF FramesInv
  <2> QED
    BY <1>1, <2>1, Popped, Places
<1>3. n <= 2
  BY QueueShort
<1>4. \A i \in Frame: /\ frame'[i].staging = frame[i].staging /\ frame'[i].set = frame[i].set
                      /\ frame'[i].objects = frame[i].objects /\ frame'[i].text = frame[i].text
                      /\ frame'[i].pixels = frame[i].pixels /\ frame'[i].setup = frame[i].setup
                      /\ frame'[i].font = frame[i].font
  <2>1. frame = [i \in Frame |-> frame[i]] /\ \A i \in Frame: IsFrame(frame[i])
    BY DEF FramesInv, Typed
  <2>2. DOMAIN frame = Frame
    BY <2>1
  <2> DEFINE x == Head(queue).index
  <2>3. frame' = [frame EXCEPT ![x] = [frame[x] EXCEPT !.fence = TRUE]]
    BY <1>1
  <2> HIDE DEF x
  <2>4. ASSUME NEW i \in Frame
        PROVE frame'[i] = frame[i] \/ frame'[i] = [frame[i] EXCEPT !.fence = TRUE]
    BY <2>2, <2>3
  <2>5. ASSUME NEW i \in Frame
        PROVE /\ frame'[i].staging = frame[i].staging /\ frame'[i].set = frame[i].set
              /\ frame'[i].objects = frame[i].objects /\ frame'[i].text = frame[i].text
              /\ frame'[i].pixels = frame[i].pixels /\ frame'[i].setup = frame[i].setup
              /\ frame'[i].font = frame[i].font
    <3> DEFINE a == frame[i]
               b == frame'[i]
    <3>1. IsFrame(a) /\ (b = a \/ b = [a EXCEPT !.fence = TRUE])
      BY <2>1, <2>4
    <3> HIDE DEF a, b
    <3>2. /\ b.staging = a.staging /\ b.set = a.set /\ b.objects = a.objects /\ b.text = a.text
          /\ b.pixels = a.pixels /\ b.setup = a.setup /\ b.font = a.font
      BY <3>1 DEF IsFrame
    <3> QED
      BY <3>2 DEF a, b
  <2> QED
    BY <2>5
<1>5. /\ 1 \in DOMAIN queue
      /\ \A i \in DOMAIN queue': i + 1 \in DOMAIN queue /\ i \in Int /\ queue'[i] = queue[i + 1]
      /\ \A i \in DOMAIN queue: i \in Int /\ (i = 1 \/ (i - 1 \in DOMAIN queue' /\ queue'[i - 1] = queue[i]))
  <2>1. \A i \in DOMAIN queue: i = 1 \/ (i - 1 \in 1 .. n - 1 /\ (i - 1) + 1 = i)
    BY <1>2
  <2> QED
    BY <1>2, <2>1
<1>6. Bounds'
  <2>1. /\ frameCount \in 2 .. MaxFrames /\ (pc = "frame" => frameCount < MaxFrames)
        /\ timeline \in 2 .. MaxFrames /\ \A i \in DOMAIN queue: queue[i].signals \in 2 .. MaxFrames
        /\ pc \in {"events", "frame", "recreate"}
        /\ \A i \in Frame:
             /\ {frame[i].staging, frame[i].set, frame[i].objects, frame[i].text, frame[i].pixels}
                  \subseteq 0 .. MaxFrames
             /\ frame[i].setup \in 0 .. Extents /\ frame[i].font \in 0 .. MaxTexture
        /\ depth.id \in 0 .. MaxFrames /\ font \in 0 .. MaxTexture
        /\ swapchain.id \in 1 .. MaxSwapchains /\ surface \in 1 .. swapchain.id
        /\ pc = "recreate" => swapchain.id < MaxSwapchains
    BY DEF LayersInv, Bounds
  <2>2. timeline' \in 2 .. MaxFrames /\ \A i \in DOMAIN queue': queue'[i].signals \in 2 .. MaxFrames
    BY <1>1, <1>2, <1>5, <2>1
  <2>3. \A i \in Frame:
          /\ {frame'[i].staging, frame'[i].set, frame'[i].objects, frame'[i].text, frame'[i].pixels}
               \subseteq 0 .. MaxFrames
          /\ frame'[i].setup \in 0 .. Extents /\ frame'[i].font \in 0 .. MaxTexture
    BY <1>4, <2>1
  <2> QED
    BY <1>1, <2>1, <2>2, <2>3 DEF Bounds
<1>7. Layers'
  <2>1. Layers
    BY DEF LayersInv
  <2>2. \A i \in DOMAIN queue': Placed(queue'[i])
    BY <1>5, <2>1 DEF Layers
  <2> QED
    BY <1>1, <2>1, <2>2 DEF Layers
<1>8. ASSUME ~lost' PROVE Ordered' /\ Heights'
  <2>1. Ordered /\ Heights
    BY <1>1, <1>8 DEF LayersInv
  <2>2. Ordered'
    <3>1. \A i \in DOMAIN queue': queue'[i].number < frameCount
      BY <1>5, <2>1 DEF Ordered
    <3>2. ASSUME NEW i \in DOMAIN queue', NEW j \in DOMAIN queue', i < j
          PROVE queue'[i].number < queue'[j].number
      <4>1. /\ i + 1 \in DOMAIN queue /\ j + 1 \in DOMAIN queue /\ i + 1 < j + 1
            /\ queue'[i] = queue[i + 1] /\ queue'[j] = queue[j + 1]
        BY <1>5, <3>2
      <4> QED
        BY <2>1, <4>1 DEF Ordered
    <3>3. ASSUME queue' # <<>> PROVE queue'[n - 1].used = terrain.used
      <4>1. n - 1 # 0
        <5>1. Len(queue') = 0 => queue' = <<>>
          <6>1. queue' \in Seq(Submitted')
            BY Popped, <1>1 DEF FramesInv
          <6> QED
            BY <6>1, EmptySeq
        <5> QED
          BY <1>2, <3>3, <5>1
      <4>2. n - 1 \in 1 .. n - 1 /\ (n - 1) + 1 = n
        BY <1>2, <4>1
      <4> QED
        BY <1>1, <1>2, <2>1, <4>2 DEF Ordered
    <3> QED
      BY <1>1, <1>2, <3>1, <3>2, <3>3 DEF Ordered
  <2>3. ASSUME NEW p \in DOMAIN terrain.used PROVE Painted(terrain.used[p], p)'
    <3> DEFINE l == terrain.used[p]
    <3>1. Painted(l, p)
      BY <2>1 DEF Heights
    <3> HIDE DEF l
    <3>2. CASE image[l].pos = p /\ \A i \in DOMAIN queue: Spares(queue[i], l)
      BY <1>1, <1>5, <3>2 DEF Painted, l
    <3>3. CASE \E i \in DOMAIN queue: /\ Paints(queue[i], l, p)
                                      /\ \A j \in DOMAIN queue: j > i => Spares(queue[j], l)
      <4>1. PICK i \in DOMAIN queue: /\ Paints(queue[i], l, p)
                                     /\ \A j \in DOMAIN queue: j > i => Spares(queue[j], l)
        BY <3>3
      <4>2. i # 1
        BY <1>1, <1>2, <4>1 DEF Paints
      <4>3. i - 1 \in DOMAIN queue' /\ queue'[i - 1] = queue[i]
        BY <1>5, <4>2
      <4>4. ASSUME NEW j \in DOMAIN queue', j > i - 1 PROVE Spares(queue'[j], l)
        <5>1. j + 1 \in DOMAIN queue /\ j + 1 > i /\ queue'[j] = queue[j + 1]
          BY <1>5, <4>4
        <5> QED
          BY <4>1, <5>1
      <4>5. \E k \in DOMAIN queue': /\ Paints(queue'[k], l, p)
                                    /\ \A j \in DOMAIN queue': j > k => Spares(queue'[j], l)
        BY <4>1, <4>3, <4>4
      <4> QED
        BY <1>1, <4>5 DEF Painted, l
    <3> QED
      BY <3>1, <3>2, <3>3 DEF Painted
  <2>4. \A i \in DOMAIN queue': ~(i < Len(queue'))
    BY <1>2, <1>3
  <2>5. Heights'
    BY <1>1, <2>3, <2>4 DEF Heights
  <2> QED
    BY <2>2, <2>5
<1> QED
  BY <1>6, <1>7, <1>8 DEF LayersInv

\* What a layer holds after the transfers of a submission: the heights of the last
\* region uploaded into it, or what it held.
After(s, m) ==
  /\ m = [l \in Layer |-> m[l]]
  /\ \A l \in Layer:
       \/ NoUpload(s.uploads, l) /\ m[l] = image[l]
       \/ \E q \in Regions: LastUpload(s.uploads, l, q) /\ m[l] = [pos |-> q, by |-> s.number]

LEMMA Transferred ==
  ASSUME image = [l \in Layer |-> image[l]], NEW s, s.uploads \in Seq(Upload),
         NEW m, m = TransferAllHeights(s)
  PROVE After(s, m)
<1> DEFINE ups == s.uploads
           n == Len(ups)
<1>1. n \in Nat /\ DOMAIN ups = 1 .. n /\ \A i \in 1 .. n: ups[i] \in Upload
  BY LenProperties
<1>2. PICK f: /\ f[0] = image
              /\ \A k \in 1 .. n: f[k] = TransferHeights(f[k - 1], ups[k], s.number)
              /\ m = f[n]
  BY TransferSteps
<1> DEFINE Last0(k, l, q) == \E i \in 1 .. k: /\ ups[i].layer = l /\ ups[i].pos = q
                                              /\ \A j \in 1 .. k: j > i => ups[j].layer # l
           Good(k) == /\ f[k] = [l \in Layer |-> f[k][l]]
                      /\ \A l \in Layer:
                           \/ (\A i \in 1 .. k: ups[i].layer # l) /\ f[k][l] = image[l]
                           \/ \E q \in Regions: Last0(k, l, q) /\ f[k][l] = [pos |-> q, by |-> s.number]
           S == {k \in Nat : k <= n => Good(k)}
<1> HIDE DEF ups, n
<1>3. 0 \in S
  BY <1>2
<1> HIDE DEF Good
<1>4. ASSUME NEW k \in Nat, k \in S PROVE k + 1 \in S
  <2>1. SUFFICES ASSUME k + 1 <= n PROVE Good(k + 1)
    OBVIOUS
  <2> DEFINE x == k + 1
             u == ups[x]
             a == f[k]
             b == f[x]
  <2>2. x \in 1 .. n /\ x - 1 = k /\ k <= n
    BY <1>1, <2>1
  <2>3. Good(k)
    BY <1>4, <2>2 DEF Good
  <2>4. u \in Upload /\ b = [a EXCEPT ![u.layer] = [pos |-> u.pos, by |-> s.number]]
    BY <1>1, <1>2, <2>2 DEF TransferHeights
  <2>5. u.layer \in Layer /\ u.pos \in Regions
    BY <2>4 DEF Upload
  <2>6. DOMAIN a = Layer
    <3>1. a = [l \in Layer |-> a[l]]
      BY <2>3 DEF Good
    <3> HIDE DEF a
    <3> QED
      BY <3>1
  <2>7. /\ b = [l \in Layer |-> b[l]]
        /\ b[u.layer] = [pos |-> u.pos, by |-> s.number]
        /\ \A l \in Layer: l # u.layer => b[l] = a[l]
    <3> HIDE DEF a, b, u
    <3>1. b = [l \in Layer |-> IF l = u.layer THEN [pos |-> u.pos, by |-> s.number] ELSE a[l]]
      BY <2>4, <2>5, <2>6
    <3> QED
      BY <2>5, <3>1
  <2>8. x \in 1 .. x /\ \A i \in 1 .. x: i \in Int /\ (i = x \/ i \in 1 .. k)
    OBVIOUS
  <2>9. \A i \in 1 .. k: i \in 1 .. x /\ ~(i > x) /\ x > i
    OBVIOUS
  <2>10. ASSUME NEW l \in Layer
         PROVE \/ (\A i \in 1 .. x: ups[i].layer # l) /\ b[l] = image[l]
               \/ \E q \in Regions: Last0(x, l, q) /\ b[l] = [pos |-> q, by |-> s.number]
    <3>1. CASE l = u.layer
      <4>1. \A j \in 1 .. x: ~(j > x)
        OBVIOUS
      <4>2. Last0(x, l, u.pos)
        <5> HIDE DEF x
        <5> QED
          BY <2>8, <3>1, <4>1
      <4> QED
        BY <2>5, <2>7, <3>1, <4>2
    <3>2. CASE l # u.layer
      <4>1. b[l] = a[l]
        BY <2>7, <3>2
      <4>2. CASE (\A i \in 1 .. k: ups[i].layer # l) /\ a[l] = image[l]
        <5>1. \A i \in 1 .. x: ups[i].layer # l
          BY <2>8, <3>2, <4>2
        <5> QED
          BY <4>1, <4>2, <5>1
      <4>3. CASE \E q \in Regions: Last0(k, l, q) /\ a[l] = [pos |-> q, by |-> s.number]
        <5>1. PICK q \in Regions: Last0(k, l, q) /\ a[l] = [pos |-> q, by |-> s.number]
          BY <4>3
        <5>2. PICK i \in 1 .. k: /\ ups[i].layer = l /\ ups[i].pos = q
                                 /\ \A j \in 1 .. k: j > i => ups[j].layer # l
          BY <5>1
        <5>3. \A j \in 1 .. x: j > i => ups[j].layer # l
          BY <2>8, <3>2, <5>2
        <5>4. Last0(x, l, q)
          BY <2>9, <5>2, <5>3
        <5> QED
          BY <4>1, <5>1, <5>4
      <4> QED
        BY <2>3, <4>2, <4>3 DEF Good
    <3> QED
      BY <3>1, <3>2
  <2> QED
    BY <2>7, <2>10 DEF Good
<1> HIDE DEF S
<1>5. n \in S
  BY <1>1, <1>3, <1>4, Upwards
<1>6. Good(n)
  BY <1>1, <1>5 DEF S
<1>7. m = [l \in Layer |-> m[l]]
  BY <1>2, <1>6 DEF Good
<1>8. ASSUME NEW l \in Layer
      PROVE \/ NoUpload(ups, l) /\ m[l] = image[l]
            \/ \E q \in Regions: LastUpload(ups, l, q) /\ m[l] = [pos |-> q, by |-> s.number]
  <2>1. CASE (\A i \in 1 .. n: ups[i].layer # l) /\ m[l] = image[l]
    BY <1>1, <2>1 DEF NoUpload
  <2>2. CASE \E q \in Regions: Last0(n, l, q) /\ m[l] = [pos |-> q, by |-> s.number]
    BY <1>1, <2>2 DEF LastUpload
  <2>3. \/ (\A i \in 1 .. n: ups[i].layer # l) /\ f[n][l] = image[l]
        \/ \E q \in Regions: Last0(n, l, q) /\ f[n][l] = [pos |-> q, by |-> s.number]
    BY <1>6 DEF Good
  <2> HIDE DEF Last0
  <2> QED
    BY <1>2, <2>1, <2>2, <2>3
<1> QED
  BY <1>7, <1>8 DEF After, ups

\* The last upload into a layer is of one region.
LEMMA LastAlone ==
  ASSUME NEW ups \in Seq(Upload), NEW l, NEW p, NEW q, LastUpload(ups, l, p), LastUpload(ups, l, q)
  PROVE p = q /\ ~NoUpload(ups, l)
<1>1. PICK i \in DOMAIN ups:
        ups[i].layer = l /\ ups[i].pos = p /\ \A j \in DOMAIN ups: j > i => ups[j].layer # l
  BY DEF LastUpload
<1>2. PICK k \in DOMAIN ups:
        ups[k].layer = l /\ ups[k].pos = q /\ \A j \in DOMAIN ups: j > k => ups[j].layer # l
  BY DEF LastUpload
<1>3. i \in Int /\ k \in Int
  BY LenProperties
<1>4. i = k
  BY <1>1, <1>2, <1>3
<1> QED
  BY <1>1, <1>2, <1>4 DEF NoUpload

LEMMA TransferLayers == ASSUME FramesInv, LayersInv, Transfer PROVE LayersInv'
<1>1. PICK n \in DOMAIN queue:
        /\ ~queue[n].uploaded /\ \A j \in 1 .. n - 1: queue[j].uploaded
        /\ queue' = [queue EXCEPT ![n].uploaded = TRUE]
        /\ image' = TransferAllHeights(queue[n])
        /\ UNCHANGED <<cpu, timeline>>
  BY DEF Transfer
<1>2. UNCHANGED <<frameCount, pc, frame, terrain, font, swapchain, surface, depth, lost, timeline>>
  BY <1>1 DEF cpu
<1>3. /\ Typed /\ Len(queue) \in Nat /\ DOMAIN queue = 1 .. Len(queue) /\ n \in 1 .. Len(queue)
      /\ \A i \in 1 .. Len(queue): IsSubmission(queue[i])
  <2>1. Typed
    BY DEF FramesInv
  <2> QED
    BY <1>1, <2>1, Places
<1>4. Len(queue) <= 2
  BY QueueShort
<1>5. /\ Len(queue') = Len(queue) /\ DOMAIN queue' = DOMAIN queue
      /\ \A i \in 1 .. Len(queue): i # n => queue'[i] = queue[i]
      /\ queue'[n] = [queue[n] EXCEPT !.uploaded = TRUE]
      /\ queue' \in Seq(Submitted')
  BY <1>1, <1>3, Uploaded
<1>6. /\ queue'[n].uploaded
      /\ \A i \in DOMAIN queue:
           /\ queue'[i].number = queue[i].number /\ queue'[i].uploads = queue[i].uploads
           /\ queue'[i].used = queue[i].used /\ queue'[i].signals = queue[i].signals
           /\ i # n => queue'[i].uploaded = queue[i].uploaded
  <2> DEFINE s == queue[n]
             t == [s EXCEPT !.uploaded = TRUE]
  <2>1. IsSubmission(s) /\ queue'[n] = t
    BY <1>3, <1>5
  <2> HIDE DEF s
  <2>2. /\ t.uploaded /\ t.number = s.number /\ t.uploads = s.uploads
        /\ t.used = s.used /\ t.signals = s.signals
    BY <2>1 DEF IsSubmission
  <2> HIDE DEF t
  <2> QED
    BY <1>3, <1>5, <2>1, <2>2 DEF s
<1>7. Layers /\ queue[n].uploads \in Seq(Upload)
  BY <1>1 DEF LayersInv, Layers, Placed
<1>8. /\ image' = [l \in Layer |-> image'[l]]
      /\ \A l \in Layer:
           \/ NoUpload(queue[n].uploads, l) /\ image'[l] = image[l]
           \/ \E q \in Regions: /\ LastUpload(queue[n].uploads, l, q)
                                /\ image'[l] = [pos |-> q, by |-> queue[n].number]
  <2>1. image = [l \in Layer |-> image[l]]
    BY <1>7 DEF Layers
  <2>2. After(queue[n], image')
    BY <1>1, <1>7, <2>1, Transferred
  <2> QED
    BY <2>2 DEF After
<1>9. Layers'
  <2>1. \A i \in DOMAIN queue': Placed(queue'[i])
    BY <1>5, <1>6, <1>7 DEF Layers, Placed
  <2> QED
    BY <1>2, <1>7, <1>8, <2>1 DEF Layers
<1>10. Bounds'
  <2>1. \A i \in DOMAIN queue': queue'[i].signals \in 2 .. MaxFrames
    BY <1>5, <1>6 DEF LayersInv, Bounds
  <2> QED
    BY <1>2, <2>1 DEF LayersInv, Bounds
\* Which submissions paint and spare a layer, before and after.
<1>11. ASSUME NEW l, NEW i \in DOMAIN queue
       PROVE /\ Spares(queue[i], l) => Spares(queue'[i], l)
             /\ i = n => Spares(queue'[i], l)
             /\ \A p \in Regions: i # n /\ Paints(queue[i], l, p) => Paints(queue'[i], l, p)
             /\ \A p \in Regions: Paints(queue[i], l, p) => i >= n
  <2>1. ~queue[i].uploaded => i >= n
    BY <1>1, <1>3
  <2> QED
    BY <1>6, <2>1 DEF Spares, Paints
<1>12. ASSUME NEW l \in Layer, NEW p \in Regions, Painted(l, p) PROVE Painted(l, p)'
  <2>1. CASE image[l].pos = p /\ \A i \in DOMAIN queue: Spares(queue[i], l)
    <3>1. NoUpload(queue[n].uploads, l)
      BY <1>1, <2>1 DEF Spares
    <3>2. image'[l] = image[l]
      BY <1>7, <1>8, <3>1, LastAlone
    <3> QED
      BY <1>5, <1>11, <2>1, <3>2 DEF Painted
  <2>2. CASE \E i \in DOMAIN queue: /\ Paints(queue[i], l, p)
                                    /\ \A j \in DOMAIN queue: j > i => Spares(queue[j], l)
    <3>1. PICK i \in DOMAIN queue: /\ Paints(queue[i], l, p)
                                   /\ \A j \in DOMAIN queue: j > i => Spares(queue[j], l)
      BY <2>2
    <3>2. CASE i = n
      <4>1. LastUpload(queue[n].uploads, l, p)
        BY <3>1, <3>2 DEF Paints
      <4>2. image'[l].pos = p
        BY <1>7, <1>8, <4>1, LastAlone
      <4>3. \A j \in DOMAIN queue: Spares(queue'[j], l)
        <5>1. ASSUME NEW j \in DOMAIN queue PROVE Spares(queue'[j], l)
          <6>1. j = n \/ j > n \/ j \in 1 .. n - 1
            BY <1>3
          <6>2. CASE j \in 1 .. n - 1
            BY <1>1, <1>11, <6>2 DEF Spares
          <6> QED
            BY <1>11, <3>1, <3>2, <6>1, <6>2
        <5> QED
          BY <5>1
      <4> QED
        BY <1>5, <4>2, <4>3 DEF Painted
    <3>3. CASE i # n
      <4>1. Paints(queue'[i], l, p) /\ \A j \in DOMAIN queue: j > i => Spares(queue'[j], l)
        BY <1>11, <3>1, <3>3
      <4>2. \E k \in DOMAIN queue': /\ Paints(queue'[k], l, p)
                                    /\ \A j \in DOMAIN queue': j > k => Spares(queue'[j], l)
        BY <1>5, <4>1
      <4> QED
        BY <4>2 DEF Painted
    <3> QED
      BY <3>2, <3>3
  <2> QED
    BY <1>12, <2>1, <2>2 DEF Painted
\* A submission that is not the last is the first, and this may be it or the next one.
<1>13. ASSUME Ordered, Heights, NEW k \in DOMAIN queue, k < Len(queue), NEW l \in Layer,
              NEW p \in Regions, Kept(queue[k], l, p)
       PROVE Kept(queue[k], l, p)'
  <2> DEFINE elsewhere == p \notin DOMAIN terrain.used \/ terrain.used[p] # l
  <2>1. k = 1 /\ Len(queue) = 2 /\ (n = 1 \/ n = 2)
    BY <1>3, <1>4, <1>13
  <2>2. Paints(queue[k], l, p)
        \/ (Spares(queue[k], l) /\ (image[l].pos = p \/ (image[l].by > queue[k].number /\ elsewhere)))
    BY <1>13 DEF Kept
  <2>3. CASE n = k
    <3>1. CASE Paints(queue[k], l, p)
      <4>1. LastUpload(queue[n].uploads, l, p)
        BY <2>3, <3>1 DEF Paints
      <4>2. image'[l].pos = p
        BY <1>7, <1>8, <4>1, LastAlone
      <4> QED
        BY <1>11, <2>3, <4>2 DEF Kept
    <3>2. CASE Spares(queue[k], l) /\ (image[l].pos = p \/ (image[l].by > queue[k].number /\ elsewhere))
      <4>1. NoUpload(queue[n].uploads, l)
        BY <1>1, <2>3, <3>2 DEF Spares
      <4>2. image'[l] = image[l]
        BY <1>7, <1>8, <4>1, LastAlone
      <4> QED
        BY <1>2, <1>6, <1>11, <2>3, <3>2, <4>2 DEF Kept
    <3> QED
      BY <2>2, <3>1, <3>2
  <2>4. CASE n # k
    <3>0. n = 2 /\ queue[1].uploaded
      BY <1>1, <2>1, <2>4
    <3>1. ~Paints(queue[k], l, p)
      BY <2>1, <3>0 DEF Paints
    <3>2. Spares(queue'[k], l) /\ (image[l].pos = p \/ (image[l].by > queue[k].number /\ elsewhere))
      BY <1>11, <2>2, <3>1
    <3>3. CASE NoUpload(queue[n].uploads, l)
      <4>1. image'[l] = image[l]
        BY <1>7, <1>8, <3>3, LastAlone
      <4> QED
        BY <1>2, <1>6, <3>2, <4>1 DEF Kept
    <3>4. CASE ~NoUpload(queue[n].uploads, l)
      <4>1. PICK q \in Regions: /\ LastUpload(queue[n].uploads, l, q)
                                /\ image'[l] = [pos |-> q, by |-> queue[n].number]
        BY <1>8, <3>4
      <4>2. image'[l].pos = q /\ image'[l].by = queue[n].number
        BY <4>1
      <4>3. image'[l].by > queue'[k].number
        <5>1. queue[1].number < queue[2].number /\ queue[1].number \in Nat /\ queue[2].number \in Nat
          BY <1>3, <1>13, <2>1 DEF Ordered, IsSubmission
        <5> QED
          BY <1>6, <2>1, <3>0, <4>2, <5>1
      <4>4. CASE q = p
        BY <3>2, <4>2, <4>4 DEF Kept
      <4>5. CASE q # p
        <5>1. elsewhere
          <6> SUFFICES ASSUME p \in DOMAIN terrain.used, terrain.used[p] = l PROVE FALSE
            OBVIOUS
          <6>1. Painted(l, p)
            BY <1>13 DEF Heights
          <6>2. ~Spares(queue[n], l)
            BY <1>1, <3>4 DEF Spares
          <6>3. PICK i \in DOMAIN queue: /\ Paints(queue[i], l, p)
                                         /\ \A j \in DOMAIN queue: j > i => Spares(queue[j], l)
            BY <6>1, <6>2 DEF Painted
          <6>4. i >= n
            BY <1>11, <6>3
          <6>5. i = n
            BY <1>3, <2>1, <3>0, <6>4
          <6>6. LastUpload(queue[n].uploads, l, p)
            BY <6>3, <6>5 DEF Paints
          <6> QED
            BY <1>7, <4>1, <4>5, <6>6, LastAlone
        <5> QED
          BY <1>2, <3>2, <4>3, <5>1 DEF Kept
      <4> QED
        BY <4>4, <4>5
    <3> QED
      BY <3>3, <3>4
  <2> QED
    BY <2>3, <2>4
<1>14. ASSUME ~lost' PROVE Ordered' /\ Heights'
  <2>1. Ordered /\ Heights
    BY <1>2, <1>14 DEF LayersInv
  <2>2. Ordered'
    <3>1. queue # <<>>
      BY <1>3, EmptySeq
    <3>2. Len(queue) \in DOMAIN queue
      BY <1>3
    <3> QED
      BY <1>2, <1>5, <1>6, <2>1, <3>1, <3>2 DEF Ordered
  <2>3. ASSUME NEW p \in DOMAIN terrain.used PROVE Painted(terrain.used[p], p)'
    <3>0. terrain.used[p] \in Layer /\ p \in Regions
      BY <1>7 DEF Layers, SharedOut
    <3> PICK l \in Layer: l = terrain.used[p]
      BY <3>0
    <3>1. Painted(l, p)
      BY <2>1 DEF Heights
    <3>2. terrain'.used[p] = l
      BY <1>2
    <3>3. Painted(l, p)'
      BY <1>12, <3>0, <3>1
    <3> QED
      BY <3>2, <3>3
  <2>4. ASSUME NEW k \in DOMAIN queue, k < Len(queue), NEW p \in DOMAIN queue[k].used
        PROVE Kept(queue[k], queue[k].used[p], p)'
    <3>0. queue[k].used[p] \in Layer /\ p \in Regions
      BY <1>7 DEF Layers, Placed
    <3> PICK l \in Layer: l = queue[k].used[p]
      BY <3>0
    <3>1. Kept(queue[k], l, p)
      BY <2>1, <2>4 DEF Heights
    <3>2. queue'[k].used[p] = l
      BY <1>6
    <3>3. Kept(queue[k], l, p)'
      BY <1>13, <2>1, <2>4, <3>0, <3>1
    <3> QED
      BY <3>2, <3>3
  <2>5. Heights'
    <3>1. terrain' = terrain /\ DOMAIN queue' = DOMAIN queue /\ Len(queue') = Len(queue)
          /\ \A k \in DOMAIN queue: queue'[k].used = queue[k].used
      BY <1>2, <1>5, <1>6
    <3> QED
      BY <2>3, <2>4, <3>1 DEF Heights
  <2> QED
    BY <2>2, <2>5
<1> QED
  BY <1>9, <1>10, <1>14 DEF LayersInv

-----------------------------------------------------------------------------
(* RootFrame::render, and the layers. *)

\* The frame that is prepared, and the others, keep their bounds.
LEMMA PreparedBounds ==
  ASSUME FramesInv, Bounds, pc = "frame", Index \in Frame, NEW e \in LaidOut,
         NEW g, g = Prepared(frame[Index], Drained, e)
  PROVE /\ {g.staging, g.set, g.objects, g.text, g.pixels} \subseteq 0 .. MaxFrames
        /\ g.setup \in 0 .. Extents /\ g.font \in 0 .. MaxTexture
        /\ PreparedDepth.id \in 0 .. MaxFrames /\ PreparedFont(e) \in 0 .. MaxTexture
<1> DEFINE f == frame[Index]
<1>1. /\ frameCount \in 2 .. MaxFrames /\ f.set \in 0 .. MaxFrames /\ f.text \in 0 .. MaxFrames
      /\ f.font \in 0 .. MaxTexture /\ depth.id \in 0 .. MaxFrames /\ font \in 0 .. MaxTexture
  BY DEF Bounds
<1>2. f \in {frame[i] : i \in Frame}
  OBVIOUS
<1>3. /\ g.objects = frameCount
      /\ g.staging = StagedHeights(Drained) /\ g.pixels = StagedPixels(e)
      /\ g.setup = swapchain.extent /\ g.set = CullSet(f, PreparedDepth)
      /\ g.text = WrittenText(f, e) /\ g.font = HeldFont(f, e)
  BY <1>2, PreparedFrame
<1>4. texture \in Nat /\ swapchain.extent \in 1 .. Extents /\ MaxTexture \in Nat /\ Extents \in Nat
      /\ MaxFrames \in Nat
  BY FramesAssumption DEF FramesInv, Typed
<1>5. e.texture \in 0 .. MaxTexture
  BY <1>4 DEF LaidOut
<1> HIDE DEF f
<1>6. PreparedDepth.id \in 0 .. MaxFrames
  BY <1>1, <1>4 DEF PreparedDepth, Cached, NewDepth
<1>7. PreparedFont(e) \in 0 .. MaxTexture /\ HeldFont(f, e) \in 0 .. MaxTexture
  BY <1>1, <1>5 DEF PreparedFont, HeldFont
<1>8. /\ StagedHeights(Drained) \in 0 .. MaxFrames /\ StagedPixels(e) \in 0 .. MaxFrames
      /\ WrittenText(f, e) \in 0 .. MaxFrames /\ frameCount \in 0 .. MaxFrames
  BY <1>1, <1>4 DEF StagedHeights, StagedPixels, WrittenText, None
<1>9. CullSet(f, PreparedDepth) \in 0 .. MaxFrames
  BY <1>1, <1>6 DEF CullSet, Cached
<1>10. swapchain.extent \in 0 .. Extents
  BY <1>4
<1> QED
  BY <1>3, <1>6, <1>7, <1>8, <1>9, <1>10

LEMMA RenderLayers == ASSUME FramesInv, LayersInv, Render PROVE LayersInv'
<1>1. PICK e \in LaidOut:
        /\ Submit(Drained, e) \/ OutOfDate
        /\ frame' = [frame EXCEPT ![Index] = Prepared(@, Drained, e)]
        /\ terrain' = PreparedTerrain(Drained)
        /\ font' = PreparedFont(e)
  BY DEF Render
<1>2. /\ UNCHANGED <<swapchain, surface, timeline, image>>
      /\ depth' = PreparedDepth /\ frameCount' = frameCount + 1
      /\ pc = "frame" /\ FenceWait
  BY DEF Render
<1> DEFINE f == frame[Index]
           g == Prepared(f, Drained, e)
           s == Submission(g, Drained, e)
           n == Len(queue)
<1>3. /\ Typed /\ frame = [i \in Frame |-> frame[i]]
  BY DEF FramesInv, Typed
<1>4. Index \in Frame
  BY <1>2, WaitedFor
<1>5. IsFrame(g)
  <2>1. f \in {frame[i] : i \in Frame}
    BY <1>4
  <2> QED
    BY <1>2, <2>1, PreparedFrame
<1>6. /\ s.number = frameCount /\ s.uploads = Drained.uploads /\ s.used = Drained.used
      /\ s.uploaded = (Drained.uploads = <<>> /\ ~NewFont(e))
  BY <1>2, <1>4, <1>5, Recorded
<1>7. s.signals = frameCount + 1
  BY DEF Submission, Timeline
<1>8. /\ {g.staging, g.set, g.objects, g.text, g.pixels} \subseteq 0 .. MaxFrames
      /\ g.setup \in 0 .. Extents /\ g.font \in 0 .. MaxTexture
      /\ PreparedDepth.id \in 0 .. MaxFrames /\ PreparedFont(e) \in 0 .. MaxTexture
  BY <1>2, <1>4, PreparedBounds DEF LayersInv
<1>9. \/ /\ lost' = lost /\ queue' = Append(queue, s)
         /\ pc' = "events" \/ (swapchain.id < MaxSwapchains /\ pc' = "recreate")
      \/ lost' = TRUE /\ queue' = queue /\ swapchain.id < MaxSwapchains /\ pc' = "recreate"
  BY <1>1 DEF Submit, OutOfDate
<1>10. frame' = [frame EXCEPT ![Index] = g]
  BY <1>1
<1> HIDE DEF f, g, s
<1>11. \A i \in Frame: frame'[i] = g \/ frame'[i] = frame[i]
  <2>1. DOMAIN frame = Frame
    BY <1>3
  <2> QED
    BY <1>10, <2>1
<1>12. n \in Nat /\ n <= 1 /\ DOMAIN queue = 1 .. n
  BY <1>2, <1>3, QueueShort, Places
<1>13. \/ /\ lost' = lost /\ Len(queue') = n + 1 /\ DOMAIN queue' = 1 .. n + 1 /\ queue'[n + 1] = s
          /\ \A i \in 1 .. n: queue'[i] = queue[i]
       \/ lost' = TRUE /\ queue' = queue
  <2>1. CASE queue' = Append(queue, s) /\ lost' = lost
    BY <1>3, <2>1, Appended
  <2> QED
    BY <1>9, <2>1
<1>14. \A i \in DOMAIN queue': queue'[i] = s \/ (i \in DOMAIN queue /\ queue'[i] = queue[i])
  <2>1. \A i \in 1 .. n + 1: i = n + 1 \/ i \in 1 .. n
    BY <1>12
  <2> QED
    BY <1>12, <1>13, <2>1
<1>15. Bounds'
  <2>1. /\ frameCount \in 2 .. MaxFrames /\ frameCount < MaxFrames /\ timeline \in 2 .. MaxFrames
        /\ \A i \in DOMAIN queue: queue[i].signals \in 2 .. MaxFrames
        /\ \A i \in Frame:
             /\ {frame[i].staging, frame[i].set, frame[i].objects, frame[i].text, frame[i].pixels}
                  \subseteq 0 .. MaxFrames
             /\ frame[i].setup \in 0 .. Extents /\ frame[i].font \in 0 .. MaxTexture
        /\ swapchain.id \in 1 .. MaxSwapchains /\ surface \in 1 .. swapchain.id
    BY <1>2 DEF LayersInv, Bounds
  <2>2. frameCount + 1 \in 2 .. MaxFrames
    BY <2>1, FramesAssumption
  <2>3. \A i \in DOMAIN queue': queue'[i].signals \in 2 .. MaxFrames
    BY <1>7, <1>14, <2>1, <2>2
  <2>4. \A i \in Frame:
          /\ {frame'[i].staging, frame'[i].set, frame'[i].objects, frame'[i].text, frame'[i].pixels}
               \subseteq 0 .. MaxFrames
          /\ frame'[i].setup \in 0 .. Extents /\ frame'[i].font \in 0 .. MaxTexture
    BY <1>8, <1>11, <2>1
  <2>5. pc' \in {"events", "frame", "recreate"} /\ pc' # "frame"
        /\ (pc' = "recreate" => swapchain.id < MaxSwapchains)
    BY <1>9
  <2> QED
    BY <1>1, <1>2, <1>8, <2>1, <2>2, <2>3, <2>4, <2>5 DEF Bounds
<1>16. Layers /\ Draining(Drained, Held)
  BY DrainedLayers DEF LayersInv
<1>17. /\ SharedOut(Drained.used, Drained.unused) /\ Drained.uploads \in Seq(Upload)
       /\ Drained.used \in [DOMAIN Drained.used -> Layer] /\ DOMAIN Drained.used \subseteq Regions
       /\ \A p \in DOMAIN Drained.used:
            \/ LastUpload(Drained.uploads, Drained.used[p], p)
            \/ /\ NoUpload(Drained.uploads, Drained.used[p])
               /\ p \in DOMAIN terrain.used /\ terrain.used[p] = Drained.used[p]
  BY <1>16 DEF Draining, SharedOut
<1>18. terrain'.used = Drained.used /\ terrain'.unused = Drained.unused /\ terrain'.changes = <<>>
  BY <1>1 DEF PreparedTerrain
<1>19. Layers'
  <2>1. <<>> \in Seq([add: BOOLEAN, pos: Regions]) /\ Len(<<>>) = 0
    BY EmptySeq
  <2> DEFINE h == [k \in 0 .. 0 |-> DOMAIN Drained.used]
  <2>2. h \in [0 .. Len(<<>>) -> SUBSET Regions] /\ h[0] = DOMAIN Drained.used
    BY <1>17, <2>1
  <2>3. Legal(<<>>, h)
    BY <2>1 DEF Legal
  <2> HIDE DEF h
  <2>4. image' = [l \in Layer |-> image'[l]]
    BY <1>2, <1>16 DEF Layers
  <2>5. \A i \in DOMAIN queue': Placed(queue'[i])
    BY <1>6, <1>14, <1>16, <1>17 DEF Placed, Layers
  <2> QED
    BY <1>17, <1>18, <2>1, <2>2, <2>3, <2>4, <2>5 DEF Layers
<1>20. ASSUME ~lost' PROVE Ordered' /\ Heights'
  <2>1. Ordered /\ Heights /\ ~lost
    BY <1>13, <1>20 DEF LayersInv
  <2>2. /\ Len(queue') = n + 1 /\ DOMAIN queue' = 1 .. n + 1 /\ queue'[n + 1] = s
        /\ \A i \in 1 .. n: queue'[i] = queue[i]
    BY <1>13, <1>20
  <2>3. /\ n + 1 \in DOMAIN queue' /\ \A i \in DOMAIN queue': ~(i > n + 1)
        /\ \A i \in DOMAIN queue': i = n + 1 \/ i \in 1 .. n
        /\ \A i \in 1 .. n: i \in DOMAIN queue' /\ i \in Int
    BY <1>12, <2>2
  <2>4. frameCount \in Nat /\ \A i \in 1 .. n: queue[i].number \in Nat
    <3>1. \A i \in 1 .. n: IsSubmission(queue[i])
      BY <1>3, Places
    <3> QED
      BY <1>3, <3>1 DEF Typed, IsSubmission
  <2>5. Ordered'
    <3>1. \A i \in 1 .. n: queue[i].number < frameCount
      BY <1>12, <2>1 DEF Ordered
    <3>2. \A i \in DOMAIN queue': queue'[i].number < frameCount + 1
      BY <1>6, <2>2, <2>3, <2>4, <3>1
    <3>3. ASSUME NEW i \in DOMAIN queue', NEW j \in DOMAIN queue', i < j
          PROVE queue'[i].number < queue'[j].number
      <4>1. i \in 1 .. n
        BY <1>12, <2>2, <3>3
      <4>2. CASE j = n + 1
        BY <1>6, <2>2, <3>1, <4>1, <4>2
      <4>3. CASE j \in 1 .. n
        BY <1>12, <2>1, <2>2, <3>3, <4>1, <4>3 DEF Ordered
      <4> QED
        BY <2>3, <4>2, <4>3
    <3> QED
      BY <1>2, <1>6, <1>18, <2>2, <3>2, <3>3 DEF Ordered
  <2>6. ASSUME NEW p \in DOMAIN terrain'.used PROVE Painted(terrain.used[p], p)'
    <3>1. p \in DOMAIN Drained.used /\ Drained.used[p] \in Layer
      BY <1>17, <1>18
    <3> PICK l \in Layer: l = Drained.used[p]
      BY <3>1
    <3>2. CASE LastUpload(Drained.uploads, l, p)
      <4>1. Drained.uploads # <<>>
        BY <3>2, EmptySeq DEF LastUpload
      <4>2. Paints(s, l, p)
        BY <1>6, <3>2, <4>1 DEF Paints
      <4>3. \E i \in DOMAIN queue': /\ Paints(queue'[i], l, p)
                                    /\ \A j \in DOMAIN queue': j > i => Spares(queue'[j], l)
        BY <2>2, <2>3, <4>2
      <4> QED
        BY <1>18, <4>3 DEF Painted
    <3>3. CASE NoUpload(Drained.uploads, l) /\ p \in DOMAIN terrain.used /\ terrain.used[p] = l
      <4>1. Painted(l, p)
        BY <2>1, <3>3 DEF Heights
      <4>2. Spares(s, l)
        BY <1>6, <3>3 DEF Spares
      <4>3. CASE image[l].pos = p /\ \A i \in DOMAIN queue: Spares(queue[i], l)
        <5>1. image'[l].pos = p /\ \A i \in DOMAIN queue': Spares(queue'[i], l)
          BY <1>2, <1>14, <4>2, <4>3
        <5> QED
          BY <1>18, <5>1 DEF Painted
      <4>4. CASE \E i \in DOMAIN queue: /\ Paints(queue[i], l, p)
                                        /\ \A j \in DOMAIN queue: j > i => Spares(queue[j], l)
        <5>1. PICK i \in DOMAIN queue: /\ Paints(queue[i], l, p)
                                       /\ \A j \in DOMAIN queue: j > i => Spares(queue[j], l)
          BY <4>4
        <5>2. i \in DOMAIN queue' /\ Paints(queue'[i], l, p)
          BY <1>12, <2>2, <2>3, <5>1
        <5>3. \A j \in DOMAIN queue': j > i => Spares(queue'[j], l)
          BY <1>14, <4>2, <5>1
        <5>4. \E k \in DOMAIN queue': /\ Paints(queue'[k], l, p)
                                      /\ \A j \in DOMAIN queue': j > k => Spares(queue'[j], l)
          BY <5>2, <5>3
        <5> QED
          BY <1>18, <5>4 DEF Painted
      <4> QED
        BY <4>1, <4>3, <4>4 DEF Painted
    <3> QED
      BY <1>17, <3>1, <3>2, <3>3
  \* The submission before the last is the one the new one is put behind.
  <2>7. ASSUME NEW i \in DOMAIN queue', i < Len(queue'), NEW p \in DOMAIN queue'[i].used
        PROVE Kept(queue[i], queue[i].used[p], p)'
    <3>1. i = 1 /\ n = 1 /\ i \in DOMAIN queue /\ queue'[i] = queue[i]
      BY <1>12, <2>2, <2>7
    <3>2. queue # <<>>
      <4>1. DOMAIN <<>> = {}
        BY EmptySeq
      <4> QED
        BY <3>1, <4>1
    <3>3. queue[i].used = terrain.used
      BY <2>1, <3>1, <3>2 DEF Ordered
    <3>4. p \in DOMAIN terrain.used /\ terrain.used[p] \in Layer
      BY <1>16, <2>7, <3>1, <3>3 DEF Layers, SharedOut
    <3> PICK l \in Layer: l = terrain.used[p]
      BY <3>4
    <3>5. Painted(l, p)
      BY <2>1, <3>4 DEF Heights
    <3>6. Paints(queue[i], l, p) \/ (Spares(queue[i], l) /\ image[l].pos = p)
      <4>1. \A k \in DOMAIN queue: k = i
        BY <1>12, <3>1
      <4> QED
        BY <3>1, <3>5, <4>1 DEF Painted
    <3>7. Kept(queue[i], l, p)'
      BY <1>2, <3>1, <3>6 DEF Kept
    <3> QED
      BY <3>1, <3>3, <3>7
  <2>8. Heights'
    BY <2>6, <2>7 DEF Heights
  <2> QED
    BY <2>5, <2>8
<1> QED
  BY <1>15, <1>19, <1>20 DEF LayersInv

-----------------------------------------------------------------------------
(* The theorems. *)

LEMMA FramesStep == FramesInv /\ [Next]_vars => FramesInv'
<1> SUFFICES ASSUME FramesInv, [Next]_vars PROVE FramesInv'
  OBVIOUS
<1>1. CASE UNCHANGED vars
  <2>1. UNCHANGED <<frameCount, pc, frame, terrain, font, texture, swapchain, surface, depth, seen,
                    returned, lost, queue, fonts>>
    BY <1>1 DEF vars, cpu, gpu
  <2>2. Submitted' = Submitted
    BY <2>1 DEF Submitted
  <2>3. Typed' /\ Fenced' /\ BuffersLeftAlone'
    BY <2>1, <2>2 DEF FramesInv, Typed, Fenced, BuffersLeftAlone
  <2>4. Sized' /\ Fonts' /\ Drawn'
    BY <2>1, <2>2 DEF FramesInv, Sized, Fonts, Comes, Drawn, DrawsWhatIsHeld
  <2> QED
    BY <2>3, <2>4 DEF FramesInv
<1>2. CASE ChangeTerrain
  BY <1>2, ChangeTerrainInv
<1>3. CASE AskRecreate
  BY <1>3, AskRecreateInv
<1>4. CASE RecreateSwapchain
  BY <1>4, RecreateSwapchainInv
<1>5. CASE BeginFrame
  BY <1>5, BeginFrameInv
<1>6. CASE Render
  BY <1>6, RenderInv
<1>7. CASE Transfer
  BY <1>7, TransferInv
<1>8. CASE Finish
  BY <1>8, FinishInv
<1> QED
  BY <1>1, <1>2, <1>3, <1>4, <1>5, <1>6, <1>7, <1>8 DEF Next

\* What the event loop, the caches and the processor keep, whatever the processor's
\* pace, and though frames may be dropped (FramesInv, see its parts above).
THEOREM FramesInvariant == Spec => []FramesInv
<1> QED
  BY FramesInit, FramesStep, PTL DEF Spec

\* For any number of frames the processor reads the vertices, objects, text, cull set
\* and staging buffers a submission was recorded with: the fence of a frame is
\* waited for before they are written again (RootFrame::render).
THEOREM LeftAlone == Spec => []BuffersLeftAlone
<1>1. FramesInv => BuffersLeftAlone
  BY DEF FramesInv
<1> QED
  BY <1>1, FramesInvariant, PTL

\* Every frame draws the regions the client holds, though the changes are drained
\* by one frame only: the first part of DrawsTheRegions about a submission
\* (TerrainContext and TerrainFrame::prepare_render).
THEOREM HeldIsDrawn == Spec => []DrawsWhatIsHeld
<1>1. FramesInv => DrawsWhatIsHeld
  BY DEF FramesInv, Drawn
<1> QED
  BY <1>1, FramesInvariant, PTL

\* The pyramid, the depth view and the font a submission names exist and are filled
\* when it is drawn, for any order of the window's sizes that repeats none, and any
\* pace of the processor (Cache, CullFrame::prepare_render, EguiFrame::prepare).
THEOREM NamedExists == Spec => []NamesWhatExists
<1>1. FramesInv => NamesWhatExists
  <2> SUFFICES ASSUME FramesInv PROVE NamesWhatExists
    OBVIOUS
  <2>1. returned \/ \A s \in Submitted: s.set = depth.id /\ s.view = surface
    BY DEF FramesInv, Sized
  <2>2. \A s \in Submitted: IsSubmission(s) /\ s.index \in Frame
    BY DEF FramesInv, Typed, IsSubmission
  <2>3. \A s \in Submitted: s.font \in {None, font} \union {frame[i].font : i \in Frame}
    BY <2>2 DEF FramesInv, Fonts
  <2>4. ASSUME ~lost, NEW s \in Drawing PROVE s.font \in {None} \union fonts
    <3>1. PICK i \in DOMAIN queue: s = queue[i] /\ \A j \in 1 .. i: queue[j].uploaded
      BY DEF Drawing
    <3>2. i \in 1 .. Len(queue)
      BY Places DEF FramesInv
    <3>3. Comes(s.font, i, queue, fonts)
      BY <2>4, <3>1, <3>2 DEF FramesInv, Fonts
    <3> QED
      BY <3>1, <3>3 DEF Comes
  <2> QED
    BY <2>1, <2>3, <2>4 DEF NamesWhatExists
<1> QED
  BY <1>1, FramesInvariant, PTL

LEMMA LayersStep == FramesInv /\ LayersInv /\ [Next]_vars => LayersInv'
<1> SUFFICES ASSUME FramesInv, LayersInv, [Next]_vars PROVE LayersInv'
  OBVIOUS
<1>1. CASE UNCHANGED vars
  <2>1. UNCHANGED <<frameCount, pc, frame, terrain, font, swapchain, surface, depth, lost, queue,
                    timeline, image>>
    BY <1>1 DEF vars, cpu, gpu
  <2>2. Layers' /\ (~lost' => Ordered' /\ Heights')
    BY <2>1, LayersLeft
  <2>3. Bounds'
    BY <2>1 DEF LayersInv, Bounds
  <2> QED
    BY <2>2, <2>3 DEF LayersInv
<1>2. CASE ChangeTerrain
  BY <1>2, ChangeTerrainLayers
<1>3. CASE AskRecreate
  BY <1>3, AskRecreateLayers
<1>4. CASE RecreateSwapchain
  BY <1>4, RecreateSwapchainLayers
<1>5. CASE BeginFrame
  BY <1>5, BeginFrameLayers
<1>6. CASE Render
  BY <1>6, RenderLayers
<1>7. CASE Transfer
  BY <1>7, TransferLayers
<1>8. CASE Finish
  BY <1>8, FinishLayers
<1> QED
  BY <1>1, <1>2, <1>3, <1>4, <1>5, <1>6, <1>7, <1>8 DEF Next

\* Layers and heights are what LayersInv says, for any regions that come and go, any
\* number of layers and of frames, and any pace of the processor (see its parts above).
THEOREM LayersInvariant == Spec => [](FramesInv /\ LayersInv)
<1>1. Init => FramesInv /\ LayersInv
  BY FramesInit, LayersInit
<1>2. FramesInv /\ LayersInv /\ [Next]_vars => (FramesInv /\ LayersInv)'
  BY FramesStep, LayersStep
<1> QED
  BY <1>1, <1>2, PTL DEF Spec

\* Every region a frame draws is drawn from a layer with its heights, or from one a
\* later frame took for another region when this one was gone; and every variable is
\* of its type (TerrainContext and TerrainFrame::prepare_render).
THEOREM RegionsAreDrawn == Spec => []DrawsTheRegions
<1>1. FramesInv /\ LayersInv => DrawsTheRegions
  <2> SUFFICES ASSUME FramesInv, LayersInv PROVE DrawsTheRegions
    OBVIOUS
  <2>1. /\ Bounds /\ SharedOut(terrain.used, terrain.unused) /\ DrawsWhatIsHeld
        /\ Len(queue) \in Nat /\ DOMAIN queue = 1 .. Len(queue)
    BY Places DEF FramesInv, Drawn, LayersInv, Layers
  <2>2. FramesTypeOK
    <3>1. \A i \in Frame: frame[i].fence \in BOOLEAN /\ frame[i].lastUpdate \in 0 .. MaxFrames
      <4>1. /\ terrain.lastUpdate \in Nat /\ terrain.lastUpdate < frameCount
            /\ frameCount \in Nat /\ frameCount <= MaxFrames /\ MaxFrames \in Nat
        BY <2>1, FramesAssumption DEF FramesInv, Typed, Drawn, Bounds
      <4>2. \A i \in Frame: /\ IsFrame(frame[i]) /\ frame[i].lastUpdate <= terrain.lastUpdate
        BY DEF FramesInv, Typed, Drawn
      <4>3. \A i \in Frame: frame[i].fence \in BOOLEAN /\ frame[i].lastUpdate \in Nat
        BY <4>2 DEF IsFrame
      <4> QED
        BY <4>1, <4>2, <4>3
    <3>2. Range(terrain.unused) \cup {terrain.used[p] : p \in DOMAIN terrain.used} = 0 .. Slots - 1
      <4>1. \A i \in DOMAIN terrain.unused: terrain.unused[i] \in Layer
        <5>1. terrain.unused \in Seq(Layer)
          BY <2>1 DEF SharedOut
        <5> QED
          BY <5>1, LenProperties
      <4>2. Range(terrain.unused) = {terrain.unused[i] : i \in DOMAIN terrain.unused}
        BY DEF Range
      <4>3. \A l \in Layer: \/ l \in Range(terrain.unused)
                            \/ l \in {terrain.used[p] : p \in DOMAIN terrain.used}
        BY <2>1, <4>2 DEF SharedOut
      <4>4. \A p \in DOMAIN terrain.used: terrain.used[p] \in Layer
        BY <2>1 DEF SharedOut
      <4> QED
        BY <4>1, <4>2, <4>3, <4>4 DEF Layer
    <3>3. \A i \in Frame:
            /\ frame[i].staging \in 0 .. MaxFrames /\ frame[i].set \in 0 .. MaxFrames
            /\ {frame[i].objects, frame[i].text, frame[i].pixels} \subseteq 0 .. MaxFrames
            /\ frame[i].setup \in 0 .. Extents /\ frame[i].font \in 0 .. MaxTexture
      BY <2>1 DEF Bounds
    <3>4. Len(terrain.unused) + Cardinality(DOMAIN terrain.used) = Slots
          /\ DOMAIN terrain.used \subseteq Regions
      BY <2>1 DEF SharedOut
    <3>5. /\ frameCount \in 2 .. MaxFrames /\ timeline \in 2 .. MaxFrames
          /\ pc \in {"events", "frame", "recreate"}
          /\ swapchain.id \in 1 .. MaxSwapchains /\ surface \in 1 .. swapchain.id
      BY <2>1 DEF Bounds
    <3> QED
      BY <3>1, <3>2, <3>3, <3>4, <3>5 DEF FramesTypeOK
  <2>3. ASSUME ~lost, NEW s \in Drawing, NEW p \in DOMAIN s.used
        PROVE \/ image[s.used[p]].pos = p
              \/ /\ image[s.used[p]].by > s.number
                 /\ p \notin DOMAIN terrain.used \/ terrain.used[p] # s.used[p]
    <3>1. PICK i \in DOMAIN queue: s = queue[i] /\ \A j \in 1 .. i: queue[j].uploaded
      BY DEF Drawing
    <3>2. Ordered /\ Heights
      BY <2>3 DEF LayersInv
    <3>3. i \in 1 .. i /\ queue[i].uploaded
      BY <2>1, <3>1
    <3>4. CASE i < Len(queue)
      <4>1. Kept(s, s.used[p], p)
        BY <2>3, <3>1, <3>2, <3>4 DEF Heights
      <4>2. ~Paints(s, s.used[p], p)
        BY <3>1, <3>3 DEF Paints
      <4> QED
        BY <4>1, <4>2 DEF Kept
    <3>5. CASE ~(i < Len(queue))
      <4>1. i = Len(queue)
        BY <2>1, <3>5
      <4>2. queue # <<>>
        BY <2>1, <3>1, EmptySeq
      <4>3. s.used = terrain.used
        BY <3>1, <3>2, <4>1, <4>2 DEF Ordered
      <4>4. Painted(s.used[p], p)
        BY <2>3, <3>2, <4>3 DEF Heights
      <4>5. \A j \in DOMAIN queue: queue[j].uploaded
        BY <2>1, <3>1, <4>1
      <4> QED
        BY <4>4, <4>5 DEF Painted, Paints
    <3> QED
      BY <3>4, <3>5
  <2> QED
    BY <2>1, <2>2, <2>3 DEF DrawsTheRegions
<1> QED
  BY <1>1, LayersInvariant, PTL
=============================================================================
