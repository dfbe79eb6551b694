---------------------------- MODULE MirrorProofs -----------------------------
(***************************************************************************)
(* Proofs about module Mirror, for any users, distances and world: the     *)
(* client shows the regions its user observes with the characters in them, *)
(* each once and with one body, and what it unwraps is there.              *)
(*                                                                         *)
(* First what an update, the updates of a region and those of all regions  *)
(* make of a client, then the invariant, which knows what the regions have *)
(* still to tell, and each action.                                         *)
(***************************************************************************)
EXTENDS Mirror, RegionsProofs

-----------------------------------------------------------------------------
(* What telling updates one after the other comes to, as a function. *)

\* The greatest of the first naturals, and of some of them.
LEMMA Maxima ==
  ASSUME NEW n \in Nat
  PROVE /\ \A s \in SUBSET (1 .. n): s # {} => Max(s) \in s /\ \A i \in s: i <= Max(s)
        /\ \A s \in SUBSET (1 .. n + 1): n + 1 \in s => Max(s) = n + 1
        /\ \A k \in 1 .. n: /\ 1 .. k \in SUBSET (1 .. n) /\ 1 .. k # {}
                            /\ Max(1 .. k) = k /\ (1 .. k) \ {k} = 1 .. k - 1
<1>1. ASSUME NEW s \in SUBSET (1 .. n), s # {}
      PROVE Max(s) \in s /\ \A i \in s: i <= Max(s)
  <2>1. PICK x \in s: \A y \in s: y <= x
    BY <1>1, Greatest
  <2>2. \A y \in s: x >= y
    BY <2>1
  <2>3. Max(s) \in s /\ \A y \in s: Max(s) >= y
    BY <2>2 DEF Max
  <2> QED
    BY <2>3
<1>2. ASSUME NEW s \in SUBSET (1 .. n + 1), n + 1 \in s
      PROVE Max(s) = n + 1
  <2>1. \A y \in s: n + 1 >= y
    OBVIOUS
  <2>2. Max(s) \in s /\ \A y \in s: Max(s) >= y
    BY <1>2, <2>1 DEF Max
  <2>3. Max(s) >= n + 1 /\ Max(s) \in 1 .. n + 1
    BY <1>2, <2>2
  <2> QED
    BY <2>3
<1>3. ASSUME NEW k \in 1 .. n
      PROVE /\ 1 .. k \in SUBSET (1 .. n) /\ 1 .. k # {}
            /\ Max(1 .. k) = k /\ (1 .. k) \ {k} = 1 .. k - 1
  <2>1. k \in 1 .. k /\ \A y \in 1 .. k: k >= y
    OBVIOUS
  <2>2. Max(1 .. k) \in 1 .. k /\ \A y \in 1 .. k: Max(1 .. k) >= y
    BY <2>1 DEF Max
  <2>3. Max(1 .. k) = k
    <3>1. Max(1 .. k) >= k
      BY <2>1, <2>2
    <3> QED
      BY <2>2, <3>1
  <2>4. 1 .. k \in SUBSET (1 .. n) /\ (1 .. k) \ {k} = 1 .. k - 1
    OBVIOUS
  <2> QED
    BY <2>1, <2>3, <2>4
<1> QED
  BY <1>1, <1>2, <1>3

\* The function that FoldLeft defines to tell updates, and one for the first ones.
TellsAll(f, base, seq, n) ==
  f = [s \in SUBSET (1 .. n) |-> IF s = {} THEN base ELSE Learned(f[s \ {Max(s)}], seq[Max(s)])]

LEMMA TellExists ==
  ASSUME NEW base, NEW seq
  PROVE \A n \in Nat: \E f: TellsAll(f, base, seq, n)
<1> DEFINE S == {n \in Nat : \E f : TellsAll(f, base, seq, n)}
<1>1. 0 \in S
  <2> DEFINE f == [s \in SUBSET (1 .. 0) |-> base]
  <2>1. \A s \in SUBSET (1 .. 0): s = {}
    OBVIOUS
  <2>2. TellsAll(f, base, seq, 0)
    BY <2>1 DEF TellsAll
  <2> QED
    BY <2>2
<1>2. ASSUME NEW n \in Nat, n \in S PROVE n + 1 \in S
  <2>1. PICK f: TellsAll(f, base, seq, n)
    BY <1>2
  <2> DEFINE m == n + 1
             g == [s \in SUBSET (1 .. m) |-> IF m \in s THEN Learned(f[s \ {m}], seq[m]) ELSE f[s]]
             Step(h, s) == IF s = {} THEN base ELSE Learned(h[s \ {Max(s)}], seq[Max(s)])
  <2>2. ASSUME NEW s \in SUBSET (1 .. m) PROVE g[s] = Step(g, s)
    <3>1. CASE m \in s
      <4>1. s \ {m} \in SUBSET (1 .. m) /\ m \notin s \ {m} /\ Max(s) = m /\ s # {}
        BY <3>1, Maxima
      <4>2. g[s] = Learned(f[s \ {m}], seq[m]) /\ g[s \ {m}] = f[s \ {m}]
        BY <3>1, <4>1
      <4> HIDE DEF g
      <4> QED
        BY <4>1, <4>2
    <3>2. CASE m \notin s
      <4>1. s \in SUBSET (1 .. n)
        BY <3>2
      <4>2. g[s] = f[s] /\ f[s] = Step(f, s)
        BY <2>1, <3>2, <4>1 DEF TellsAll
      <4>3. CASE s = {}
        BY <4>2, <4>3
      <4>4. CASE s # {}
        <5>1. s \ {Max(s)} \in SUBSET (1 .. m) /\ m \notin s \ {Max(s)}
          BY <3>2, <4>1
        <5>2. g[s \ {Max(s)}] = f[s \ {Max(s)}]
          BY <5>1
        <5> HIDE DEF g
        <5> QED
          BY <4>2, <4>4, <5>2
      <4> QED
        BY <4>3, <4>4
    <3> QED
      BY <3>1, <3>2
  <2>3. g = [s \in SUBSET (1 .. m) |-> Step(g, s)]
    <3>1. g = [s \in SUBSET (1 .. m) |-> g[s]]
      OBVIOUS
    <3> HIDE DEF g
    <3> QED
      BY <2>2, <3>1
  <2>4. TellsAll(g, base, seq, m)
    <3> HIDE DEF g
    <3> QED
      BY <2>3 DEF TellsAll
  <2> QED
    BY <2>4
<1> HIDE DEF S
<1>3. \A n \in Nat: n \in S
  BY <1>1, <1>2, Upwards
<1> QED
  BY <1>3 DEF S

LEMMA TellSteps ==
  ASSUME NEW base, NEW seq, NEW C, seq \in Seq(C)
  PROVE \E f: /\ f[0] = base
              /\ \A k \in 1 .. Len(seq): f[k] = Learned(f[k - 1], seq[k])
              /\ Told(base, seq) = f[Len(seq)]
<1> DEFINE n == Len(seq)
           iter[s \in SUBSET (DOMAIN seq)] == IF s = {} THEN base
                                   ELSE Learned(iter[s \ {Max(s)}], seq[Max(s)])
<1>1. n \in Nat /\ DOMAIN seq = 1 .. n
  BY LenProperties
<1>2. Told(base, seq) = iter[DOMAIN seq]
  BY DEF Told, FoldLeft, MapThenFoldSet
<1>3. iter = CHOOSE g: g = [s \in SUBSET (DOMAIN seq) |-> IF s = {} THEN base
                                   ELSE Learned(g[s \ {Max(s)}], seq[Max(s)])]
  OBVIOUS
<1> HIDE DEF iter, n
<1>4. iter = [s \in SUBSET (DOMAIN seq) |-> IF s = {} THEN base
                                   ELSE Learned(iter[s \ {Max(s)}], seq[Max(s)])]
  <2> DEFINE All(g) == [s \in SUBSET (DOMAIN seq) |-> IF s = {} THEN base
                                   ELSE Learned(g[s \ {Max(s)}], seq[Max(s)])]
  <2>1. PICK g: TellsAll(g, base, seq, n)
    BY <1>1, TellExists
  <2>2. g = All(g)
    BY <1>1, <2>1 DEF TellsAll
  <2>3. iter = CHOOSE h: h = All(h)
    BY <1>3
  <2> HIDE DEF All
  <2>4. iter = All(iter)
    BY <2>2, <2>3
  <2> QED
    BY <2>4 DEF All
<1> DEFINE f == [k \in 0 .. n |-> iter[1 .. k]]
<1>5. f[0] = base
  <2>1. 1 .. 0 = {} /\ {} \in SUBSET (DOMAIN seq)
    OBVIOUS
  <2> QED
    BY <1>1, <1>4, <2>1
<1>6. ASSUME NEW k \in 1 .. n PROVE f[k] = Learned(f[k - 1], seq[k])
  <2>1. /\ 1 .. k \in SUBSET (DOMAIN seq) /\ 1 .. k # {}
        /\ Max(1 .. k) = k /\ (1 .. k) \ {k} = 1 .. k - 1
    BY <1>1, Maxima
  <2>2. f[k] = iter[1 .. k] /\ f[k - 1] = iter[1 .. k - 1]
    BY <1>1
  <2> HIDE DEF f
  <2> QED
    BY <1>4, <2>1, <2>2
<1>7. Told(base, seq) = f[n]
  BY <1>1, <1>2
<1> HIDE DEF f
<1>8. \A k \in 1 .. n: f[k] = Learned(f[k - 1], seq[k])
  BY <1>6
<1> QED
  BY <1>5, <1>7, <1>8 DEF n

\* The same for the updates of a region that the client applies ...
AppliesAll(f, base, r, seq, n) ==
  f = [s \in SUBSET (1 .. n) |-> IF s = {} THEN base ELSE ApplyOne(f[s \ {Max(s)}], r, seq[Max(s)])]

LEMMA OneExists ==
  ASSUME NEW base, NEW r, NEW seq
  PROVE \A n \in Nat: \E f: AppliesAll(f, base, r, seq, n)
<1> DEFINE S == {n \in Nat : \E f : AppliesAll(f, base, r, seq, n)}
<1>1. 0 \in S
  <2> DEFINE f == [s \in SUBSET (1 .. 0) |-> base]
  <2>1. \A s \in SUBSET (1 .. 0): s = {}
    OBVIOUS
  <2>2. AppliesAll(f, base, r, seq, 0)
    BY <2>1 DEF AppliesAll
  <2> QED
    BY <2>2
<1>2. ASSUME NEW n \in Nat, n \in S PROVE n + 1 \in S
  <2>1. PICK f: AppliesAll(f, base, r, seq, n)
    BY <1>2
  <2> DEFINE m == n + 1
             g == [s \in SUBSET (1 .. m) |-> IF m \in s THEN ApplyOne(f[s \ {m}], r, seq[m]) ELSE f[s]]
             Step(h, s) == IF s = {} THEN base ELSE ApplyOne(h[s \ {Max(s)}], r, seq[Max(s)])
  <2>2. ASSUME NEW s \in SUBSET (1 .. m) PROVE g[s] = Step(g, s)
    <3>1. CASE m \in s
      <4>1. s \ {m} \in SUBSET (1 .. m) /\ m \notin s \ {m} /\ Max(s) = m /\ s # {}
        BY <3>1, Maxima
      <4>2. g[s] = ApplyOne(f[s \ {m}], r, seq[m]) /\ g[s \ {m}] = f[s \ {m}]
        BY <3>1, <4>1
      <4> HIDE DEF g
      <4> QED
        BY <4>1, <4>2
    <3>2. CASE m \notin s
      <4>1. s \in SUBSET (1 .. n)
        BY <3>2
      <4>2. g[s] = f[s] /\ f[s] = Step(f, s)
        BY <2>1, <3>2, <4>1 DEF AppliesAll
      <4>3. CASE s = {}
        BY <4>2, <4>3
      <4>4. CASE s # {}
        <5>1. s \ {Max(s)} \in SUBSET (1 .. m) /\ m \notin s \ {Max(s)}
          BY <3>2, <4>1
        <5>2. g[s \ {Max(s)}] = f[s \ {Max(s)}]
          BY <5>1
        <5> HIDE DEF g
        <5> QED
          BY <4>2, <4>4, <5>2
      <4> QED
        BY <4>3, <4>4
    <3> QED
      BY <3>1, <3>2
  <2>3. g = [s \in SUBSET (1 .. m) |-> Step(g, s)]
    <3>1. g = [s \in SUBSET (1 .. m) |-> g[s]]
      OBVIOUS
    <3> HIDE DEF g
    <3> QED
      BY <2>2, <3>1
  <2>4. AppliesAll(g, base, r, seq, m)
    <3> HIDE DEF g
    <3> QED
      BY <2>3 DEF AppliesAll
  <2> QED
    BY <2>4
<1> HIDE DEF S
<1>3. \A n \in Nat: n \in S
  BY <1>1, <1>2, Upwards
<1> QED
  BY <1>3 DEF S

LEMMA OneSteps ==
  ASSUME NEW base, NEW r, NEW seq, NEW C, seq \in Seq(C),
         InGame(base), r \in DOMAIN base.regions
  PROVE \E f: /\ f[0] = base
              /\ \A k \in 1 .. Len(seq): f[k] = ApplyOne(f[k - 1], r, seq[k])
              /\ DynamicUpdates(base, r, seq) = f[Len(seq)]
<1> DEFINE n == Len(seq)
           iter[s \in SUBSET (DOMAIN seq)] == IF s = {} THEN base
                                   ELSE ApplyOne(iter[s \ {Max(s)}], r, seq[Max(s)])
<1>1. n \in Nat /\ DOMAIN seq = 1 .. n
  BY LenProperties
<1>2. DynamicUpdates(base, r, seq) = iter[DOMAIN seq]
  BY DEF DynamicUpdates, InGame, FoldLeft, MapThenFoldSet
<1>3. iter = CHOOSE g: g = [s \in SUBSET (DOMAIN seq) |-> IF s = {} THEN base
                                   ELSE ApplyOne(g[s \ {Max(s)}], r, seq[Max(s)])]
  OBVIOUS
<1> HIDE DEF iter, n
<1>4. iter = [s \in SUBSET (DOMAIN seq) |-> IF s = {} THEN base
                                   ELSE ApplyOne(iter[s \ {Max(s)}], r, seq[Max(s)])]
  <2> DEFINE All(g) == [s \in SUBSET (DOMAIN seq) |-> IF s = {} THEN base
                                   ELSE ApplyOne(g[s \ {Max(s)}], r, seq[Max(s)])]
  <2>1. PICK g: AppliesAll(g, base, r, seq, n)
    BY <1>1, OneExists
  <2>2. g = All(g)
    BY <1>1, <2>1 DEF AppliesAll
  <2>3. iter = CHOOSE h: h = All(h)
    BY <1>3
  <2> HIDE DEF All
  <2>4. iter = All(iter)
    BY <2>2, <2>3
  <2> QED
    BY <2>4 DEF All
<1> DEFINE f == [k \in 0 .. n |-> iter[1 .. k]]
<1>5. f[0] = base
  <2>1. 1 .. 0 = {} /\ {} \in SUBSET (DOMAIN seq)
    OBVIOUS
  <2> QED
    BY <1>1, <1>4, <2>1
<1>6. ASSUME NEW k \in 1 .. n PROVE f[k] = ApplyOne(f[k - 1], r, seq[k])
  <2>1. /\ 1 .. k \in SUBSET (DOMAIN seq) /\ 1 .. k # {}
        /\ Max(1 .. k) = k /\ (1 .. k) \ {k} = 1 .. k - 1
    BY <1>1, Maxima
  <2>2. f[k] = iter[1 .. k] /\ f[k - 1] = iter[1 .. k - 1]
    BY <1>1
  <2> HIDE DEF f
  <2> QED
    BY <1>4, <2>1, <2>2
<1>7. DynamicUpdates(base, r, seq) = f[n]
  BY <1>1, <1>2
<1> HIDE DEF f
<1>8. \A k \in 1 .. n: f[k] = ApplyOne(f[k - 1], r, seq[k])
  BY <1>6
<1> QED
  BY <1>5, <1>7, <1>8 DEF n

\* ... and for the regions it gets the updates of.
DeliversAll(f, base, ups, seq, n) ==
  f = [s \in SUBSET (1 .. n) |-> IF s = {} THEN base ELSE DynamicUpdates(f[s \ {Max(s)}], seq[Max(s)], ups[seq[Max(s)]])]

LEMMA RegionExists ==
  ASSUME NEW base, NEW ups, NEW seq
  PROVE \A n \in Nat: \E f: DeliversAll(f, base, ups, seq, n)
<1> DEFINE S == {n \in Nat : \E f : DeliversAll(f, base, ups, seq, n)}
<1>1. 0 \in S
  <2> DEFINE f == [s \in SUBSET (1 .. 0) |-> base]
  <2>1. \A s \in SUBSET (1 .. 0): s = {}
    OBVIOUS
  <2>2. DeliversAll(f, base, ups, seq, 0)
    BY <2>1 DEF DeliversAll
  <2> QED
    BY <2>2
<1>2. ASSUME NEW n \in Nat, n \in S PROVE n + 1 \in S
  <2>1. PICK f: DeliversAll(f, base, ups, seq, n)
    BY <1>2
  <2> DEFINE m == n + 1
             g == [s \in SUBSET (1 .. m) |-> IF m \in s THEN DynamicUpdates(f[s \ {m}], seq[m], ups[seq[m]]) ELSE f[s]]
             Step(h, s) == IF s = {} THEN base ELSE DynamicUpdates(h[s \ {Max(s)}], seq[Max(s)], ups[seq[Max(s)]])
  <2>2. ASSUME NEW s \in SUBSET (1 .. m) PROVE g[s] = Step(g, s)
    <3>1. CASE m \in s
      <4>1. s \ {m} \in SUBSET (1 .. m) /\ m \notin s \ {m} /\ Max(s) = m /\ s # {}
        BY <3>1, Maxima
      <4>2. g[s] = DynamicUpdates(f[s \ {m}], seq[m], ups[seq[m]]) /\ g[s \ {m}] = f[s \ {m}]
        BY <3>1, <4>1
      <4> HIDE DEF g
      <4> QED
        BY <4>1, <4>2
    <3>2. CASE m \notin s
      <4>1. s \in SUBSET (1 .. n)
        BY <3>2
      <4>2. g[s] = f[s] /\ f[s] = Step(f, s)
        BY <2>1, <3>2, <4>1 DEF DeliversAll
      <4>3. CASE s = {}
        BY <4>2, <4>3
      <4>4. CASE s # {}
        <5>1. s \ {Max(s)} \in SUBSET (1 .. m) /\ m \notin s \ {Max(s)}
          BY <3>2, <4>1
        <5>2. g[s \ {Max(s)}] = f[s \ {Max(s)}]
          BY <5>1
        <5> HIDE DEF g
        <5> QED
          BY <4>2, <4>4, <5>2
      <4> QED
        BY <4>3, <4>4
    <3> QED
      BY <3>1, <3>2
  <2>3. g = [s \in SUBSET (1 .. m) |-> Step(g, s)]
    <3>1. g = [s \in SUBSET (1 .. m) |-> g[s]]
      OBVIOUS
    <3> HIDE DEF g
    <3> QED
      BY <2>2, <3>1
  <2>4. DeliversAll(g, base, ups, seq, m)
    <3> HIDE DEF g
    <3> QED
      BY <2>3 DEF DeliversAll
  <2> QED
    BY <2>4
<1> HIDE DEF S
<1>3. \A n \in Nat: n \in S
  BY <1>1, <1>2, Upwards
<1> QED
  BY <1>3 DEF S

LEMMA RegionSteps ==
  ASSUME NEW base, NEW ups, NEW seq, NEW C, seq \in Seq(C),
         base = mirror, InGame(mirror)
  PROVE \E f: /\ f[0] = base
              /\ \A k \in 1 .. Len(seq): f[k] = DynamicUpdates(f[k - 1], seq[k], ups[seq[k]])
              /\ Delivered(ups, seq) = f[Len(seq)]
<1> DEFINE n == Len(seq)
           iter[s \in SUBSET (DOMAIN seq)] == IF s = {} THEN base
                                   ELSE DynamicUpdates(iter[s \ {Max(s)}], seq[Max(s)], ups[seq[Max(s)]])
<1>1. n \in Nat /\ DOMAIN seq = 1 .. n
  BY LenProperties
<1>2. Delivered(ups, seq) = iter[DOMAIN seq]
  BY DEF Delivered, FoldLeft, MapThenFoldSet
<1>3. iter = CHOOSE g: g = [s \in SUBSET (DOMAIN seq) |-> IF s = {} THEN base
                                   ELSE DynamicUpdates(g[s \ {Max(s)}], seq[Max(s)], ups[seq[Max(s)]])]
  OBVIOUS
<1> HIDE DEF iter, n
<1>4. iter = [s \in SUBSET (DOMAIN seq) |-> IF s = {} THEN base
                                   ELSE DynamicUpdates(iter[s \ {Max(s)}], seq[Max(s)], ups[seq[Max(s)]])]
  <2> DEFINE All(g) == [s \in SUBSET (DOMAIN seq) |-> IF s = {} THEN base
                                   ELSE DynamicUpdates(g[s \ {Max(s)}], seq[Max(s)], ups[seq[Max(s)]])]
  <2>1. PICK g: DeliversAll(g, base, ups, seq, n)
    BY <1>1, RegionExists
  <2>2. g = All(g)
    BY <1>1, <2>1 DEF DeliversAll
  <2>3. iter = CHOOSE h: h = All(h)
    BY <1>3
  <2> HIDE DEF All
  <2>4. iter = All(iter)
    BY <2>2, <2>3
  <2> QED
    BY <2>4 DEF All
<1> DEFINE f == [k \in 0 .. n |-> iter[1 .. k]]
<1>5. f[0] = base
  <2>1. 1 .. 0 = {} /\ {} \in SUBSET (DOMAIN seq)
    OBVIOUS
  <2> QED
    BY <1>1, <1>4, <2>1
<1>6. ASSUME NEW k \in 1 .. n PROVE f[k] = DynamicUpdates(f[k - 1], seq[k], ups[seq[k]])
  <2>1. /\ 1 .. k \in SUBSET (DOMAIN seq) /\ 1 .. k # {}
        /\ Max(1 .. k) = k /\ (1 .. k) \ {k} = 1 .. k - 1
    BY <1>1, Maxima
  <2>2. f[k] = iter[1 .. k] /\ f[k - 1] = iter[1 .. k - 1]
    BY <1>1
  <2>3. \A t \in SUBSET (DOMAIN seq): t # {} =>
          iter[t] = DynamicUpdates(iter[t \ {Max(t)}], seq[Max(t)], ups[seq[Max(t)]])
    BY <1>4
  <2>4. iter[1 .. k] = DynamicUpdates(iter[1 .. k - 1], seq[k], ups[seq[k]])
    BY <2>1, <2>3
  <2> HIDE DEF f
  <2> QED
    BY <2>2, <2>4
<1>7. Delivered(ups, seq) = f[n]
  BY <1>1, <1>2
<1> HIDE DEF f
<1>8. \A k \in 1 .. n: f[k] = DynamicUpdates(f[k - 1], seq[k], ups[seq[k]])
  BY <1>6
<1> QED
  BY <1>5, <1>7, <1>8 DEF n

-----------------------------------------------------------------------------
(* What the client holds. *)

Others == Characters \ {Self}

\* A client in game: every character it knows has a body, and it shows no
\* body of its own.
IsGame(m) ==
  /\ m = [state |-> "game", regions |-> m.regions, known |-> m.known, bodies |-> m.bodies]
  /\ m.regions = [r \in DOMAIN m.regions |-> m.regions[r]]
  /\ DOMAIN m.regions \subseteq Region /\ \A r \in DOMAIN m.regions: m.regions[r] \subseteq Others
  /\ m.known \subseteq Others
  /\ m.bodies \in [Characters -> Nat]
  /\ m.bodies[Self] = 0 /\ \A id \in m.known: m.bodies[id] > 0

UpdateSet == [kind: {"enter", "exit", "update"}, id: Characters, other: {None} \cup Region]

\* The characters that an update brings to the client or takes from it, when
\* the client has the regions D.
Arrives(up, D) == up.kind = "enter" /\ up.other \notin D
Departs(up, D) == up.kind = "exit" /\ up.other \notin D

Fails(m, up) ==
  /\ up.id # Self /\ up.id \notin m.known
  /\ Departs(up, DOMAIN m.regions) \/ (up.kind = "update" /\ up.id \in Npcs)

LEMMA InGames ==
  /\ \A m: IsGame(m) => InGame(m) /\ m.state = "game" /\ m # Panic /\ m # Gone /\ m # Lobby
  /\ ~InGame(Panic) /\ ~InGame(Gone) /\ ~InGame(Lobby)
  /\ Panic.state = "panic" /\ Gone.state = "gone" /\ Lobby.state = "lobby"
<1>1. Panic.state = "panic" /\ Gone.state = "gone" /\ Lobby.state = "lobby"
  BY DEF Panic, Gone, Lobby
<1>2. ASSUME NEW m, IsGame(m) PROVE m.state = "game"
  <2> DEFINE s == m.regions
             k == m.known
             b == m.bodies
  <2>1. m = [state |-> "game", regions |-> s, known |-> k, bodies |-> b]
    BY <1>2 DEF IsGame
  <2> HIDE DEF s, k, b
  <2> QED
    BY <2>1
<1> QED
  BY <1>1, <1>2 DEF InGame

\* What becomes of a client in game.
LEMMA Rebuilt ==
  ASSUME NEW m, IsGame(m)
  PROVE /\ \A s: [m EXCEPT !.regions = s]
                   = [state |-> "game", regions |-> s, known |-> m.known, bodies |-> m.bodies]
        /\ \A k, b: [m EXCEPT !.known = k, !.bodies = b]
                      = [state |-> "game", regions |-> m.regions, known |-> k, bodies |-> b]
<1> DEFINE t == m.regions
           l == m.known
           c == m.bodies
<1>1. m = [state |-> "game", regions |-> t, known |-> l, bodies |-> c]
  BY DEF IsGame
<1> HIDE DEF t, l, c
<1>2. ASSUME NEW s
      PROVE [m EXCEPT !.regions = s] = [state |-> "game", regions |-> s, known |-> l, bodies |-> c]
  BY <1>1
<1>3. ASSUME NEW k, NEW b
      PROVE [m EXCEPT !.known = k, !.bodies = b] = [state |-> "game", regions |-> t, known |-> k, bodies |-> b]
  <2> DEFINE n == [m EXCEPT !.known = k]
  <2>1. n = [state |-> "game", regions |-> t, known |-> k, bodies |-> c]
    BY <1>1
  <2>2. [m EXCEPT !.known = k, !.bodies = b] = [n EXCEPT !.bodies = b]
    OBVIOUS
  <2> HIDE DEF n
  <2>3. [n EXCEPT !.bodies = b] = [state |-> "game", regions |-> t, known |-> k, bodies |-> b]
    BY <2>1
  <2> QED
    BY <2>2, <2>3
<1> QED
  BY <1>2, <1>3 DEF t, l, c

LEMMA Regioned ==
  ASSUME NEW m, IsGame(m), NEW s,
         s = [r \in DOMAIN s |-> s[r]], DOMAIN s \subseteq Region, \A r \in DOMAIN s: s[r] \subseteq Others
  PROVE LET n == [m EXCEPT !.regions = s] IN
        IsGame(n) /\ n.regions = s /\ n.known = m.known /\ n.bodies = m.bodies
<1> DEFINE n == [m EXCEPT !.regions = s]
<1>1. n = [state |-> "game", regions |-> s, known |-> m.known, bodies |-> m.bodies]
  BY Rebuilt
<1> HIDE DEF n
<1>2. n.regions = s /\ n.known = m.known /\ n.bodies = m.bodies
  BY <1>1
<1>3. IsGame(n)
  BY <1>1, <1>2 DEF IsGame
<1> QED
  BY <1>2, <1>3 DEF n

LEMMA OneRegion ==
  ASSUME NEW m, IsGame(m), NEW r \in DOMAIN m.regions, NEW ids \in SUBSET Others
  PROVE LET n == [m EXCEPT !.regions[r] = ids] IN
        /\ IsGame(n) /\ DOMAIN n.regions = DOMAIN m.regions
        /\ n.regions[r] = ids /\ \A q \in DOMAIN m.regions: q # r => n.regions[q] = m.regions[q]
        /\ n.known = m.known /\ n.bodies = m.bodies
<1> DEFINE s == [m.regions EXCEPT ![r] = ids]
           n == [m EXCEPT !.regions[r] = ids]
<1>1. /\ DOMAIN s = DOMAIN m.regions /\ s = [q \in DOMAIN s |-> s[q]]
      /\ s[r] = ids /\ \A q \in DOMAIN m.regions: q # r => s[q] = m.regions[q]
  OBVIOUS
<1>2. n = [m EXCEPT !.regions = s]
  OBVIOUS
<1> HIDE DEF s, n
<1>3. DOMAIN s \subseteq Region /\ \A q \in DOMAIN s: s[q] \subseteq Others
  BY <1>1 DEF IsGame
<1>4. IsGame(n) /\ n.regions = s /\ n.known = m.known /\ n.bodies = m.bodies
  BY <1>1, <1>2, <1>3, Regioned
<1> QED
  BY <1>1, <1>4 DEF n

LEMMA Recounted ==
  ASSUME NEW m, IsGame(m), NEW k \in SUBSET Others, NEW b \in [Characters -> Nat],
         b[Self] = 0, \A id \in k: b[id] > 0,
         NEW n, n = [state |-> "game", regions |-> m.regions, known |-> k, bodies |-> b]
  PROVE IsGame(n) /\ n.regions = m.regions /\ n.known = k /\ n.bodies = b
<1>1. n.regions = m.regions /\ n.known = k /\ n.bodies = b
  OBVIOUS
<1>2. IsGame(n)
  BY <1>1 DEF IsGame
<1> QED
  BY <1>1, <1>2

LEMMA Added ==
  ASSUME NEW m, IsGame(m), NEW id \in Others
  PROVE LET n == AddCharacter(m, id) IN
        /\ IsGame(n) /\ n.regions = m.regions /\ n.known = m.known \cup {id}
        /\ \A x \in Characters: n.bodies[x] = IF x = id THEN m.bodies[x] + 1 ELSE m.bodies[x]
<1> DEFINE k == m.known \cup {id}
           b == [m.bodies EXCEPT ![id] = @ + 1]
           n == AddCharacter(m, id)
<1>1. id \in Characters /\ id # Self /\ m.bodies \in [Characters -> Nat] /\ m.known \subseteq Others
  BY DEF Others, IsGame
<1>2. n = [state |-> "game", regions |-> m.regions, known |-> k, bodies |-> b]
  BY Rebuilt DEF AddCharacter
<1>3. /\ b \in [Characters -> Nat]
      /\ \A x \in Characters: b[x] = IF x = id THEN m.bodies[x] + 1 ELSE m.bodies[x]
  BY <1>1
<1> HIDE DEF b, n
<1>4. b[Self] = 0 /\ \A x \in k: b[x] > 0
  <2>1. Self \in Characters
    BY SelfAssumption DEF Characters
  <2>2. \A x \in k: x \in Characters
    BY <1>1 DEF Others
  <2>3. m.bodies[Self] = 0 /\ \A x \in m.known: m.bodies[x] > 0
    BY DEF IsGame
  <2>4. m.bodies[id] \in Nat
    BY <1>1
  <2> QED
    BY <1>1, <1>3, <2>1, <2>2, <2>3, <2>4
<1>5. k \in SUBSET Others
  BY <1>1
<1> HIDE DEF k
<1>6. IsGame(n) /\ n.regions = m.regions /\ n.known = k /\ n.bodies = b
  BY <1>2, <1>3, <1>4, <1>5, Recounted
<1> QED
  BY <1>3, <1>6 DEF n, k

LEMMA Removed ==
  ASSUME NEW m, IsGame(m), NEW id \in m.known
  PROVE LET n == RemoveCharacter(m, id) IN
        /\ IsGame(n) /\ n.regions = m.regions /\ n.known = m.known \ {id}
        /\ \A x \in Characters: n.bodies[x] = IF x = id THEN m.bodies[x] - 1 ELSE m.bodies[x]
<1> DEFINE k == m.known \ {id}
           b == [m.bodies EXCEPT ![id] = @ - 1]
           n == RemoveCharacter(m, id)
<1>1. id \in Characters /\ id # Self /\ m.bodies \in [Characters -> Nat] /\ m.known \subseteq Others
  BY DEF Others, IsGame
<1>2. n = [state |-> "game", regions |-> m.regions, known |-> k, bodies |-> b]
  <2>1. n = [m EXCEPT !.known = k, !.bodies = b]
    BY DEF RemoveCharacter
  <2> HIDE DEF n, k, b
  <2> QED
    BY <2>1, Rebuilt
<1>3. m.bodies[id] \in Nat /\ m.bodies[id] > 0
  BY <1>1 DEF IsGame
<1>4. /\ b \in [Characters -> Nat]
      /\ \A x \in Characters: b[x] = IF x = id THEN m.bodies[x] - 1 ELSE m.bodies[x]
  <2>1. m.bodies[id] - 1 \in Nat
    BY <1>3
  <2> QED
    BY <1>1, <2>1
<1> HIDE DEF b, n
<1>5. b[Self] = 0 /\ \A x \in k: b[x] > 0
  <2>1. Self \in Characters
    BY SelfAssumption DEF Characters
  <2>2. \A x \in k: x \in Characters /\ x # id
    BY <1>1 DEF Others
  <2>3. m.bodies[Self] = 0 /\ \A x \in m.known: m.bodies[x] > 0
    BY DEF IsGame
  <2> QED
    BY <1>1, <1>4, <2>1, <2>2, <2>3
<1>6. k \in SUBSET Others
  BY <1>1
<1> HIDE DEF k
<1>7. IsGame(n) /\ n.regions = m.regions /\ n.known = k /\ n.bodies = b
  BY <1>2, <1>4, <1>5, <1>6, Recounted
<1> QED
  BY <1>4, <1>7 DEF n, k

\* What an update changes.
LEMMA OneApplied ==
  ASSUME NEW m, IsGame(m), NEW r \in DOMAIN m.regions, NEW up \in UpdateSet
  PROVE LET n == ApplyOne(m, r, up)
            D == DOMAIN m.regions
        IN /\ Fails(m, up) => n = Panic
           /\ ~Fails(m, up) =>
                /\ IsGame(n) /\ DOMAIN n.regions = D
                /\ n.regions[r] = Learned(m.regions[r], up)
                /\ \A q \in D: q # r => n.regions[q] = m.regions[q]
                /\ \A x \in Characters:
                     IF x # up.id \/ x = Self
                     THEN (x \in n.known <=> x \in m.known) /\ n.bodies[x] = m.bodies[x]
                     ELSE /\ x \in n.known <=> (x \in m.known \/ Arrives(up, D)) /\ ~Departs(up, D)
                          /\ n.bodies[x] = m.bodies[x] + (IF Arrives(up, D) THEN 1
                                                          ELSE IF Departs(up, D) THEN -1 ELSE 0)
<1> DEFINE n == ApplyOne(m, r, up)
           D == DOMAIN m.regions
           id == up.id
           old == m.regions[r]
           Good == /\ IsGame(n) /\ DOMAIN n.regions = D
                   /\ n.regions[r] = Learned(old, up)
                   /\ \A q \in D: q # r => n.regions[q] = m.regions[q]
           Who == \A x \in Characters:
                     IF x # id \/ x = Self
                     THEN (x \in n.known <=> x \in m.known) /\ n.bodies[x] = m.bodies[x]
                     ELSE /\ x \in n.known <=> (x \in m.known \/ Arrives(up, D)) /\ ~Departs(up, D)
                          /\ n.bodies[x] = m.bodies[x] + (IF Arrives(up, D) THEN 1
                                                          ELSE IF Departs(up, D) THEN -1 ELSE 0)
<1>1. /\ up.kind \in {"enter", "exit", "update"} /\ id \in Characters /\ up.other \in {None} \cup Region
      /\ D \subseteq Region /\ old \subseteq Others /\ m.bodies \in [Characters -> Nat]
  BY DEF UpdateSet, IsGame
<1>2. m.state # "panic" /\ None \notin D
  BY <1>1, InGames, Nowhere
<1>3. CASE id = Self
  <2>1. n = m
    BY <1>2, <1>3 DEF ApplyOne
  <2>2. Learned(old, up) = old
    <3>1. {id} \ {Self} = {} /\ old \ {id} = old
      BY <1>1, <1>3 DEF Others
    <3> QED
      BY <1>1, <3>1 DEF Learned
  <2>3. ~Fails(m, up)
    BY <1>3 DEF Fails
  <2>4. Good
    BY <2>1, <2>2
  <2>5. Who
    BY <1>3, <2>1
  <2> QED
    BY <2>3, <2>4, <2>5
<1>4. CASE id # Self /\ up.kind = "enter"
  <2> DEFINE s == old \cup {id}
             k == [m EXCEPT !.regions[r] = s]
  <2>1. ~Fails(m, up) /\ (Arrives(up, D) <=> up.other \notin D) /\ ~Departs(up, D)
    BY <1>4 DEF Fails, Arrives, Departs
  <2>0. s \in SUBSET Others
    BY <1>1, <1>4 DEF Others
  <2>2. Learned(old, up) = s /\ id \in Others
    <3>1. {id} \ {Self} = {id}
      BY <1>4
    <3> QED
      BY <1>1, <1>4, <3>1 DEF Learned, Others
  <2>3. n = ApplyEnter(m, r, up)
    BY <1>2, <1>4 DEF ApplyOne
  <2>4. n = IF up.other \in D THEN k ELSE AddCharacter(k, id)
    BY <1>2, <2>3 DEF ApplyEnter
  <2> HIDE DEF s
  <2>5. /\ IsGame(k) /\ DOMAIN k.regions = D
        /\ k.regions[r] = s /\ \A q \in D: q # r => k.regions[q] = m.regions[q]
        /\ k.known = m.known /\ k.bodies = m.bodies
    BY <2>0, OneRegion
  <2> HIDE DEF k
  <2>6. CASE up.other \in D
    <3>1. n = k
      BY <2>4, <2>6
    <3> HIDE DEF n
    <3>2. Good
      BY <2>2, <2>5, <3>1
    <3>3. Who
      BY <1>1, <1>4, <2>1, <2>5, <2>6, <3>1
    <3> QED
      BY <2>1, <3>2, <3>3 DEF n
  <2>7. CASE up.other \notin D
    <3>1. n = AddCharacter(k, id)
      BY <2>4, <2>7
    <3> HIDE DEF n
    <3>2. /\ IsGame(n) /\ n.regions = k.regions /\ n.known = k.known \cup {id}
          /\ \A x \in Characters: n.bodies[x] = IF x = id THEN k.bodies[x] + 1 ELSE k.bodies[x]
      BY <2>2, <2>5, <3>1, Added
    <3>3. Good
      BY <2>2, <2>5, <3>2
    <3>4. Who
      BY <1>1, <1>4, <2>1, <2>5, <2>7, <3>2
    <3> QED
      BY <2>1, <3>3, <3>4 DEF n
  <2> QED
    BY <2>6, <2>7
<1>5. CASE id # Self /\ up.kind = "exit"
  <2> DEFINE s == old \ {id}
             k == [m EXCEPT !.regions[r] = s]
  <2>1. /\ Fails(m, up) <=> up.other \notin D /\ id \notin m.known
        /\ (Departs(up, D) <=> up.other \notin D) /\ ~Arrives(up, D)
    BY <1>5 DEF Fails, Arrives, Departs
  <2>2. Learned(old, up) = s /\ s \in SUBSET Others
    BY <1>1, <1>5 DEF Learned
  <2>3. n = ApplyExit(m, r, up)
    BY <1>2, <1>5 DEF ApplyOne
  <2>4. n = IF up.other \in D THEN k ELSE RemoveCharacter(k, id)
    BY <1>2, <2>3 DEF ApplyExit
  <2> HIDE DEF s
  <2>5. /\ IsGame(k) /\ DOMAIN k.regions = D
        /\ k.regions[r] = s /\ \A q \in D: q # r => k.regions[q] = m.regions[q]
        /\ k.known = m.known /\ k.bodies = m.bodies
    BY <2>2, OneRegion
  <2> HIDE DEF k
  <2>6. CASE up.other \in D
    <3>1. n = k
      BY <2>4, <2>6
    <3> HIDE DEF n
    <3>2. Good
      BY <2>2, <2>5, <3>1
    <3>3. Who
      BY <1>1, <1>5, <2>1, <2>5, <2>6, <3>1
    <3> QED
      BY <2>1, <2>6, <3>2, <3>3 DEF n
  <2>7. CASE up.other \notin D /\ id \in m.known
    <3>1. n = RemoveCharacter(k, id) /\ id \in k.known
      BY <2>4, <2>5, <2>7
    <3> HIDE DEF n
    <3>2. /\ IsGame(n) /\ n.regions = k.regions /\ n.known = k.known \ {id}
          /\ \A x \in Characters: n.bodies[x] = IF x = id THEN k.bodies[x] - 1 ELSE k.bodies[x]
      BY <2>5, <3>1, Removed
    <3>3. Good
      BY <2>2, <2>5, <3>2
    <3>4. Who
      BY <1>1, <1>5, <2>1, <2>5, <2>7, <3>2
    <3> QED
      BY <2>1, <2>7, <3>3, <3>4 DEF n
  <2>8. CASE up.other \notin D /\ id \notin m.known
    <3>1. n = Panic
      BY <2>4, <2>5, <2>8 DEF RemoveCharacter
    <3> QED
      BY <2>1, <2>8, <3>1
  <2> QED
    BY <2>6, <2>7, <2>8
<1>6. CASE id # Self /\ up.kind = "update"
  <2>1. /\ Fails(m, up) <=> id \in Npcs /\ id \notin m.known
        /\ ~Departs(up, D) /\ ~Arrives(up, D)
    BY <1>6 DEF Fails, Arrives, Departs
  <2>2. n = IF Fails(m, up) THEN Panic ELSE m
    BY <1>2, <1>6, <2>1 DEF ApplyOne, ApplyUpdate
  <2>3. Learned(old, up) = old
    BY <1>6 DEF Learned
  <2>4. CASE Fails(m, up)
    BY <2>2, <2>4
  <2>5. CASE ~Fails(m, up)
    <3>1. n = m
      BY <2>2, <2>5
    <3> HIDE DEF n
    <3>2. Good
      BY <2>3, <3>1
    <3>3. Who
      BY <1>1, <2>1, <3>1
    <3> QED
      BY <2>5, <3>2, <3>3 DEF n
  <2> QED
    BY <2>4, <2>5
<1> QED
  BY <1>1, <1>3, <1>4, <1>5, <1>6

-----------------------------------------------------------------------------
(* The updates of one region. *)

\* Who is among the first k updates, and among all.
EntersBy(s, id, k) == \E i \in 1 .. k: s[i].kind = "enter" /\ s[i].id = id
ExitsBy(s, id, k) == \E i \in 1 .. k: s[i].kind = "exit" /\ s[i].id = id

Enters(s, id) == EntersBy(s, id, Len(s))
Exits(s, id) == ExitsBy(s, id, Len(s))

\* The character does not come back in these updates.
NoReturn(s, id) ==
  \A i, j \in 1 .. Len(s):
    s[i].kind = "exit" /\ s[i].id = id /\ s[j].kind = "enter" /\ s[j].id = id => j < i

\* A region shows who was shown or enters, and does not exit.
LEMMA ToldOf ==
  ASSUME NEW base \in SUBSET Others, NEW s \in Seq(UpdateSet)
  PROVE /\ Told(base, s) \in SUBSET Others
        /\ \A id \in Others: NoReturn(s, id) =>
             (id \in Told(base, s) <=> (id \in base \/ Enters(s, id)) /\ ~Exits(s, id))
<1> DEFINE n == Len(s)
<1>1. n \in Nat /\ DOMAIN s = 1 .. n /\ \A k \in 1 .. n: s[k] \in UpdateSet
  BY LenProperties
<1>2. PICK f: /\ f[0] = base /\ \A k \in 1 .. n: f[k] = Learned(f[k - 1], s[k])
              /\ Told(base, s) = f[n]
  BY TellSteps
<1> HIDE DEF n
<1> DEFINE Claim(k) == /\ f[k] \in SUBSET Others
                       /\ \A id \in Others: NoReturn(s, id) =>
                            (id \in f[k] <=> (id \in base \/ EntersBy(s, id, k)) /\ ~ExitsBy(s, id, k))
           S == {k \in Nat : k \in 0 .. n => Claim(k)}
<1>3. 0 \in S
  <2>1. \A id: ~EntersBy(s, id, 0) /\ ~ExitsBy(s, id, 0)
    BY DEF EntersBy, ExitsBy
  <2> QED
    BY <1>2, <2>1
<1>4. ASSUME NEW k \in Nat, k \in S PROVE k + 1 \in S
  <2> SUFFICES ASSUME k + 1 \in 0 .. n PROVE Claim(k + 1)
    OBVIOUS
  <2> DEFINE up == s[k + 1]
             ids == f[k]
  <2>1. k \in 0 .. n /\ k + 1 \in 1 .. n
    BY <1>1
  <2>2. Claim(k)
    BY <1>4, <2>1
  <2>3. f[k + 1] = Learned(ids, up) /\ up \in UpdateSet
    <3>1. (k + 1) - 1 = k
      OBVIOUS
    <3> QED
      BY <1>1, <1>2, <2>1, <3>1
  <2>4. up.kind \in {"enter", "exit", "update"} /\ up.id \in Characters
    BY <2>3 DEF UpdateSet
  <2>5. \A id: /\ EntersBy(s, id, k + 1) <=> EntersBy(s, id, k) \/ (up.kind = "enter" /\ up.id = id)
               /\ ExitsBy(s, id, k + 1) <=> ExitsBy(s, id, k) \/ (up.kind = "exit" /\ up.id = id)
    <3>1. 1 .. k + 1 = (1 .. k) \cup {k + 1}
      BY <2>1
    <3> QED
      BY <3>1 DEF EntersBy, ExitsBy
  <2>6. \A id: NoReturn(s, id) /\ up.kind = "enter" /\ up.id = id => ~ExitsBy(s, id, k)
    <3> SUFFICES ASSUME NEW id, NoReturn(s, id), up.kind = "enter", up.id = id,
                        NEW i \in 1 .. k, s[i].kind = "exit", s[i].id = id
                 PROVE FALSE
      BY DEF ExitsBy
    <3>1. i \in 1 .. n /\ k + 1 \in 1 .. n /\ ~(k + 1 < i)
      BY <1>1, <2>1
    <3> QED
      BY <3>1 DEF NoReturn, n
  <2> HIDE DEF up, ids
  <2>7. /\ up.kind = "enter" => Learned(ids, up) = ids \cup ({up.id} \ {Self})
        /\ up.kind = "exit" => Learned(ids, up) = ids \ {up.id}
        /\ up.kind = "update" => Learned(ids, up) = ids
    BY <2>4 DEF Learned
  <2>8. ids \in SUBSET Others
    BY <2>2 DEF ids
  <2>9. f[k + 1] \in SUBSET Others
    BY <2>3, <2>4, <2>7, <2>8 DEF Others
  <2>10. ASSUME NEW id \in Others, NoReturn(s, id)
         PROVE id \in f[k + 1] <=> (id \in base \/ EntersBy(s, id, k + 1)) /\ ~ExitsBy(s, id, k + 1)
    <3>1. id \in ids <=> (id \in base \/ EntersBy(s, id, k)) /\ ~ExitsBy(s, id, k)
      BY <2>2, <2>10 DEF ids
    <3>2. id # Self
      BY DEF Others
    <3>3. up.kind = "enter" /\ up.id = id => ~ExitsBy(s, id, k)
      BY <2>6, <2>10
    <3> QED
      BY <2>3, <2>4, <2>5, <2>7, <3>1, <3>2, <3>3
  <2> QED
    BY <2>9, <2>10
<1> HIDE DEF S
<1>5. \A k \in Nat: k \in S
  BY <1>3, <1>4, Upwards
<1>6. Claim(n)
  <2>1. n \in S /\ n \in 0 .. n
    BY <1>1, <1>5
  <2> QED
    BY <2>1 DEF S
<1> QED
  BY <1>2, <1>6 DEF Enters, Exits, n

\* Nobody is told nothing.
LEMMA ToldNothing ==
  ASSUME NEW base \in SUBSET Others PROVE Told(base, <<>>) = base
<1> DEFINE s == <<>>
<1>1. s \in Seq(UpdateSet) /\ Len(s) = 0
  BY EmptySeq
<1> HIDE DEF s
<1>2. \E f: f[0] = base /\ Told(base, s) = f[Len(s)]
  <2>1. \E f: /\ f[0] = base
              /\ \A k \in 1 .. Len(s): f[k] = Learned(f[k - 1], s[k])
              /\ Told(base, s) = f[Len(s)]
    BY <1>1, TellSteps
  <2> QED
    BY <2>1
<1> QED
  BY <1>1, <1>2 DEF s


Bit(b) == IF b THEN 1 ELSE 0

ArrivesBy(s, D, id, k) == \E i \in 1 .. k: s[i].id = id /\ Arrives(s[i], D)
DepartsBy(s, D, id, k) == \E i \in 1 .. k: s[i].id = id /\ Departs(s[i], D)

Arrival(s, D, id) == ArrivesBy(s, D, id, Len(s))
Departure(s, D, id) == DepartsBy(s, D, id, Len(s))

\* These updates bring a character once, when it is not there, and take it
\* once, when it is.
Smooth(s, D, id, known) ==
  /\ \A i, j \in 1 .. Len(s): s[i].id = id /\ s[j].id = id =>
       /\ Arrives(s[i], D) /\ Arrives(s[j], D) => i = j
       /\ Departs(s[i], D) /\ Departs(s[j], D) => i = j
       /\ Arrives(s[i], D) /\ Departs(s[j], D) => i < j
  /\ Arrival(s, D, id) => ~known
  /\ Departure(s, D, id) => known \/ Arrival(s, D, id)
  /\ \A i \in 1 .. Len(s): s[i].id = id /\ s[i].kind = "update" /\ id \in Npcs =>
       known /\ ~Departure(s, D, id)

\* What the updates of a region change.
LEMMA RegionApplied ==
  ASSUME NEW m, IsGame(m), NEW r \in DOMAIN m.regions, NEW s \in Seq(UpdateSet)
  PROVE LET n == DynamicUpdates(m, r, s)
            D == DOMAIN m.regions
        IN /\ \/ n = Panic
              \/ /\ IsGame(n) /\ DOMAIN n.regions = D
                 /\ n.regions[r] = Told(m.regions[r], s)
                 /\ \A q \in D: q # r => n.regions[q] = m.regions[q]
           /\ \A id \in Others: Smooth(s, D, id, id \in m.known) /\ n # Panic =>
                /\ id \in n.known <=> (id \in m.known \/ Arrival(s, D, id)) /\ ~Departure(s, D, id)
                /\ m.bodies[id] = Bit(id \in m.known) => n.bodies[id] = Bit(id \in n.known)
           /\ (\A id \in Others: Smooth(s, D, id, id \in m.known)) => n # Panic
<1> DEFINE n == Len(s)
           D == DOMAIN m.regions
           old == m.regions[r]
<1>1. n \in Nat /\ DOMAIN s = 1 .. n /\ \A k \in 1 .. n: s[k] \in UpdateSet
  BY LenProperties
<1>2. PICK f: /\ f[0] = m /\ \A k \in 1 .. n: f[k] = ApplyOne(f[k - 1], r, s[k])
              /\ DynamicUpdates(m, r, s) = f[n]
  BY InGames, OneSteps
<1>3. PICK g: /\ g[0] = old /\ \A k \in 1 .. n: g[k] = Learned(g[k - 1], s[k])
              /\ Told(old, s) = g[n]
  BY TellSteps
<1>4. old \subseteq Others /\ m # Panic
  BY InGames DEF IsGame
<1> HIDE DEF n, D, old
<1> DEFINE Here(k) == /\ IsGame(f[k]) /\ DOMAIN f[k].regions = D
                      /\ f[k].regions[r] = g[k]
                      /\ \A q \in D: q # r => f[k].regions[q] = m.regions[q]
           Who(id, k) == /\ id \in f[k].known <=>
                              (id \in m.known \/ ArrivesBy(s, D, id, k)) /\ ~DepartsBy(s, D, id, k)
                         /\ m.bodies[id] = Bit(id \in m.known) => f[k].bodies[id] = Bit(id \in f[k].known)
           Claim(k) == /\ f[k] = Panic \/ Here(k)
                       /\ \A id \in Others: Smooth(s, D, id, id \in m.known) /\ f[k] # Panic => Who(id, k)
                       /\ (\A id \in Others: Smooth(s, D, id, id \in m.known)) => f[k] # Panic
           S == {k \in Nat : k \in 0 .. n => Claim(k)}
<1>5. 0 \in S
  <2>1. \A id: ~ArrivesBy(s, D, id, 0) /\ ~DepartsBy(s, D, id, 0)
    BY DEF ArrivesBy, DepartsBy
  <2>2. Here(0)
    BY <1>2, <1>3 DEF old, D
  <2> QED
    BY <1>2, <1>4, <2>1, <2>2
<1>6. ASSUME NEW k \in Nat, k \in S PROVE k + 1 \in S
  <2> SUFFICES ASSUME k + 1 \in 0 .. n PROVE Claim(k + 1)
    OBVIOUS
  <2> DEFINE up == s[k + 1]
             a == f[k]
             b == f[k + 1]
  <2>1. k \in 0 .. n /\ k + 1 \in 1 .. n /\ (k + 1) - 1 = k
    BY <1>1
  <2>2. Claim(k)
    BY <1>6, <2>1
  <2>3. b = ApplyOne(a, r, up) /\ g[k + 1] = Learned(g[k], up) /\ up \in UpdateSet
    BY <1>1, <1>2, <1>3, <2>1
  <2>4. up.kind \in {"enter", "exit", "update"} /\ up.id \in Characters
    BY <2>3 DEF UpdateSet
  <2>5. \A id: /\ ArrivesBy(s, D, id, k + 1) <=> ArrivesBy(s, D, id, k) \/ (up.id = id /\ Arrives(up, D))
               /\ DepartsBy(s, D, id, k + 1) <=> DepartsBy(s, D, id, k) \/ (up.id = id /\ Departs(up, D))
    <3>1. 1 .. k + 1 = (1 .. k) \cup {k + 1}
      BY <2>1
    <3> QED
      BY <3>1 DEF ArrivesBy, DepartsBy
  <2>6. CASE a = Panic
    <3>1. b = Panic
      BY <2>3, <2>6, InGames DEF ApplyOne
    <3> QED
      BY <2>2, <2>6, <3>1
  <2>7. CASE a # Panic
    <3>1. Here(k)
      BY <2>2, <2>7
    <3>2. r \in DOMAIN a.regions
      BY <3>1 DEF D
    <3> HIDE DEF up, a, b
    <3>3. /\ Fails(a, up) => b = Panic
          /\ ~Fails(a, up) =>
                /\ IsGame(b) /\ DOMAIN b.regions = D
                /\ b.regions[r] = Learned(a.regions[r], up)
                /\ \A q \in D: q # r => b.regions[q] = a.regions[q]
                /\ \A x \in Characters:
                     IF x # up.id \/ x = Self
                     THEN (x \in b.known <=> x \in a.known) /\ b.bodies[x] = a.bodies[x]
                     ELSE /\ x \in b.known <=> (x \in a.known \/ Arrives(up, D)) /\ ~Departs(up, D)
                          /\ b.bodies[x] = a.bodies[x] + (IF Arrives(up, D) THEN 1
                                                          ELSE IF Departs(up, D) THEN -1 ELSE 0)
      <4>1. IsGame(a) /\ DOMAIN a.regions = D
        BY <3>1 DEF a
      <4> QED
        BY <2>3, <3>2, <4>1, OneApplied
    <3>4. ~Fails(a, up) => Here(k + 1)
      BY <2>3, <3>1, <3>3 DEF a, b
    <3>5. ASSUME NEW id \in Others, Smooth(s, D, id, id \in m.known)
          PROVE /\ up.id = id /\ Arrives(up, D) => id \notin a.known
                /\ up.id = id /\ Departs(up, D) => id \in a.known
                /\ up.id = id /\ up.kind = "update" /\ id \in Npcs => id \in a.known
                /\ id \in a.known <=> (id \in m.known \/ ArrivesBy(s, D, id, k)) /\ ~DepartsBy(s, D, id, k)
                /\ m.bodies[id] = Bit(id \in m.known) => a.bodies[id] = Bit(id \in a.known)
      <4>1. /\ id \in a.known <=> (id \in m.known \/ ArrivesBy(s, D, id, k)) /\ ~DepartsBy(s, D, id, k)
            /\ m.bodies[id] = Bit(id \in m.known) => a.bodies[id] = Bit(id \in a.known)
        BY <2>2, <2>7, <3>5 DEF a
      <4>2. /\ \A i, j \in 1 .. n: s[i].id = id /\ s[j].id = id =>
                 /\ Arrives(s[i], D) /\ Arrives(s[j], D) => i = j
                 /\ Departs(s[i], D) /\ Departs(s[j], D) => i = j
                 /\ Arrives(s[i], D) /\ Departs(s[j], D) => i < j
            /\ ArrivesBy(s, D, id, n) => id \notin m.known
            /\ DepartsBy(s, D, id, n) => id \in m.known \/ ArrivesBy(s, D, id, n)
            /\ \A i \in 1 .. n: s[i].id = id /\ s[i].kind = "update" /\ id \in Npcs =>
                 id \in m.known /\ ~DepartsBy(s, D, id, n)
        BY <3>5 DEF Smooth, Arrival, Departure, n
      <4>3. \A i \in 1 .. k: i \in 1 .. n /\ i < k + 1
        BY <1>1, <2>1
      <4>4. ASSUME up.id = id, Arrives(up, D) PROVE id \notin a.known
        <5>1. ArrivesBy(s, D, id, n)
          BY <2>1, <4>4 DEF ArrivesBy, up
        <5>2. ~ArrivesBy(s, D, id, k)
          <6> SUFFICES ASSUME NEW i \in 1 .. k, s[i].id = id, Arrives(s[i], D) PROVE FALSE
            BY DEF ArrivesBy
          <6>1. i = k + 1
            BY <2>1, <4>2, <4>3, <4>4 DEF up
          <6> QED
            BY <4>3, <6>1
        <5> QED
          BY <4>1, <4>2, <5>1, <5>2
      <4>5. ASSUME up.id = id, Departs(up, D) PROVE id \in a.known
        <5>1. DepartsBy(s, D, id, n)
          BY <2>1, <4>5 DEF DepartsBy, up
        <5>2. ~DepartsBy(s, D, id, k)
          <6> SUFFICES ASSUME NEW i \in 1 .. k, s[i].id = id, Departs(s[i], D) PROVE FALSE
            BY DEF DepartsBy
          <6>1. i = k + 1
            BY <2>1, <4>2, <4>3, <4>5 DEF up
          <6> QED
            BY <4>3, <6>1
        <5>3. ArrivesBy(s, D, id, n) => ArrivesBy(s, D, id, k)
          <6> SUFFICES ASSUME NEW i \in 1 .. n, s[i].id = id, Arrives(s[i], D)
                       PROVE i \in 1 .. k
            BY DEF ArrivesBy
          <6>1. i < k + 1
            BY <2>1, <4>2, <4>5 DEF up
          <6> QED
            BY <6>1
        <5> QED
          BY <4>1, <4>2, <5>1, <5>2, <5>3
      <4>6. ASSUME up.id = id, up.kind = "update", id \in Npcs PROVE id \in a.known
        <5>1. id \in m.known /\ ~DepartsBy(s, D, id, n)
          BY <2>1, <4>2, <4>6 DEF up
        <5>2. ~DepartsBy(s, D, id, k)
          BY <4>3, <5>1 DEF DepartsBy
        <5> QED
          BY <4>1, <5>1, <5>2
      <4> QED
        BY <4>1, <4>4, <4>5, <4>6
    <3>6. ASSUME NEW id \in Others, Smooth(s, D, id, id \in m.known), ~Fails(a, up) PROVE Who(id, k + 1)
      <4>1. id \in Characters /\ id # Self
        BY DEF Others
      <4>2. a.bodies[id] \in Nat
        BY <3>1, <4>1 DEF IsGame, a
      <4>3. CASE id # up.id
        <5>1. (id \in b.known <=> id \in a.known) /\ b.bodies[id] = a.bodies[id]
          BY <3>3, <3>6, <4>1, <4>3
        <5>2. /\ ArrivesBy(s, D, id, k + 1) <=> ArrivesBy(s, D, id, k)
              /\ DepartsBy(s, D, id, k + 1) <=> DepartsBy(s, D, id, k)
          BY <2>5, <4>3 DEF up
        <5> QED
          BY <3>5, <3>6, <5>1, <5>2 DEF b, Bit
      <4>4. CASE id = up.id
        <5>1. /\ id \in b.known <=> (id \in a.known \/ Arrives(up, D)) /\ ~Departs(up, D)
              /\ b.bodies[id] = a.bodies[id] + (IF Arrives(up, D) THEN 1
                                                ELSE IF Departs(up, D) THEN -1 ELSE 0)
          BY <3>3, <3>6, <4>1, <4>4
        <5>2. /\ ArrivesBy(s, D, id, k + 1) <=> ArrivesBy(s, D, id, k) \/ Arrives(up, D)
              /\ DepartsBy(s, D, id, k + 1) <=> DepartsBy(s, D, id, k) \/ Departs(up, D)
          BY <2>5, <4>4 DEF up
        <5>3. /\ Arrives(up, D) => id \notin a.known
              /\ Departs(up, D) => id \in a.known
              /\ id \in a.known <=> (id \in m.known \/ ArrivesBy(s, D, id, k)) /\ ~DepartsBy(s, D, id, k)
              /\ m.bodies[id] = Bit(id \in m.known) => a.bodies[id] = Bit(id \in a.known)
          BY <3>5, <3>6, <4>4
        <5>4. ~(Arrives(up, D) /\ Departs(up, D))
          BY DEF Arrives, Departs
        <5>5. Arrives(up, D) => ~DepartsBy(s, D, id, k)
          <6> SUFFICES ASSUME Arrives(up, D), NEW i \in 1 .. k, s[i].id = id, Departs(s[i], D) PROVE FALSE
            BY DEF DepartsBy
          <6>1. k + 1 < i /\ i \in 1 .. k
            <7>1. i \in 1 .. n
              BY <1>1, <2>1
            <7> QED
              BY <2>1, <3>6, <4>4, <7>1 DEF Smooth, n, up
          <6> QED
            BY <6>1
        <5>6. id \in b.known <=>
                (id \in m.known \/ ArrivesBy(s, D, id, k + 1)) /\ ~DepartsBy(s, D, id, k + 1)
          BY <5>1, <5>2, <5>3, <5>4, <5>5
        <5>7. m.bodies[id] = Bit(id \in m.known) => b.bodies[id] = Bit(id \in b.known)
          BY <4>2, <5>1, <5>3, <5>4 DEF Bit
        <5> QED
          BY <5>6, <5>7 DEF b
      <4> QED
        BY <4>3, <4>4
    <3>7. (\A id \in Others: Smooth(s, D, id, id \in m.known)) => ~Fails(a, up)
      <4> SUFFICES ASSUME \A id \in Others: Smooth(s, D, id, id \in m.known), Fails(a, up)
                   PROVE FALSE
        OBVIOUS
      <4>1. up.id \in Others /\ up.id \notin a.known
            /\ (Departs(up, D) \/ (up.kind = "update" /\ up.id \in Npcs))
        BY <2>4, <3>1 DEF Fails, Others, up, a
      <4> QED
        BY <3>5, <4>1
    <3>8. ~Fails(a, up) => b # Panic
      BY <3>3, InGames
    <3> QED
      BY <3>3, <3>4, <3>6, <3>7, <3>8 DEF b
  <2> QED
    BY <2>6, <2>7
<1> HIDE DEF S
<1>7. \A k \in Nat: k \in S
  BY <1>5, <1>6, Upwards
<1>8. Claim(n)
  <2>1. n \in S /\ n \in 0 .. n
    BY <1>1, <1>7
  <2> QED
    BY <2>1 DEF S
<1> QED
  BY <1>2, <1>3, <1>8 DEF Arrival, Departure, n, D, old

-----------------------------------------------------------------------------
(* The updates of all regions. *)

\* A sequence of the members of a set has each of them at one place.
LEMMA Listed ==
  ASSUME NEW S, IsFiniteSet(S), NEW f \in SetToSeqs(S)
  PROVE /\ f \in Seq(S) /\ Len(f) \in Nat /\ DOMAIN f = 1 .. Len(f)
        /\ \A i, j \in 1 .. Len(f): f[i] = f[j] => i = j
        /\ \A x \in S: \E i \in 1 .. Len(f): f[i] = x
<1> DEFINE n == Cardinality(S)
<1>1. n \in Nat
  BY FS_CardinalityType
<1>2. f \in [1 .. n -> S] /\ \A i, j \in 1 .. n: i # j => f[i] # f[j]
  BY DEF SetToSeqs
<1> HIDE DEF n
<1>3. f \in Seq(S) /\ DOMAIN f = 1 .. n /\ Len(f) = n
  BY <1>1, <1>2
<1>4. f \in Injection(1 .. n, S)
  BY <1>2 DEF Injection, IsInjective
<1>5. IsFiniteSet(1 .. n) /\ Cardinality(1 .. n) = n
  BY <1>1, FS_Interval
<1>6. f \in Surjection(1 .. n, S)
  BY <1>4, <1>5, FS_Injection DEF n
<1>7. \A x \in S: \E i \in 1 .. n: f[i] = x
  BY <1>6 DEF Surjection
<1> QED
  BY <1>1, <1>2, <1>3, <1>7

\* A finite set has one.
LEMMA Listing ==
  ASSUME NEW S, IsFiniteSet(S) PROVE SetToSeq(S) \in SetToSeqs(S)
<1>1. PICK f: f \in Bijection(1 .. Cardinality(S), S)
  BY FS_CardinalityType DEF ExistsBijection
<1>2. f \in [1 .. Cardinality(S) -> S] /\ IsInjective(f)
  BY <1>1 DEF Bijection, Injection
<1>3. SetToSeq(S) \in [1 .. Cardinality(S) -> S] /\ IsInjective(SetToSeq(S))
  BY <1>2 DEF SetToSeq
<1> QED
  BY <1>3 DEF SetToSeqs, IsInjective

\* These updates neither bring nor take a character, nor need it.
Quiet(s, D, id) ==
  \A i \in 1 .. Len(s): s[i].id = id =>
    /\ ~Arrives(s[i], D) /\ ~Departs(s[i], D)
    /\ ~(s[i].kind = "update" /\ id \in Npcs)

LEMMA QuietIsSmooth ==
  ASSUME NEW s, NEW D, NEW id, Quiet(s, D, id)
  PROVE ~Arrival(s, D, id) /\ ~Departure(s, D, id) /\ \A known: Smooth(s, D, id, known)
<1>1. ~Arrival(s, D, id) /\ ~Departure(s, D, id)
  BY DEF Quiet, Arrival, Departure, ArrivesBy, DepartsBy
<1> QED
  BY <1>1 DEF Quiet, Smooth

\* Of the updates of the regions "to", at most those of region a bring or take
\* the character, and they do so in turn.
InTurn(ups, to, D, id, a, known) ==
  /\ \A q \in to: q # a => Quiet(ups[q], D, id)
  /\ a \in to => Smooth(ups[a], D, id, known)

InTurns(ups, to) ==
  \A id \in Others: \E a: InTurn(ups, to, DOMAIN mirror.regions, id, a, id \in mirror.known)

LEMMA AllDelivered ==
  ASSUME IsGame(mirror), NEW to \in SUBSET DOMAIN mirror.regions, IsFiniteSet(to),
         NEW order \in SetToSeqs(to), NEW ups, \A r \in to: ups[r] \in Seq(UpdateSet)
  PROVE LET n == Delivered(ups, order)
            D == DOMAIN mirror.regions
        IN /\ \/ n = Panic
              \/ /\ IsGame(n) /\ DOMAIN n.regions = D
                 /\ \A q \in D: n.regions[q] = IF q \in to THEN Told(mirror.regions[q], ups[q])
                                               ELSE mirror.regions[q]
           /\ \A id \in Others: \A a: InTurn(ups, to, D, id, a, id \in mirror.known) /\ n # Panic =>
                /\ id \in n.known <=> /\ id \in mirror.known \/ (a \in to /\ Arrival(ups[a], D, id))
                                      /\ ~(a \in to /\ Departure(ups[a], D, id))
                /\ mirror.bodies[id] = Bit(id \in mirror.known) => n.bodies[id] = Bit(id \in n.known)
           /\ InTurns(ups, to) => n # Panic
<1> DEFINE n == Len(order)
           D == DOMAIN mirror.regions
           Before(k) == {order[i] : i \in 1 .. k}
<1>1. /\ order \in Seq(to) /\ n \in Nat /\ DOMAIN order = 1 .. n
      /\ \A i, j \in 1 .. n: order[i] = order[j] => i = j
      /\ \A x \in to: \E i \in 1 .. n: order[i] = x
  BY Listed
<1>2. \A k \in 1 .. n: order[k] \in to
  BY <1>1, LenProperties
<1>3. PICK f: /\ f[0] = mirror
              /\ \A k \in 1 .. n: f[k] = DynamicUpdates(f[k - 1], order[k], ups[order[k]])
              /\ Delivered(ups, order) = f[n]
  <2>1. InGame(mirror)
    BY InGames
  <2> QED
    BY <1>1, <2>1, RegionSteps
<1>4. Before(n) = to
  BY <1>1, <1>2
<1>5. mirror # Panic
  BY InGames
<1> HIDE DEF n, D
<1> DEFINE Here(k) == /\ IsGame(f[k]) /\ DOMAIN f[k].regions = D
                      /\ \A q \in D: f[k].regions[q] = IF q \in Before(k) THEN Told(mirror.regions[q], ups[q])
                                                       ELSE mirror.regions[q]
           Who(id, a, k) ==
             /\ id \in f[k].known <=> /\ id \in mirror.known \/ (a \in Before(k) /\ Arrival(ups[a], D, id))
                                      /\ ~(a \in Before(k) /\ Departure(ups[a], D, id))
             /\ mirror.bodies[id] = Bit(id \in mirror.known) => f[k].bodies[id] = Bit(id \in f[k].known)
           In(id, a) == InTurn(ups, to, D, id, a, id \in mirror.known)
           Claim(k) == /\ f[k] = Panic \/ Here(k)
                       /\ \A id \in Others: \A a: In(id, a) /\ f[k] # Panic => Who(id, a, k)
                       /\ (\A id \in Others: \E a: In(id, a)) => f[k] # Panic
           S == {k \in Nat : k \in 0 .. n => Claim(k)}
<1>6. 0 \in S
  <2>1. Before(0) = {}
    OBVIOUS
  <2> HIDE DEF Before
  <2>2. Here(0)
    BY <1>3, <2>1 DEF D
  <2>3. \A id \in Others: \A a: Who(id, a, 0)
    BY <1>3, <2>1
  <2> HIDE DEF Here, Who, In
  <2> QED
    BY <1>3, <1>5, <2>2, <2>3
<1>7. ASSUME NEW k \in Nat, k \in S PROVE k + 1 \in S
  <2> HIDE DEF Claim
  <2> SUFFICES ASSUME k + 1 \in 0 .. n PROVE Claim(k + 1)
    OBVIOUS
  <2> USE DEF Claim
  <2> DEFINE r == order[k + 1]
             a == f[k]
             b == f[k + 1]
  <2>1. k \in 0 .. n /\ k + 1 \in 1 .. n /\ (k + 1) - 1 = k
    BY <1>1
  <2>2. Claim(k)
    BY <1>7, <2>1
  <2>3. b = DynamicUpdates(a, r, ups[r]) /\ r \in to /\ ups[r] \in Seq(UpdateSet) /\ r \in D
    BY <1>2, <1>3, <2>1 DEF D
  <2>4. Before(k + 1) = Before(k) \cup {r} /\ r \notin Before(k)
    <3>1. 1 .. k + 1 = (1 .. k) \cup {k + 1} /\ k + 1 \notin 1 .. k /\ 1 .. k \subseteq 1 .. n
      BY <1>1, <2>1
    <3> QED
      BY <1>1, <2>1, <3>1
  <2> HIDE DEF Before
  <2>5. CASE a = Panic
    <3>1. b = Panic
      BY <2>3, <2>5, InGames DEF DynamicUpdates
    <3> QED
      BY <2>2, <2>5, <3>1
  <2>6. CASE a # Panic
    <3>1. Here(k)
      BY <2>2, <2>6
    <3> HIDE DEF r, a, b
    <3>2. IsGame(a) /\ DOMAIN a.regions = D /\ a.regions[r] = mirror.regions[r]
      BY <2>3, <2>4, <3>1 DEF a
    <3>3. /\ \/ b = Panic
             \/ /\ IsGame(b) /\ DOMAIN b.regions = D
                /\ b.regions[r] = Told(a.regions[r], ups[r])
                /\ \A q \in D: q # r => b.regions[q] = a.regions[q]
          /\ \A id \in Others: Smooth(ups[r], D, id, id \in a.known) /\ b # Panic =>
               /\ id \in b.known <=> (id \in a.known \/ Arrival(ups[r], D, id)) /\ ~Departure(ups[r], D, id)
               /\ a.bodies[id] = Bit(id \in a.known) => b.bodies[id] = Bit(id \in b.known)
          /\ (\A id \in Others: Smooth(ups[r], D, id, id \in a.known)) => b # Panic
      BY <2>3, <3>2, RegionApplied
    <3>4. b = Panic \/ Here(k + 1)
      BY <2>4, <3>1, <3>2, <3>3 DEF a, b
    <3>5. ASSUME NEW id \in Others, NEW c, In(id, c)
          PROVE Smooth(ups[r], D, id, id \in a.known)
      <4>1. CASE c # r
        BY <2>3, <3>5, <4>1, QuietIsSmooth DEF InTurn
      <4>2. CASE c = r
        <5>1. Smooth(ups[r], D, id, id \in mirror.known)
          BY <2>3, <3>5, <4>2 DEF InTurn
        <5>2. id \in a.known <=> id \in mirror.known
          BY <2>2, <2>4, <2>6, <3>5, <4>2 DEF a
        <5> QED
          BY <5>1, <5>2 DEF Smooth
      <4> QED
        BY <4>1, <4>2
    <3>6. ASSUME NEW id \in Others, NEW c, In(id, c), b # Panic PROVE Who(id, c, k + 1)
      <4>1. Smooth(ups[r], D, id, id \in a.known)
        BY <3>5, <3>6
      <4>2. /\ id \in b.known <=> (id \in a.known \/ Arrival(ups[r], D, id)) /\ ~Departure(ups[r], D, id)
            /\ a.bodies[id] = Bit(id \in a.known) => b.bodies[id] = Bit(id \in b.known)
        BY <3>3, <3>6, <4>1
      <4>3. /\ id \in a.known <=> /\ id \in mirror.known \/ (c \in Before(k) /\ Arrival(ups[c], D, id))
                                  /\ ~(c \in Before(k) /\ Departure(ups[c], D, id))
            /\ mirror.bodies[id] = Bit(id \in mirror.known) => a.bodies[id] = Bit(id \in a.known)
        BY <2>2, <2>6, <3>6 DEF a
      <4>4. CASE c # r
        <5>1. ~Arrival(ups[r], D, id) /\ ~Departure(ups[r], D, id)
          BY <2>3, <3>6, <4>4, QuietIsSmooth DEF InTurn
        <5>2. c \in Before(k + 1) <=> c \in Before(k)
          BY <2>4, <4>4
        <5> QED
          BY <4>2, <4>3, <5>1, <5>2 DEF b
      <4>5. CASE c = r
        <5>1. c \in Before(k + 1) /\ c \notin Before(k)
          BY <2>4, <4>5
        <5> QED
          BY <4>2, <4>3, <4>5, <5>1 DEF b
      <4> QED
        BY <4>4, <4>5
    <3>7. (\A id \in Others: \E c: In(id, c)) => b # Panic
      <4> SUFFICES ASSUME \A id \in Others: \E c: In(id, c) PROVE b # Panic
        OBVIOUS
      <4>1. \A id \in Others: Smooth(ups[r], D, id, id \in a.known)
        BY <3>5
      <4> QED
        BY <3>3, <4>1
    <3> HIDE DEF Here, Who, In
    <3> QED
      BY <3>4, <3>6, <3>7 DEF b
  <2> QED
    BY <2>5, <2>6
<1> HIDE DEF S
<1>8. \A k \in Nat: k \in S
  BY <1>6, <1>7, Upwards
<1>9. Claim(n)
  <2>1. n \in S /\ n \in 0 .. n
    BY <1>1, <1>8
  <2> QED
    BY <2>1 DEF S
<1>10. InTurns(ups, to) => Delivered(ups, order) # Panic
  BY <1>3, <1>9 DEF InTurns, D
<1> HIDE DEF Before
<1> QED
  BY <1>3, <1>4, <1>9, <1>10 DEF D

-----------------------------------------------------------------------------
(* The invariant. *)

\* A character enters these updates once and leaves them once, later.
Paired(s, id) ==
  \A i, j \in 1 .. Len(s): s[i].id = id /\ s[j].id = id =>
    /\ s[i].kind = "enter" /\ s[j].kind = "enter" => i = j
    /\ s[i].kind = "exit" /\ s[j].kind = "exit" => i = j
    /\ s[i].kind = "enter" /\ s[j].kind = "exit" => i < j

About(s, id) == Enters(s, id) \/ Exits(s, id)

Forms ==
  /\ updates \in [Region -> Seq(UpdateSet)]
  /\ mirror \in {Lobby, Gone, Panic} \/ IsGame(mirror)
  /\ strays \subseteq Users
  /\ IsFiniteSet(DOMAIN pc)

\* A character is where it is, when it is.
At(id, r) == id \in DOMAIN pc /\ RegionOf(pc[id].at) = r

\* Between two ticks the regions have to tell of players that are new and of
\* users that left; while changes are applied, of new players only.
Waits ==
  /\ \A r \in Region: \A i \in 1 .. Len(updates[r]):
       /\ updates[r][i].kind \in {"enter", "exit"} /\ updates[r][i].other = None
       /\ updates[r][i].id \in Users
       /\ ticking # "no" => updates[r][i].kind = "enter"
  /\ \A r \in Region: r \notin DOMAIN regions => updates[r] = <<>>
  /\ \A r \in Region, id \in Users:
       /\ Paired(updates[r], id)
       /\ Exits(updates[r], id) => id \notin DOMAIN pc
       /\ Enters(updates[r], id) /\ ~Exits(updates[r], id) => At(id, r)
  /\ \A r, q \in Region, id \in Users: About(updates[r], id) /\ About(updates[q], id) => r = q

\* A player comes to the region its entry was queued for.
Homes == \A u \in Users, r \in Region: Has(queue, u, r, "SetupPlayer") => RegionOf(place[u]) = r

\* Before the client enters, nothing is queued for its user.
Fresh ==
  mirror = Lobby =>
    /\ center[Self] = None /\ \A e \in Range(queue): e.user # Self
    /\ \A r \in Region: LevelOf(Self, r) = "none"

Full(r) == LevelOf(Self, r) = "full"

\* The client has the regions that its user observes, with the characters in them.
Agrees ==
  /\ DOMAIN mirror.regions = {r \in Region : LevelOf(Self, r) # "none"}
  /\ \A r \in Region: Full(r) => Shown(r) = Present(r)
  /\ \A r \in Region: LevelOf(Self, r) = "static" => mirror.regions[r] = {}

\* A character is in one region and has one body when the client knows it; who
\* is announced is not there yet, and who leaves was there.
Alone(id) ==
  /\ \A r, q \in DOMAIN mirror.regions: id \in mirror.regions[r] /\ id \in mirror.regions[q] => r = q
  /\ id \in mirror.known <=> \E r \in DOMAIN mirror.regions: id \in mirror.regions[r]
  /\ mirror.bodies[id] = Bit(id \in mirror.known)
  /\ \A r \in Region: Full(r) =>
       /\ Enters(updates[r], id) => id \notin mirror.regions[r]
       /\ Exits(updates[r], id) /\ ~Enters(updates[r], id) => id \in mirror.regions[r]

MirrorInv ==
  /\ RegionsInv /\ Forms /\ ClientGoesOn
  /\ panicked = "no" => Waits /\ Homes /\ Fresh
  /\ Sound => Agrees /\ \A id \in Others \ strays: Alone(id)

\* Users are no NPCs, and each region has its own.
LEMMA Names ==
  /\ Self \in Users /\ Users \subseteq Nat /\ Users \cap Npcs = {} /\ Npcs \subseteq Others
  /\ \A id: id \in Others <=> (id \in Users /\ id # Self) \/ id \in Npcs
  /\ \A r, q \in Region: Npc(r) = Npc(q) => r = q
  /\ \A r \in Region: Npc(r) \in Npcs
<1>1. Self \in Users /\ Users \subseteq Nat
  BY SelfAssumption, UsersAssumption
<1>2. \A r \in Region: r \in Nat
  BY Nowhere
<1>3. \A id \in Npcs: id \notin Nat
  BY <1>2 DEF Npcs, Npc
<1>4. \A r, q \in Region: Npc(r) = Npc(q) => r = q
  BY <1>2 DEF Npc
<1>5. \A r \in Region: Npc(r) \in Npcs
  BY DEF Npcs
<1> QED
  BY <1>1, <1>3, <1>4, <1>5 DEF Others, Characters

LEMMA PairedStays == ASSUME NEW s, NEW id, Paired(s, id) PROVE NoReturn(s, id)
BY DEF Paired, NoReturn

\* Who is in a region.
LEMMA PresentOf ==
  ASSUME NEW r \in Region, DOMAIN pc \subseteq Users
  PROVE /\ Present(r) \subseteq Others
        /\ \A id \in Others: id \in Present(r) <=> At(id, r) \/ id = Npc(r)
<1>1. \A id: id \in Present(r) <=> (id \in DOMAIN pc /\ id # Self /\ RegionOf(pc[id].at) = r) \/ id = Npc(r)
  BY DEF Present
<1> QED
  BY <1>1, Names DEF At

\* Nobody waits in no updates.
LEMMA NoneWait ==
  \A id: /\ ~Enters(<<>>, id) /\ ~Exits(<<>>, id) /\ ~About(<<>>, id) /\ Paired(<<>>, id)
<1> DEFINE s == <<>>
<1>1. 1 .. Len(s) = {}
  OBVIOUS
<1> HIDE DEF s
<1> QED
  BY <1>1 DEF Enters, Exits, EntersBy, ExitsBy, About, Paired, s

\* One more update.
LEMMA OneMore ==
  ASSUME NEW s \in Seq(UpdateSet), NEW up \in UpdateSet
  PROVE LET t == Append(s, up) IN
        /\ t \in Seq(UpdateSet)
        /\ \A i \in 1 .. Len(t): t[i] = up \/ \E j \in 1 .. Len(s): t[i] = s[j]
        /\ \A id: /\ Enters(t, id) <=> Enters(s, id) \/ (up.kind = "enter" /\ up.id = id)
                  /\ Exits(t, id) <=> Exits(s, id) \/ (up.kind = "exit" /\ up.id = id)
        /\ \A id: /\ Paired(s, id)
                  /\ up.id = id => /\ up.kind = "enter" => ~About(s, id)
                                   /\ up.kind = "exit" => ~Exits(s, id)
                  => Paired(t, id)
<1> DEFINE t == Append(s, up)
           n == Len(s)
<1>1. n \in Nat /\ t \in Seq(UpdateSet) /\ Len(t) = n + 1
      /\ t[n + 1] = up /\ \A i \in 1 .. n: t[i] = s[i]
  BY LenProperties, AppendProperties
<1>2. 1 .. n + 1 = (1 .. n) \cup {n + 1}
  BY <1>1
<1> HIDE DEF t, n
<1>3. \A id: /\ Enters(t, id) <=> Enters(s, id) \/ (up.kind = "enter" /\ up.id = id)
             /\ Exits(t, id) <=> Exits(s, id) \/ (up.kind = "exit" /\ up.id = id)
  BY <1>1, <1>2 DEF Enters, Exits, EntersBy, ExitsBy, n
<1>4. \A i \in 1 .. Len(t): t[i] = up \/ \E j \in 1 .. Len(s): t[i] = s[j]
  BY <1>1, <1>2 DEF n
<1>5. ASSUME NEW id, Paired(s, id),
             up.id = id => (up.kind = "enter" => ~About(s, id)) /\ (up.kind = "exit" => ~Exits(s, id))
      PROVE Paired(t, id)
  <2> SUFFICES ASSUME NEW i \in 1 .. n + 1, NEW j \in 1 .. n + 1, t[i].id = id, t[j].id = id
               PROVE /\ t[i].kind = "enter" /\ t[j].kind = "enter" => i = j
                     /\ t[i].kind = "exit" /\ t[j].kind = "exit" => i = j
                     /\ t[i].kind = "enter" /\ t[j].kind = "exit" => i < j
    BY <1>1 DEF Paired
  <2>1. \A k \in 1 .. n: s[k].id = id => /\ s[k].kind = "enter" => Enters(s, id)
                                         /\ s[k].kind = "exit" => Exits(s, id)
    BY DEF Enters, Exits, EntersBy, ExitsBy, n
  <2>2. CASE i \in 1 .. n /\ j \in 1 .. n
    BY <1>1, <1>5, <2>2 DEF Paired, n
  <2>3. CASE i = n + 1 /\ j = n + 1
    <3>1. ~(t[i].kind = "enter" /\ t[j].kind = "exit")
      BY <2>3
    <3> QED
      BY <2>3, <3>1
  <2>4. CASE i \in 1 .. n /\ j = n + 1
    <3>1. t[i] = s[i] /\ t[j] = up /\ i < j
      BY <1>1, <2>4
    <3> QED
      BY <1>5, <2>1, <2>4, <3>1 DEF About
  <2>5. CASE i = n + 1 /\ j \in 1 .. n
    <3>1. t[j] = s[j] /\ t[i] = up
      BY <1>1, <2>5
    <3> QED
      BY <1>5, <2>1, <2>5, <3>1 DEF About
  <2> QED
    BY <1>2, <2>2, <2>3, <2>4, <2>5
<1> QED
  BY <1>1, <1>3, <1>4, <1>5 DEF t

\* What a region shows, once the client has its updates.
LEMMA ShownOf ==
  ASSUME NEW ids \in SUBSET Others, NEW s \in Seq(UpdateSet), \A id \in Others: Paired(s, id)
  PROVE /\ Told(ids, s) \in SUBSET Others
        /\ \A id \in Others: id \in Told(ids, s) <=> (id \in ids \/ Enters(s, id)) /\ ~Exits(s, id)
BY ToldOf, PairedStays

\* NPCs have nothing to wait for.
LEMMA NpcsStay ==
  ASSUME Waits, NEW r \in Region, NEW id \in Npcs
  PROVE ~Enters(updates[r], id) /\ ~Exits(updates[r], id) /\ Paired(updates[r], id)
<1>1. \A i \in 1 .. Len(updates[r]): updates[r][i].id # id
  BY Names DEF Waits
<1> QED
  BY <1>1 DEF Enters, Exits, EntersBy, ExitsBy, Paired

-----------------------------------------------------------------------------
(* Requests, to the client. *)

\* What the invariant says of the client depends on nothing else.
LEMMA Unmoved ==
  ASSUME mirror' = mirror, \A r \in Region: LevelOf(Self, r)' = LevelOf(Self, r),
         \A r \in Region: Full(r) => updates'[r] = updates[r] /\ Present(r)' = Present(r)
  PROVE /\ Agrees => Agrees'
        /\ \A id: Alone(id) => Alone(id)'
<1>1. \A r \in Region: Full(r) => Shown(r)' = Shown(r)
  BY DEF Shown
<1>2. \A r \in Region: Full(r)' <=> Full(r)
  BY DEF Full
<1>3. ASSUME Agrees PROVE Agrees'
  <2>1. DOMAIN mirror'.regions = {r \in Region : LevelOf(Self, r)' # "none"}
    BY <1>3 DEF Agrees
  <2>2. \A r \in Region: Full(r)' => Shown(r)' = Present(r)'
    BY <1>1, <1>2, <1>3 DEF Agrees
  <2>3. \A r \in Region: LevelOf(Self, r)' = "static" => mirror'.regions[r] = {}
    BY <1>3 DEF Agrees
  <2> QED
    BY <2>1, <2>2, <2>3 DEF Agrees
<1>4. ASSUME NEW id, Alone(id) PROVE Alone(id)'
  BY <1>2, <1>4 DEF Alone
<1> QED
  BY <1>3, <1>4

\* The invariant holds at the start, and every action preserves it.
LEMMA MirrorInitially == ASSUME MirrorInit PROVE MirrorInv
<1>1. /\ Init /\ updates = [r \in Region |-> <<>>] /\ mirror = Lobby /\ strays = {}
      /\ center = [u \in Users |-> None] /\ pc = <<>> /\ queue = <<>> /\ regions = <<>>
      /\ panicked = "no"
  BY DEF MirrorInit, Init
<1>2. RegionsInv
  BY <1>1, RegionsInitially
<1>3. DOMAIN pc = {} /\ DOMAIN regions = {} /\ Range(queue) = {}
  <2>1. DOMAIN queue = {}
    BY <1>1
  <2> QED
    BY <1>1, <2>1 DEF Range
<1>4. \A r \in Region: updates[r] = <<>>
  BY <1>1
<1>5. ~InGame(mirror) /\ mirror.state # "panic"
  BY <1>1, InGames
<1>6. Forms
  <2>1. <<>> \in Seq(UpdateSet)
    OBVIOUS
  <2>2. IsFiniteSet(DOMAIN pc)
    BY <1>3, FS_EmptySet
  <2> QED
    BY <1>1, <2>1, <2>2 DEF Forms
<1>7. Waits
  <2>1. \A r \in Region: 1 .. Len(updates[r]) = {}
    BY <1>4
  <2> QED
    BY <1>4, <2>1, NoneWait DEF Waits
<1>8. Homes /\ Fresh
  BY <1>1, <1>3, SelfAssumption DEF Homes, Has, Fresh, LevelOf
<1>9. ~Sound /\ ClientGoesOn
  BY <1>5 DEF Sound, ClientGoesOn
<1> QED
  BY <1>2, <1>6, <1>7, <1>8, <1>9 DEF MirrorInv

\* What a request to enter puts into the queue is for that user only.
LEMMA EnterQueues ==
  ASSUME RegionsInv, NEW u \in Users, Enter(u)
  PROVE /\ crossed \subseteq crossed'
        /\ \A e \in Range(queue'): e \in Range(queue) \/ e.user = u
        /\ \A v \in Users, r \in Region: Has(queue', v, r, "SetupPlayer") =>
             Has(queue, v, r, "SetupPlayer") \/ (v = u /\ r = RegionOf(place[u]))
<1> DEFINE c == RegionOf(place[u])
           es == Append(Entries(u, Around(c), {}, None, c, c), Entry(c, c, u, "SetupPlayer"))
<1>1. /\ center[u] = None /\ Ready /\ regions' = regions /\ npcs' = npcs
      /\ center' = [center EXCEPT ![u] = c] /\ Enqueue(es)
  BY DEF Enter, Request
<1>2. Types /\ Consistent
  BY <1>1 DEF RegionsInv, Ready
<1>3. c \in Region /\ c \in Centers
  BY <1>2, Places DEF Types, Centers
<1> HIDE DEF c
<1>4. /\ Brings(es, u, None, c) /\ Single(es, PlayerOf(u))
      /\ \A r \in Region: Has(es, u, r, "SetupPlayer") <=> r = c
  BY <1>3, EnterBrings
<1> HIDE DEF es
<1>5. Range(queue') = Range(queue) \cup Range(es) /\ crossed \subseteq crossed'
  BY <1>1, <1>2, <1>3, <1>4, Enqueued
<1>6. \A e \in Range(es): e.user = u
  BY <1>4 DEF Brings
<1>7. ASSUME NEW v \in Users, NEW r \in Region, Has(queue', v, r, "SetupPlayer")
      PROVE Has(queue, v, r, "SetupPlayer") \/ (v = u /\ r = c)
  <2>1. Has(queue, v, r, "SetupPlayer") \/ Has(es, v, r, "SetupPlayer")
    BY <1>5, <1>7 DEF Has
  <2>2. Has(es, v, r, "SetupPlayer") => v = u
    BY <1>6 DEF Has
  <2> QED
    BY <1>4, <2>1, <2>2
<1> QED
  BY <1>5, <1>6, <1>7 DEF c

LEMMA MirrorEnterStep ==
  ASSUME MirrorInv, NEW u \in Users, MirrorEnter(u) PROVE MirrorInv'
<1>1. /\ Enter(u) /\ (u = Self => mirror = Lobby)
      /\ mirror' = (IF u = Self THEN Game ELSE mirror) /\ updates' = updates /\ strays' = strays
      /\ Ready /\ pc' = pc /\ place' = place /\ panicked' = panicked /\ regions' = regions
      /\ ticking' = ticking /\ center' = [center EXCEPT ![u] = RegionOf(place[u])]
  BY DEF MirrorEnter, Enter, Request
<1>2. RegionsInv /\ RegionsInv' /\ Types
  BY <1>1, EnterStep DEF MirrorInv, RegionsInv
<1>3. panicked = "no" /\ Waits /\ Homes /\ Fresh /\ Forms /\ ClientGoesOn
  BY <1>1 DEF MirrorInv, Ready
<1>4. /\ crossed \subseteq crossed'
      /\ \A e \in Range(queue'): e \in Range(queue) \/ e.user = u
      /\ \A v \in Users, r \in Region: Has(queue', v, r, "SetupPlayer") =>
           Has(queue, v, r, "SetupPlayer") \/ (v = u /\ r = RegionOf(place[u]))
  BY <1>1, <1>2, EnterQueues
<1>5. \A v, r: LevelOf(v, r)' = LevelOf(v, r)
  BY <1>1 DEF LevelOf
<1>6. /\ Game = [state |-> "game", regions |-> Game.regions, known |-> Game.known, bodies |-> Game.bodies]
      /\ DOMAIN Game.regions = {} /\ Game.regions = [r \in DOMAIN Game.regions |-> Game.regions[r]]
      /\ Game.known = {} /\ Game.bodies \in [Characters -> Nat] /\ \A id \in Characters: Game.bodies[id] = 0
  BY DEF Game
<1>7. Self \in Characters
  BY SelfAssumption DEF Characters
<1>8. IsGame(Game)
  BY <1>6, <1>7 DEF IsGame
<1>9. Forms'
  BY <1>1, <1>3, <1>8 DEF Forms
<1>10. ClientGoesOn'
  <2>1. Game.state # "panic"
    BY <1>8, InGames
  <2> QED
    BY <1>1, <1>3, <1>4, <2>1 DEF ClientGoesOn
<1>11. Waits'
  BY <1>1, <1>3 DEF Waits, At
<1>12. Homes'
  BY <1>1, <1>3, <1>4 DEF Homes
<1>13. Fresh'
  <2> SUFFICES ASSUME mirror' = Lobby PROVE Fresh'
    BY DEF Fresh
  <2>1. Game # Lobby
    BY <1>8, InGames
  <2>2. u # Self /\ mirror = Lobby
    BY <1>1, <2>1
  <2>3. center'[Self] = None
    BY <1>1, <1>2, <1>3, <2>2, SelfAssumption DEF Fresh, Types
  <2>4. \A e \in Range(queue'): e.user # Self
    BY <1>3, <1>4, <2>2 DEF Fresh
  <2>5. \A r \in Region: LevelOf(Self, r)' = "none"
    BY <1>3, <1>5, <2>2 DEF Fresh
  <2> QED
    BY <2>3, <2>4, <2>5 DEF Fresh
<1>14. ASSUME Sound' PROVE Agrees' /\ \A id \in Others \ strays': Alone(id)'
  <2>1. CASE u = Self
    <3>1. mirror' = Game /\ \A r \in Region: LevelOf(Self, r)' = "none"
      BY <1>1, <1>3, <1>5, <2>1 DEF Fresh
    <3>2. \A r \in Region: ~Full(r)'
      BY <3>1 DEF Full
    <3>3. Agrees'
      BY <1>6, <3>1, <3>2 DEF Agrees
    <3>4. \A id \in Others: Alone(id)'
      BY <1>6, <3>1, <3>2 DEF Alone, Others, Bit
    <3> QED
      BY <3>3, <3>4
  <2>2. CASE u # Self
    <3>1. mirror' = mirror
      BY <1>1, <2>2
    <3>2. Sound
      BY <1>1, <1>4, <1>14, <3>1 DEF Sound
    <3>3. Agrees /\ \A id \in Others \ strays: Alone(id)
      BY <3>2 DEF MirrorInv
    <3>4. \A r: Present(r)' = Present(r)
      BY <1>1 DEF Present
    <3> QED
      BY <1>1, <1>5, <3>1, <3>3, <3>4, Unmoved
  <2> QED
    BY <2>1, <2>2
<1> QED
  BY <1>2, <1>9, <1>10, <1>11, <1>12, <1>13, <1>14 DEF MirrorInv

\* What the other requests put into the queue is for their user only, and is
\* no player.
LEMMA OwnChanges ==
  ASSUME Types, Consistent, NEW u \in Users, NEW to \in Centers, NEW es,
         Brings(es, u, center[u], to), Single(es, PlayerOf(u)), Range(es) \cap PlayerOf(u) = {},
         Enqueue(es), center' = [center EXCEPT ![u] = to], regions' = regions, npcs' = npcs
  PROVE /\ crossed \subseteq crossed'
        /\ \A e \in Range(queue'): e \in Range(queue) \/ (e.user = u /\ e.change # "SetupPlayer")
<1>1. Range(queue') = Range(queue) \cup Range(es) /\ crossed \subseteq crossed'
  BY Enqueued
<1>2. \A e \in Range(es): e.user = u /\ e \in EntrySet
  <2>1. es \in Seq(EntrySet) /\ \A e \in Range(es): e.user = u
    BY DEF Brings
  <2>2. \A i \in DOMAIN es: es[i] \in EntrySet
    BY <2>1, LenProperties
  <2> QED
    BY <2>1, <2>2 DEF Range
<1>3. \A e \in Range(es): e.change # "SetupPlayer"
  BY <1>2 DEF PlayerOf
<1> QED
  BY <1>1, <1>2, <1>3

LEMMA LeaveQueues ==
  ASSUME RegionsInv, NEW u \in Users, Leave(u), u \in DOMAIN pc
  PROVE /\ crossed \subseteq crossed'
        /\ \A e \in Range(queue'): e \in Range(queue) \/ (e.user = u /\ e.change # "SetupPlayer")
<1> DEFINE c == center[u]
           es == Entries(u, Around(c), {}, c, None, c)
<1>1. /\ c # None /\ Ready /\ regions' = regions /\ npcs' = npcs
      /\ center' = [center EXCEPT ![u] = None] /\ Enqueue(es)
  BY DEF Leave, Request
<1>2. Types /\ Consistent
  BY <1>1 DEF RegionsInv, Ready
<1>3. c \in Region /\ None \in Centers
  BY <1>1, <1>2 DEF Types, Centers
<1>4. Brings(es, u, c, None) /\ Single(es, PlayerOf(u)) /\ Range(es) \cap PlayerOf(u) = {}
  BY <1>3, LeaveBrings
<1> HIDE DEF es
<1> QED
  BY <1>1, <1>2, <1>3, <1>4, OwnChanges

LEMMA UpdateSelfQueues ==
  ASSUME RegionsInv, NEW u \in Users, NEW cell \in Cell, UpdateSelf(u, cell)
  PROVE /\ crossed \subseteq crossed'
        /\ \A e \in Range(queue'): e \in Range(queue) \/ (e.user = u /\ e.change # "SetupPlayer")
        /\ \A v \in Users: v # u => center'[v] = center[v]
<1> DEFINE old == center[u]
           new == RegionOf(cell)
           es == Entries(u, Around(new), {}, old, new, new) \o
                 Entries(u, Around(old), {r \in Region : Level(r, new) # "none"}, old, new, old)
<1>1. old # None /\ Ready /\ regions' = regions /\ npcs' = npcs
  BY DEF UpdateSelf, Request
<1>2. Types /\ Consistent
  BY <1>1 DEF RegionsInv, Ready
<1>3. old \in Region /\ new \in Region /\ new \in Centers
  BY <1>1, <1>2, Places DEF Types, Centers
<1>4. CASE NearRegion(cell, old)
  BY <1>4 DEF UpdateSelf
<1>5. CASE ~NearRegion(cell, old)
  <2>1. center' = [center EXCEPT ![u] = new] /\ Enqueue(es)
    BY <1>5 DEF UpdateSelf
  <2>2. Brings(es, u, old, new) /\ Single(es, PlayerOf(u)) /\ Range(es) \cap PlayerOf(u) = {}
    BY <1>3, MoveBrings
  <2> HIDE DEF es, new
  <2>3. \A v \in Users: v # u => center'[v] = center[v]
    BY <1>2, <2>1 DEF Types
  <2> QED
    BY <1>1, <1>2, <1>3, <2>1, <2>2, <2>3, OwnChanges
<1> QED
  BY <1>4, <1>5

LEMMA MirrorUpdateSelfStep ==
  ASSUME MirrorInv, NEW u \in Users, NEW cell \in Cell, MirrorUpdateSelf(u, cell)
  PROVE MirrorInv'
<1>1. /\ UpdateSelf(u, cell) /\ mirror' = mirror /\ updates' = updates /\ strays' = strays
      /\ Ready /\ center[u] # None /\ place' = place /\ panicked' = panicked /\ regions' = regions
      /\ ticking' = ticking
      /\ pc' = (IF u \in DOMAIN pc THEN [pc EXCEPT ![u].target = cell] ELSE pc)
  BY DEF MirrorUpdateSelf, mirrorVars, UpdateSelf, Request
<1>2. RegionsInv /\ RegionsInv' /\ Types
  BY <1>1, UpdateSelfStep DEF MirrorInv, RegionsInv
<1>3. panicked = "no" /\ Waits /\ Homes /\ Fresh /\ Forms /\ ClientGoesOn
  BY <1>1 DEF MirrorInv, Ready
<1>4. /\ crossed \subseteq crossed'
      /\ \A e \in Range(queue'): e \in Range(queue) \/ (e.user = u /\ e.change # "SetupPlayer")
      /\ \A v \in Users: v # u => center'[v] = center[v]
  BY <1>1, <1>2, UpdateSelfQueues
<1>5. \A v, r: LevelOf(v, r)' = LevelOf(v, r)
  BY <1>1 DEF LevelOf
<1>6. DOMAIN pc' = DOMAIN pc /\ \A v \in DOMAIN pc: pc'[v].at = pc[v].at
  BY <1>1, <1>2 DEF Types
<1>7. Forms' /\ ClientGoesOn' /\ Waits'
  <2>1. Forms' /\ ClientGoesOn'
    BY <1>1, <1>3, <1>4, <1>6 DEF Forms, ClientGoesOn
  <2>2. \A v, r: At(v, r)' <=> At(v, r)
    BY <1>6 DEF At
  <2>3. Waits'
    BY <1>1, <1>3, <1>6, <2>2 DEF Waits
  <2> QED
    BY <2>1, <2>3
<1>8. Homes'
  BY <1>1, <1>3, <1>4 DEF Homes, Has
<1>9. Fresh'
  <2> SUFFICES ASSUME mirror' = Lobby PROVE Fresh'
    BY DEF Fresh
  <2>1. u # Self
    BY <1>1, <1>3 DEF Fresh
  <2> QED
    BY <1>1, <1>3, <1>4, <1>5, <2>1, SelfAssumption DEF Fresh
<1>10. ASSUME Sound' PROVE Agrees' /\ \A id \in Others \ strays': Alone(id)'
  <2>1. Sound
    BY <1>1, <1>4, <1>10 DEF Sound
  <2>2. Agrees /\ \A id \in Others \ strays: Alone(id)
    BY <2>1 DEF MirrorInv
  <2>3. \A r: Present(r)' = Present(r)
    BY <1>6 DEF Present
  <2> QED
    BY <1>1, <1>5, <2>2, <2>3, Unmoved
<1> QED
  BY <1>2, <1>7, <1>8, <1>9, <1>10 DEF MirrorInv

\* Without a step of the service, and at the end of a tick.
LEMMA MirrorStill ==
  ASSUME MirrorInv, RegionsInv',
         UNCHANGED <<pc, place, queue, regions, panicked, crossed, center>>, UNCHANGED mirrorVars,
         ticking' = ticking \/ ticking' = "no"
  PROVE MirrorInv'
<1>1. /\ mirror' = mirror /\ updates' = updates /\ strays' = strays /\ pc' = pc /\ place' = place
      /\ queue' = queue /\ regions' = regions /\ panicked' = panicked /\ crossed' = crossed
      /\ center' = center
  BY DEF mirrorVars
<1>2. \A v, r: LevelOf(v, r)' = LevelOf(v, r)
  BY <1>1 DEF LevelOf
<1>3. Forms' /\ ClientGoesOn'
  BY <1>1 DEF MirrorInv, Forms, ClientGoesOn
<1>4. panicked' = "no" => Waits' /\ Homes' /\ Fresh'
  BY <1>1, <1>2 DEF MirrorInv, Waits, At, Homes, Fresh
<1>5. ASSUME Sound' PROVE Agrees' /\ \A id \in Others \ strays': Alone(id)'
  <2>1. Sound
    BY <1>1, <1>5 DEF Sound
  <2>2. Agrees /\ \A id \in Others \ strays: Alone(id)
    BY <2>1 DEF MirrorInv
  <2>3. \A r: Present(r)' = Present(r)
    BY <1>1 DEF Present
  <2> QED
    BY <1>1, <1>2, <2>2, <2>3, Unmoved
<1> QED
  BY <1>3, <1>4, <1>5 DEF MirrorInv

LEMMA MirrorLeaveStep ==
  ASSUME MirrorInv, NEW u \in Users, MirrorLeave(u) PROVE MirrorInv'
<1> DEFINE f == RegionOf(pc[u].at)
           up == Exit(u, None)
<1>1. /\ Leave(u) /\ mirror' = (IF u = Self THEN Gone ELSE mirror) /\ strays' = strays
      /\ updates' = (IF u \in DOMAIN pc /\ f \in DOMAIN regions THEN Tell(updates, f, up) ELSE updates)
      /\ Ready /\ center[u] # None /\ regions' = regions /\ ticking' = ticking
      /\ center' = [center EXCEPT ![u] = None]
  BY DEF MirrorLeave, Leave, Request
<1>2. RegionsInv /\ RegionsInv' /\ Types
  BY <1>1, LeaveStep DEF MirrorInv, RegionsInv
<1>3. /\ panicked = "no" /\ ticking = "no" /\ Waits /\ Homes /\ Fresh /\ Forms /\ ClientGoesOn
      /\ Consistent
  BY <1>1 DEF MirrorInv, Ready, RegionsInv
<1>4. Gone.state # "panic" /\ ~InGame(Gone) /\ Gone # Lobby
  BY InGames DEF Gone, Lobby
<1>5. CASE u \notin DOMAIN pc
  <2>1. panicked' = "remove" /\ pc' = pc /\ crossed' = crossed /\ updates' = updates
    BY <1>1, <1>5 DEF Leave
  <2>2. Forms' /\ ClientGoesOn'
    BY <1>1, <1>3, <1>4, <2>1 DEF Forms, ClientGoesOn
  <2> QED
    BY <1>2, <2>1, <2>2 DEF MirrorInv, Sound
<1>6. CASE u \in DOMAIN pc
  <2>1. /\ place' = [place EXCEPT ![u] = pc[u].at] /\ pc' = Without(pc, u) /\ panicked' = panicked
    BY <1>1, <1>6 DEF Leave
  <2>2. /\ crossed \subseteq crossed'
        /\ \A e \in Range(queue'): e \in Range(queue) \/ (e.user = u /\ e.change # "SetupPlayer")
    BY <1>1, <1>2, <1>6, LeaveQueues
  <2>3. DOMAIN pc' = DOMAIN pc \ {u} /\ \A v \in DOMAIN pc': pc'[v] = pc[v]
    BY <2>1 DEF Without
  <2>4. f \in Region
    BY <1>2, <1>6, Places DEF Types
  <2>5. \A v, r: LevelOf(v, r)' = LevelOf(v, r)
    BY <1>1 DEF LevelOf
  <2>6. \A v, r: v # u => (At(v, r)' <=> At(v, r))
    BY <2>3 DEF At
  <2>7. \A r: At(u, r) <=> r = f
    BY <1>6 DEF At
  <2>8. up \in UpdateSet /\ up.kind = "exit" /\ up.id = u /\ up.other = None
    BY DEF Exit, UpdateSet, Characters
  <2> HIDE DEF f, up
  <2>9. \A r \in Region: ~Exits(updates[r], u) /\ (Enters(updates[r], u) => r = f)
    BY <1>3, <1>6, <2>7 DEF Waits
  <2>10. \A r \in Region: updates[r] \in Seq(UpdateSet)
    BY <1>3 DEF Forms
  <2>11. \A r \in Region: updates'[r] = IF r = f /\ f \in DOMAIN regions THEN Append(updates[r], up)
                                        ELSE updates[r]
    BY <1>1, <1>3, <1>6 DEF Tell, Forms
  <2>12. ASSUME NEW r \in Region
         PROVE /\ updates'[r] \in Seq(UpdateSet)
               /\ \A i \in 1 .. Len(updates'[r]): updates'[r][i] = up \/ \E j \in 1 .. Len(updates[r]): updates'[r][i] = updates[r][j]
               /\ \A id: /\ Enters(updates'[r], id) <=> Enters(updates[r], id)
                         /\ Exits(updates'[r], id) <=> Exits(updates[r], id) \/ (id = u /\ r = f /\ f \in DOMAIN regions)
                         /\ Paired(updates[r], id) => Paired(updates'[r], id)
    <3>1. CASE r = f /\ f \in DOMAIN regions
      <4>1. updates'[r] = Append(updates[r], up)
        BY <2>11, <3>1
      <4> QED
        BY <2>8, <2>9, <2>10, <3>1, <4>1, OneMore
    <3>2. CASE ~(r = f /\ f \in DOMAIN regions)
      BY <2>10, <2>11, <3>2
    <3> QED
      BY <3>1, <3>2
  <2>13. Forms'
    <3>1. updates' \in [Region -> Seq(UpdateSet)]
      <4>1. updates' = [updates EXCEPT ![f] = Append(updates[f], up)] \/ updates' = updates
        BY <1>1 DEF Tell
      <4>2. DOMAIN updates' = Region /\ updates' = [r \in Region |-> updates'[r]]
        BY <1>3, <4>1 DEF Forms
      <4> QED
        BY <2>12, <4>2
    <3>2. IsFiniteSet(DOMAIN pc')
      BY <1>3, <2>3, FS_Subset DEF Forms
    <3> QED
      BY <1>1, <1>3, <3>1, <3>2 DEF Forms
  <2>14. ClientGoesOn'
    BY <1>1, <1>3, <1>4, <2>2 DEF ClientGoesOn
  <2>15. Waits'
    <3>1. \A r \in Region: \A i \in 1 .. Len(updates'[r]):
            /\ updates'[r][i].kind \in {"enter", "exit"} /\ updates'[r][i].other = None
            /\ updates'[r][i].id \in Users
      BY <1>3, <2>8, <2>12 DEF Waits
    <3>2. \A r \in Region: r \notin DOMAIN regions' => updates'[r] = <<>>
      BY <1>1, <1>3, <2>11 DEF Waits
    <3>3. ASSUME NEW r \in Region, NEW id \in Users
          PROVE /\ Paired(updates'[r], id)
                /\ Exits(updates'[r], id) => id \notin DOMAIN pc'
                /\ Enters(updates'[r], id) /\ ~Exits(updates'[r], id) => At(id, r)'
      <4>1. Paired(updates'[r], id)
        BY <1>3, <2>12 DEF Waits
      <4>2. Exits(updates'[r], id) => id \notin DOMAIN pc'
        BY <1>3, <2>3, <2>12 DEF Waits
      <4>3. ASSUME Enters(updates'[r], id), ~Exits(updates'[r], id) PROVE At(id, r)'
        <5>1. Enters(updates[r], id) /\ ~Exits(updates[r], id)
          BY <2>12, <4>3
        <5>2. At(id, r)
          BY <1>3, <5>1 DEF Waits
        <5>3. id = u => r = f
          BY <2>7, <5>2
        <5>4. r \in DOMAIN regions
          BY <1>3, <5>1, NoneWait DEF Waits
        <5>5. id # u
          BY <2>12, <4>3, <5>3, <5>4
        <5> QED
          BY <2>6, <5>2, <5>5
      <4> QED
        BY <4>1, <4>2, <4>3
    <3>4. \A r, q \in Region, id \in Users: About(updates'[r], id) /\ About(updates'[q], id) => r = q
      <4>1. \A r \in Region: About(updates'[r], u) => r = f
        BY <2>9, <2>12 DEF About
      <4>2. \A r \in Region, id \in Users: id # u /\ About(updates'[r], id) => About(updates[r], id)
        BY <2>12 DEF About
      <4> QED
        BY <1>3, <4>1, <4>2 DEF Waits
    <3> QED
      BY <1>1, <1>3, <3>1, <3>2, <3>3, <3>4 DEF Waits
  <2>16. Homes'
    <3> SUFFICES ASSUME NEW v \in Users, NEW r \in Region, Has(queue', v, r, "SetupPlayer")
                 PROVE RegionOf(place'[v]) = r
      BY DEF Homes
    <3>1. Has(queue, v, r, "SetupPlayer")
      BY <2>2 DEF Has
    <3>2. v # u
      BY <1>3, <1>6, <3>1 DEF Consistent, Arriving
    <3>3. place'[v] = place[v]
      BY <1>2, <2>1, <3>2 DEF Types
    <3> QED
      BY <1>3, <3>1, <3>3 DEF Homes
  <2>17. Fresh'
    <3> SUFFICES ASSUME mirror' = Lobby PROVE Fresh'
      BY DEF Fresh
    <3>1. u # Self /\ mirror = Lobby
      BY <1>1, <1>4
    <3>2. center'[Self] = center[Self]
      BY <1>1, <1>2, <3>1, SelfAssumption DEF Types
    <3> QED
      BY <1>3, <2>2, <2>5, <3>1, <3>2 DEF Fresh
  <2>18. ASSUME Sound' PROVE Agrees' /\ \A id \in Others \ strays': Alone(id)'
    <3>1. u # Self /\ mirror' = mirror
      BY <1>1, <1>4, <2>18 DEF Sound
    <3>2. Sound
      BY <2>1, <2>2, <2>18, <3>1 DEF Sound
    <3>3. Agrees /\ (\A id \in Others \ strays: Alone(id)) /\ IsGame(mirror)
      <4>1. InGame(mirror)
        BY <3>2 DEF Sound
      <4> QED
        BY <1>3, <3>2, <4>1, InGames DEF MirrorInv, Forms
    <3>4. \A r \in Region: Full(r)' <=> Full(r)
      BY <2>5 DEF Full
    <3>5. \A r \in Region: Full(r) => r \in DOMAIN mirror.regions /\ r \in DOMAIN regions
      BY <3>3 DEF Full, Agrees, LevelOf
    <3>6. u \in Others
      BY <3>1, Names
    <3>7. \A r \in Region: \A id \in Others: Paired(updates[r], id) /\ Paired(updates'[r], id)
      <4> TAKE r \in Region
      <4> TAKE id \in Others
      <4>1. Paired(updates[r], id)
        BY <1>3, Names, NpcsStay DEF Waits
      <4> QED
        BY <2>12, <4>1
    <3>8. ASSUME NEW r \in Region, Full(r)
          PROVE /\ \A id \in Others: id \in Present(r) <=> /\ id \in mirror.regions[r] \/ Enters(updates[r], id)
                                                           /\ ~Exits(updates[r], id)
                /\ Shown(r)' = Present(r)'
      <4>1. mirror.regions[r] \in SUBSET Others
        BY <3>3, <3>5, <3>8 DEF IsGame
      <4>2. Shown(r) \in SUBSET Others /\ Shown(r)' \in SUBSET Others
        BY <2>10, <2>12, <3>1, <3>7, <4>1, ShownOf DEF Shown
      <4>3. \A id \in Others: id \in Shown(r) <=> (id \in mirror.regions[r] \/ Enters(updates[r], id)) /\ ~Exits(updates[r], id)
        BY <2>10, <3>7, <4>1, ShownOf DEF Shown
      <4>4. \A id \in Others: id \in Shown(r)' <=> (id \in mirror.regions[r] \/ Enters(updates'[r], id)) /\ ~Exits(updates'[r], id)
        BY <2>12, <3>1, <3>7, <4>1, ShownOf DEF Shown
      <4>5. Shown(r) = Present(r)
        BY <3>3, <3>8 DEF Agrees
      <4>6. Present(r)' \subseteq Others /\ Present(r) \subseteq Others
        <5>1. Npc(r) \in Others
          BY Names
        <5>2. DOMAIN pc \subseteq Users /\ DOMAIN pc' \subseteq Users
          BY <1>2, <2>3 DEF Types
        <5> QED
          BY <5>1, <5>2, Names DEF Present
      <4>7. \A id \in Others: id \in Present(r)' <=> id \in Present(r) /\ ~(id = u /\ r = f)
        <5>1. \A id \in Others: id \in Present(r) <=> At(id, r) \/ id = Npc(r)
          BY <1>2, PresentOf DEF Types
        <5>2. \A id \in Others: id \in Present(r)' <=> At(id, r)' \/ id = Npc(r)
          BY Names DEF Present, At, Others
        <5>3. ~At(u, r)' /\ u # Npc(r)
          BY <2>3, Names DEF At
        <5> QED
          BY <2>6, <2>7, <5>1, <5>2, <5>3
      <4>8. \A id \in Others: id \in Shown(r)' <=> id \in Present(r)'
        BY <2>12, <3>5, <3>8, <4>3, <4>4, <4>5, <4>7
      <4> QED
        BY <4>2, <4>3, <4>5, <4>6, <4>8
    <3>9. Agrees'
      <4>1. DOMAIN mirror'.regions = {r \in Region : LevelOf(Self, r)' # "none"}
        BY <2>5, <3>1, <3>3 DEF Agrees
      <4>2. \A r \in Region: Full(r)' => Shown(r)' = Present(r)'
        BY <3>4, <3>8
      <4>3. \A r \in Region: LevelOf(Self, r)' = "static" => mirror'.regions[r] = {}
        BY <2>5, <3>1, <3>3 DEF Agrees
      <4> QED
        BY <4>1, <4>2, <4>3 DEF Agrees
    <3>10. ASSUME NEW id \in Others \ strays' PROVE Alone(id)'
      <4>1. Alone(id)
        BY <1>1, <3>3
      <4>2. ASSUME NEW r \in Region, Full(r)
            PROVE /\ Enters(updates'[r], id) => id \notin mirror.regions[r]
                  /\ Exits(updates'[r], id) /\ ~Enters(updates'[r], id) => id \in mirror.regions[r]
        <5>1. Enters(updates'[r], id) => id \notin mirror.regions[r]
          BY <2>12, <4>1, <4>2 DEF Alone
        <5>2. ASSUME Exits(updates'[r], id), ~Enters(updates'[r], id), ~Exits(updates[r], id)
              PROVE id \in mirror.regions[r]
          <6>1. id = u /\ r = f /\ ~Enters(updates[r], id)
            BY <2>12, <5>2
          <6>2. id \in Present(r)
            <7>1. At(u, r)
              BY <2>7, <6>1
            <7> QED
              BY <1>2, <3>6, <6>1, <7>1, PresentOf DEF Types
          <6> QED
            BY <3>6, <3>8, <4>2, <6>1, <6>2
        <5>3. Exits(updates[r], id) /\ ~Enters(updates'[r], id) => id \in mirror.regions[r]
          BY <2>12, <4>1, <4>2 DEF Alone
        <5> QED
          BY <5>1, <5>2, <5>3
      <4> QED
        BY <3>1, <3>4, <4>1, <4>2 DEF Alone
    <3> QED
      BY <3>9, <3>10
  <2> QED
    BY <1>2, <2>13, <2>14, <2>15, <2>16, <2>17, <2>18 DEF MirrorInv
<1> QED
  BY <1>5, <1>6

-----------------------------------------------------------------------------
(* Changes of a region's level, to the client. *)

\* StaticSetup and StaticTeardown put a region there and take it away.
LEMMA RegionComes ==
  ASSUME NEW m, IsGame(m), NEW r \in Region
  PROVE LET n == StaticSetup(m, r) IN
        /\ IsGame(n) /\ DOMAIN n.regions = DOMAIN m.regions \cup {r}
        /\ n.regions[r] = {} /\ \A q \in DOMAIN m.regions: q # r => n.regions[q] = m.regions[q]
        /\ n.known = m.known /\ n.bodies = m.bodies
<1> DEFINE s == With(m.regions, r, {})
           n == [m EXCEPT !.regions = s]
<1>1. StaticSetup(m, r) = n
  BY DEF StaticSetup
<1>2. /\ DOMAIN s = DOMAIN m.regions \cup {r} /\ s = [q \in DOMAIN s |-> s[q]]
      /\ s[r] = {} /\ \A q \in DOMAIN m.regions: q # r => s[q] = m.regions[q]
  BY DEF With
<1> HIDE DEF s
<1>3. DOMAIN s \subseteq Region /\ \A q \in DOMAIN s: s[q] \subseteq Others
  BY <1>2 DEF IsGame
<1>4. IsGame(n) /\ n.regions = s /\ n.known = m.known /\ n.bodies = m.bodies
  BY <1>2, <1>3, Regioned
<1> QED
  BY <1>1, <1>2, <1>4

LEMMA RegionGoes ==
  ASSUME NEW m, IsGame(m), NEW r \in Region
  PROVE LET n == StaticTeardown(m, r) IN
        /\ r \notin DOMAIN m.regions => n = Panic
        /\ r \in DOMAIN m.regions =>
             /\ IsGame(n) /\ DOMAIN n.regions = DOMAIN m.regions \ {r}
             /\ \A q \in DOMAIN n.regions: n.regions[q] = m.regions[q]
             /\ n.known = m.known /\ n.bodies = m.bodies
<1> DEFINE s == Without(m.regions, r)
           n == [m EXCEPT !.regions = s]
<1>1. StaticTeardown(m, r) = IF r \in DOMAIN m.regions THEN n ELSE Panic
  BY DEF StaticTeardown
<1>2. /\ DOMAIN s = DOMAIN m.regions \ {r} /\ s = [q \in DOMAIN s |-> s[q]]
      /\ \A q \in DOMAIN s: s[q] = m.regions[q]
  BY DEF Without
<1> HIDE DEF s
<1>3. DOMAIN s \subseteq Region /\ \A q \in DOMAIN s: s[q] \subseteq Others
  BY <1>2 DEF IsGame
<1>4. IsGame(n) /\ n.regions = s /\ n.known = m.known /\ n.bodies = m.bodies
  BY <1>2, <1>3, Regioned
<1> QED
  BY <1>1, <1>2, <1>4

\* DynamicSetup and DynamicTeardown put characters there and take them away.
LEMMA CharactersCome ==
  ASSUME NEW m, IsGame(m), NEW r \in Region, NEW ids \in SUBSET Characters
  PROVE LET n == DynamicSetup(m, r, ids)
            new == ids \ {Self}
        IN /\ r \notin DOMAIN m.regions => n = Panic
           /\ r \in DOMAIN m.regions =>
                /\ IsGame(n) /\ DOMAIN n.regions = DOMAIN m.regions
                /\ n.regions[r] = m.regions[r] \cup new
                /\ \A q \in DOMAIN m.regions: q # r => n.regions[q] = m.regions[q]
                /\ n.known = m.known \cup new
                /\ \A id \in Characters: n.bodies[id] = m.bodies[id] + Bit(id \in new)
<1> DEFINE new == ids \ {Self}
           n == DynamicSetup(m, r, ids)
           in == m.regions[r] \cup new
           a == [m EXCEPT !.regions[r] = in]
           k == m.known \cup new
           b == [id \in Characters |-> IF id \in new THEN m.bodies[id] + 1 ELSE m.bodies[id]]
<1>1. CASE r \notin DOMAIN m.regions
  BY <1>1 DEF DynamicSetup
<1>2. CASE r \in DOMAIN m.regions
  <2>1. n = AddAll(a, new)
    BY <1>2 DEF DynamicSetup
  <2>2. new \subseteq Others
    BY DEF Others
  <2>3. in \in SUBSET Others
    BY <1>2, <2>2 DEF IsGame
  <2> HIDE DEF n, in
  <2>4. /\ IsGame(a) /\ DOMAIN a.regions = DOMAIN m.regions
        /\ a.regions[r] = in /\ \A q \in DOMAIN m.regions: q # r => a.regions[q] = m.regions[q]
        /\ a.known = m.known /\ a.bodies = m.bodies
    BY <1>2, <2>3, OneRegion
  <2> HIDE DEF a, new
  <2>5. n = [a EXCEPT !.known = k, !.bodies = b]
    BY <2>1, <2>4 DEF AddAll
  <2>6. /\ b \in [Characters -> Nat]
        /\ \A id \in Characters: b[id] = m.bodies[id] + Bit(id \in new)
    <3>1. \A id \in Characters: m.bodies[id] \in Nat
      BY DEF IsGame
    <3> QED
      BY <3>1 DEF Bit
  <2> HIDE DEF b
  <2>7. n = [state |-> "game", regions |-> a.regions, known |-> k, bodies |-> b]
    <3> HIDE DEF k
    <3>1. ASSUME NEW x, IsGame(x)
          PROVE [x EXCEPT !.known = k, !.bodies = b]
                  = [state |-> "game", regions |-> x.regions, known |-> k, bodies |-> b]
      BY <3>1, Rebuilt
    <3> QED
      BY <2>4, <2>5, <3>1
  <2>8. k \in SUBSET Others
    BY <2>2 DEF IsGame
  <2>9. b[Self] = 0 /\ \A id \in k: b[id] > 0
    <3>1. Self \in Characters /\ Self \notin new
      BY SelfAssumption DEF Characters, new
    <3>2. m.bodies[Self] = 0 /\ \A id \in m.known: m.bodies[id] > 0
      BY DEF IsGame
    <3>3. \A id \in k: id \in Characters
      BY <2>8 DEF Others
    <3>4. \A id \in Characters: m.bodies[id] \in Nat
      BY DEF IsGame
    <3> QED
      BY <2>6, <3>1, <3>2, <3>3, <3>4 DEF Bit
  <2> HIDE DEF k
  <2>10. IsGame(n) /\ n.regions = a.regions /\ n.known = k /\ n.bodies = b
    BY <2>4, <2>6, <2>7, <2>8, <2>9, Recounted
  <2> QED
    BY <1>2, <2>4, <2>6, <2>10 DEF n, new, k, in
<1> QED
  BY <1>1, <1>2

LEMMA CharactersGo ==
  ASSUME NEW m, IsGame(m), NEW r \in Region
  PROVE LET n == DynamicTeardown(m, r)
            old == m.regions[r]
        IN /\ r \notin DOMAIN m.regions \/ ~(old \subseteq m.known) => n = Panic
           /\ r \in DOMAIN m.regions /\ old \subseteq m.known =>
                /\ IsGame(n) /\ DOMAIN n.regions = DOMAIN m.regions
                /\ n.regions[r] = {}
                /\ \A q \in DOMAIN m.regions: q # r => n.regions[q] = m.regions[q]
                /\ n.known = m.known \ old
                /\ \A id \in Characters: n.bodies[id] = m.bodies[id] - Bit(id \in old)
<1> DEFINE old == m.regions[r]
           n == DynamicTeardown(m, r)
           k == m.known \ old
           b == [id \in Characters |-> IF id \in old THEN m.bodies[id] - 1 ELSE m.bodies[id]]
           a == [m EXCEPT !.known = k, !.bodies = b]
<1>1. CASE r \notin DOMAIN m.regions \/ ~(old \subseteq m.known)
  BY <1>1 DEF DynamicTeardown
<1>2. CASE r \in DOMAIN m.regions /\ old \subseteq m.known
  <2>1. n = [a EXCEPT !.regions[r] = {}]
    BY <1>2 DEF DynamicTeardown
  <2> HIDE DEF n
  <2>2. /\ b \in [Characters -> Nat]
        /\ \A id \in Characters: b[id] = m.bodies[id] - Bit(id \in old)
    <3>1. \A id \in Characters: m.bodies[id] \in Nat
      BY DEF IsGame
    <3>2. \A id \in old: m.bodies[id] > 0
      BY <1>2 DEF IsGame
    <3>3. \A id \in Characters: id \in old => m.bodies[id] - 1 \in Nat
      BY <3>1, <3>2
    <3> HIDE DEF old
    <3> QED
      BY <3>1, <3>3 DEF Bit
  <2> HIDE DEF b
  <2>3. a = [state |-> "game", regions |-> m.regions, known |-> k, bodies |-> b]
    BY Rebuilt
  <2> HIDE DEF a
  <2>4. k \in SUBSET Others
    BY DEF IsGame
  <2>5. b[Self] = 0 /\ \A id \in k: b[id] > 0
    <3>1. Self \in Characters /\ Self \notin old
      BY <1>2, SelfAssumption DEF Characters, Others, IsGame
    <3>2. m.bodies[Self] = 0 /\ \A id \in m.known: m.bodies[id] > 0
      BY DEF IsGame
    <3>3. \A id \in k: id \in Characters /\ id \notin old
      BY <2>4 DEF Others
    <3>4. \A id \in Characters: m.bodies[id] \in Nat
      BY DEF IsGame
    <3> HIDE DEF old
    <3> QED
      BY <2>2, <3>1, <3>2, <3>3, <3>4 DEF Bit
  <2> HIDE DEF k
  <2>6. IsGame(a) /\ a.regions = m.regions /\ a.known = k /\ a.bodies = b
    BY <2>2, <2>3, <2>4, <2>5, Recounted
  <2>7. r \in DOMAIN a.regions
    BY <1>2, <2>6
  <2>8. LET c == [a EXCEPT !.regions[r] = {}] IN
        /\ IsGame(c) /\ DOMAIN c.regions = DOMAIN a.regions
        /\ c.regions[r] = {} /\ \A q \in DOMAIN a.regions: q # r => c.regions[q] = a.regions[q]
        /\ c.known = a.known /\ c.bodies = a.bodies
    <3>1. ASSUME NEW x, IsGame(x), r \in DOMAIN x.regions
          PROVE LET c == [x EXCEPT !.regions[r] = {}] IN
                /\ IsGame(c) /\ DOMAIN c.regions = DOMAIN x.regions
                /\ c.regions[r] = {} /\ \A q \in DOMAIN x.regions: q # r => c.regions[q] = x.regions[q]
                /\ c.known = x.known /\ c.bodies = x.bodies
      <4> DEFINE none == {}
      <4>1. none \in SUBSET Others
        OBVIOUS
      <4> HIDE DEF none
      <4>2. LET c == [x EXCEPT !.regions[r] = none] IN
            /\ IsGame(c) /\ DOMAIN c.regions = DOMAIN x.regions
            /\ c.regions[r] = none /\ \A q \in DOMAIN x.regions: q # r => c.regions[q] = x.regions[q]
            /\ c.known = x.known /\ c.bodies = x.bodies
        BY <3>1, <4>1, OneRegion
      <4> QED
        BY <4>2 DEF none
    <3> QED
      BY <2>6, <2>7, <3>1
  <2> QED
    BY <1>2, <2>1, <2>2, <2>6, <2>8 DEF n, k
<1> QED
  BY <1>1, <1>2

\* While changes are applied, the regions have only new players to tell of.
LEMMA OnlyPlayers ==
  ASSUME Forms, Waits, ticking # "no", NEW r \in Region
  PROVE /\ \A id: ~Exits(updates[r], id)
        /\ \A id: Enters(updates[r], id) => id \in Users /\ At(id, r)
        /\ \A id \in Others: Paired(updates[r], id)
        /\ \A ids \in SUBSET Others: /\ Told(ids, updates[r]) \in SUBSET Others
                                     /\ \A id \in Others: id \in Told(ids, updates[r])
                                          <=> id \in ids \/ Enters(updates[r], id)
<1>1. \A i \in 1 .. Len(updates[r]): updates[r][i].kind # "exit" /\ updates[r][i].id \in Users
  BY DEF Waits
<1>2. \A id: ~Exits(updates[r], id)
  BY <1>1 DEF Exits, ExitsBy
<1>3. \A id: Enters(updates[r], id) => id \in Users
  BY <1>1 DEF Enters, EntersBy
<1>4. \A id: Enters(updates[r], id) => At(id, r)
  BY <1>2, <1>3 DEF Waits
<1>5. \A id \in Others: Paired(updates[r], id)
  BY Names, NpcsStay DEF Waits
<1>6. updates[r] \in Seq(UpdateSet)
  BY DEF Forms
<1> QED
  BY <1>2, <1>3, <1>4, <1>5, <1>6, ShownOf

\* The user comes to observe a region ...
LEMMA StaticCame ==
  ASSUME IsGame(mirror), Agrees, NEW r \in Region,
         \A s \in Region: s # r => LevelOf(Self, s)' = LevelOf(Self, s) /\ updates'[s] = updates[s],
         pc' = pc, LevelOf(Self, r) = "none", LevelOf(Self, r)' = "static",
         mirror' = StaticSetup(mirror, r)
  PROVE IsGame(mirror') /\ Agrees' /\ \A id \in Others: Alone(id) => Alone(id)'
<1>1. /\ IsGame(mirror') /\ DOMAIN mirror'.regions = DOMAIN mirror.regions \cup {r}
      /\ mirror'.regions[r] = {}
      /\ \A q \in DOMAIN mirror.regions: q # r => mirror'.regions[q] = mirror.regions[q]
      /\ mirror'.known = mirror.known /\ mirror'.bodies = mirror.bodies
  BY RegionComes
<1>2. DOMAIN mirror.regions = {s \in Region : LevelOf(Self, s) # "none"} /\ r \notin DOMAIN mirror.regions
  BY DEF Agrees
<1>3. \A s \in Region: Full(s)' => Full(s) /\ s # r /\ s \in DOMAIN mirror.regions
  BY <1>2 DEF Full
<1>4. \A s \in Region: Full(s)' => Shown(s)' = Present(s)'
  BY <1>1, <1>3 DEF Agrees, Shown, Present
<1>5. \A s \in Region: LevelOf(Self, s)' = "static" => mirror'.regions[s] = {}
  BY <1>1, <1>2 DEF Agrees
<1>6. DOMAIN mirror'.regions = {s \in Region : LevelOf(Self, s)' # "none"}
  BY <1>1, <1>2
<1>7. Agrees'
  BY <1>4, <1>5, <1>6 DEF Agrees
<1>8. ASSUME NEW id \in Others, Alone(id) PROVE Alone(id)'
  <2>1. \A q: q \in DOMAIN mirror'.regions /\ id \in mirror'.regions[q]
              <=> q \in DOMAIN mirror.regions /\ id \in mirror.regions[q]
    BY <1>1, <1>2
  <2>2. \A s \in Region: Full(s)' => updates'[s] = updates[s] /\ mirror'.regions[s] = mirror.regions[s] /\ Full(s)
    BY <1>1, <1>3
  <2> QED
    BY <1>1, <1>8, <2>1, <2>2 DEF Alone
<1> QED
  BY <1>1, <1>7, <1>8

\* ... and no longer does.
LEMMA StaticWent ==
  ASSUME IsGame(mirror), Agrees, NEW r \in Region,
         \A s \in Region: s # r => LevelOf(Self, s)' = LevelOf(Self, s) /\ updates'[s] = updates[s],
         pc' = pc, LevelOf(Self, r) = "static", LevelOf(Self, r)' = "none",
         mirror' = StaticTeardown(mirror, r)
  PROVE IsGame(mirror') /\ Agrees' /\ \A id \in Others: Alone(id) => Alone(id)'
<1>1. DOMAIN mirror.regions = {s \in Region : LevelOf(Self, s) # "none"} /\ r \in DOMAIN mirror.regions
      /\ mirror.regions[r] = {}
  BY DEF Agrees
<1>2. /\ IsGame(mirror') /\ DOMAIN mirror'.regions = DOMAIN mirror.regions \ {r}
      /\ \A q \in DOMAIN mirror'.regions: mirror'.regions[q] = mirror.regions[q]
      /\ mirror'.known = mirror.known /\ mirror'.bodies = mirror.bodies
  BY <1>1, RegionGoes
<1>3. DOMAIN mirror'.regions = {s \in Region : LevelOf(Self, s)' # "none"}
  BY <1>1, <1>2
<1>4. \A s \in Region: Full(s)' => Full(s) /\ s # r /\ s \in DOMAIN mirror'.regions
  BY <1>3 DEF Full
<1>5. \A s \in Region: Full(s)' => Shown(s)' = Present(s)'
  BY <1>2, <1>4 DEF Agrees, Shown, Present
<1>6. \A s \in Region: LevelOf(Self, s)' = "static" => mirror'.regions[s] = {}
  <2> TAKE s \in Region
  <2> HAVE LevelOf(Self, s)' = "static"
  <2>1. s # r /\ s \in DOMAIN mirror'.regions /\ LevelOf(Self, s) = "static"
    BY <1>3
  <2> QED
    BY <1>2, <2>1 DEF Agrees
<1>7. Agrees'
  BY <1>3, <1>5, <1>6 DEF Agrees
<1>8. ASSUME NEW id \in Others, Alone(id) PROVE Alone(id)'
  <2>1. \A q: q \in DOMAIN mirror'.regions /\ id \in mirror'.regions[q]
              <=> q \in DOMAIN mirror.regions /\ id \in mirror.regions[q]
    BY <1>1, <1>2
  <2>2. \A s \in Region: Full(s)' => updates'[s] = updates[s] /\ mirror'.regions[s] = mirror.regions[s] /\ Full(s)
    BY <1>2, <1>4
  <2> QED
    BY <1>2, <1>8, <2>1, <2>2 DEF Alone
<1> QED
  BY <1>2, <1>7, <1>8

\* The user comes to observe the characters of a region: those announced may be
\* told of again ...
LEMMA DynamicCame ==
  ASSUME IsGame(mirror), Agrees, Forms, Waits, Types, ticking # "no", NEW r \in Region,
         \A s \in Region: s # r => LevelOf(Self, s)' = LevelOf(Self, s),
         \A s \in Region: updates'[s] = updates[s],
         pc' = pc, LevelOf(Self, r) = "static", LevelOf(Self, r)' = "full",
         mirror' = DynamicSetup(mirror, r, {Npc(r)} \cup {u \in DOMAIN pc : RegionOf(pc[u].at) = r})
  PROVE IsGame(mirror') /\ Agrees' /\ \A id \in Others \ Announced(r): Alone(id) => Alone(id)'
<1> DEFINE ids == {Npc(r)} \cup {u \in DOMAIN pc : RegionOf(pc[u].at) = r}
<1>1. DOMAIN mirror.regions = {s \in Region : LevelOf(Self, s) # "none"} /\ r \in DOMAIN mirror.regions
      /\ mirror.regions[r] = {}
  BY DEF Agrees
<1>2. ids \in SUBSET Characters /\ ids \ {Self} = Present(r)
  <2>1. Npc(r) \in Characters /\ Npc(r) # Self
    BY Names DEF Characters
  <2>2. DOMAIN pc \subseteq Characters
    BY DEF Types, Characters
  <2> QED
    BY <2>1, <2>2 DEF Present
<1>3. mirror' = DynamicSetup(mirror, r, ids)
  OBVIOUS
<1> HIDE DEF ids
<1>4. /\ IsGame(mirror') /\ DOMAIN mirror'.regions = DOMAIN mirror.regions
      /\ mirror'.regions[r] = mirror.regions[r] \cup Present(r)
      /\ \A q \in DOMAIN mirror.regions: q # r => mirror'.regions[q] = mirror.regions[q]
      /\ mirror'.known = mirror.known \cup Present(r)
      /\ \A id \in Characters: mirror'.bodies[id] = mirror.bodies[id] + Bit(id \in Present(r))
  <2> DEFINE new == ids \ {Self}
  <2>1. /\ IsGame(mirror') /\ DOMAIN mirror'.regions = DOMAIN mirror.regions
        /\ mirror'.regions[r] = mirror.regions[r] \cup new
        /\ \A q \in DOMAIN mirror.regions: q # r => mirror'.regions[q] = mirror.regions[q]
        /\ mirror'.known = mirror.known \cup new
        /\ \A id \in Characters: mirror'.bodies[id] = mirror.bodies[id] + Bit(id \in new)
    <3>1. LET n == DynamicSetup(mirror, r, ids) IN
          /\ IsGame(n) /\ DOMAIN n.regions = DOMAIN mirror.regions
          /\ n.regions[r] = mirror.regions[r] \cup new
          /\ \A q \in DOMAIN mirror.regions: q # r => n.regions[q] = mirror.regions[q]
          /\ n.known = mirror.known \cup new
          /\ \A id \in Characters: n.bodies[id] = mirror.bodies[id] + Bit(id \in new)
      <4>1. ids \in SUBSET Characters
        BY <1>2
      <4> QED
        BY <1>1, <4>1, CharactersCome
    <3> QED
      BY <1>3, <3>1
  <2>2. new = Present(r)
    BY <1>2
  <2> HIDE DEF new
  <2> QED
    BY <2>1, <2>2
<1>5. mirror'.regions[r] = Present(r)
  BY <1>1, <1>4
<1>6. DOMAIN mirror'.regions = {s \in Region : LevelOf(Self, s)' # "none"}
  BY <1>1, <1>4
<1>7. \A s \in Region: Full(s)' <=> Full(s) \/ s = r
  BY DEF Full
<1>8. \A s \in Region: Full(s) => s \in DOMAIN mirror.regions /\ s # r
  BY <1>1 DEF Full
<1>9. Present(r) \in SUBSET Others /\ \A id \in Others: id \in Present(r) <=> At(id, r) \/ id = Npc(r)
  BY PresentOf DEF Types
<1>10. Shown(r)' = Present(r)'
  <2>1. Told(Present(r), updates[r]) = Present(r)
    <3>1. \A id: Enters(updates[r], id) => At(id, r)
      BY OnlyPlayers
    <3>2. /\ Told(Present(r), updates[r]) \in SUBSET Others
          /\ \A id \in Others: id \in Told(Present(r), updates[r]) <=> id \in Present(r) \/ Enters(updates[r], id)
      BY <1>9, OnlyPlayers
    <3> QED
      BY <1>9, <3>1, <3>2
  <2> QED
    BY <1>5, <2>1 DEF Shown, Present
<1>11. \A s \in Region: Full(s)' => Shown(s)' = Present(s)'
  <2>1. \A s \in Region: Full(s) => Shown(s)' = Present(s)'
    BY <1>4, <1>8 DEF Agrees, Shown, Present
  <2> QED
    BY <1>7, <1>10, <2>1
<1>12. \A s \in Region: LevelOf(Self, s)' = "static" => mirror'.regions[s] = {}
  <2> TAKE s \in Region
  <2> HAVE LevelOf(Self, s)' = "static"
  <2>1. s # r /\ s \in DOMAIN mirror.regions /\ LevelOf(Self, s) = "static"
    BY <1>1
  <2> QED
    BY <1>4, <2>1 DEF Agrees
<1>13. Agrees'
  BY <1>6, <1>11, <1>12 DEF Agrees
<1>14. ASSUME NEW id \in Others \ Announced(r), Alone(id) PROVE Alone(id)'
  <2>1. id \in Characters /\ id # Self
    BY DEF Others
  <2>2. \A s \in Region: ~Exits(updates[s], id)
    BY OnlyPlayers
  <2>3. ~Enters(updates[r], id)
    <3> SUFFICES ASSUME NEW i \in 1 .. Len(updates[r]), updates[r][i].kind = "enter", updates[r][i].id = id
                 PROVE FALSE
      BY DEF Enters, EntersBy
    <3>1. updates[r][i] \in Range(updates[r])
      <4>1. updates[r] \in Seq(UpdateSet)
        BY DEF Forms
      <4> QED
        BY <4>1, LenProperties DEF Range
    <3> QED
      BY <1>14, <2>1, <3>1 DEF Announced
  <2>4. id \in Present(r) => \A q \in DOMAIN mirror.regions: id \notin mirror.regions[q]
    <3> SUFFICES ASSUME id \in Present(r), NEW q \in DOMAIN mirror.regions, id \in mirror.regions[q]
                 PROVE FALSE
      OBVIOUS
    <3>1. q \in Region /\ Full(q) /\ q # r
      <4>1. q \in Region /\ LevelOf(Self, q) # "none" /\ LevelOf(Self, q) # "static"
        BY <1>1 DEF Agrees
      <4> QED
        BY <1>8, <4>1, LevelType DEF Levels, Full
    <3>2. mirror.regions[q] \in SUBSET Others
      BY DEF IsGame
    <3>3. id \in Shown(q)
      BY <3>1, <3>2, OnlyPlayers DEF Shown
    <3>4. id \in Present(q)
      BY <3>1, <3>3 DEF Agrees
    <3>5. At(id, q) \/ id = Npc(q)
      BY <3>1, <3>4, PresentOf DEF Types
    <3>6. DOMAIN pc \subseteq Users
      BY DEF Types
    <3> QED
      BY <1>9, <3>1, <3>5, <3>6, Names DEF At
  <2>5. mirror'.bodies[id] = Bit(id \in mirror'.known)
    <3>1. mirror.bodies[id] = Bit(id \in mirror.known)
      BY <1>14 DEF Alone
    <3>2. id \in Present(r) => id \notin mirror.known
      BY <1>14, <2>4 DEF Alone
    <3>3. mirror'.bodies[id] = mirror.bodies[id] + Bit(id \in Present(r))
      BY <1>4, <2>1
    <3>4. id \in mirror'.known <=> id \in mirror.known \/ id \in Present(r)
      BY <1>4
    <3> QED
      BY <3>1, <3>2, <3>3, <3>4 DEF Bit
  <2>6. \A s, q \in DOMAIN mirror'.regions: id \in mirror'.regions[s] /\ id \in mirror'.regions[q] => s = q
    BY <1>4, <1>5, <1>14, <2>4 DEF Alone
  <2>7. id \in mirror'.known <=> \E q \in DOMAIN mirror'.regions: id \in mirror'.regions[q]
    <3>1. (\E q \in DOMAIN mirror'.regions: id \in mirror'.regions[q])
          <=> id \in Present(r) \/ \E q \in DOMAIN mirror.regions: id \in mirror.regions[q]
      BY <1>1, <1>4, <1>5
    <3> QED
      BY <1>4, <1>14, <3>1 DEF Alone
  <2>8. \A s \in Region: Full(s)' =>
          /\ Enters(updates'[s], id) => id \notin mirror'.regions[s]
          /\ Exits(updates'[s], id) /\ ~Enters(updates'[s], id) => id \in mirror'.regions[s]
    <3>1. \A s \in Region: s # r /\ Full(s)' => (Enters(updates[s], id) => id \notin mirror'.regions[s])
      BY <1>4, <1>7, <1>8, <1>14 DEF Alone
    <3> QED
      BY <2>2, <2>3, <3>1
  <2> QED
    BY <2>5, <2>6, <2>7, <2>8 DEF Alone
<1> QED
  BY <1>4, <1>13, <1>14

\* ... and no longer does.
LEMMA DynamicWent ==
  ASSUME IsGame(mirror), Agrees, NEW r \in Region,
         \A s \in Region: s # r => LevelOf(Self, s)' = LevelOf(Self, s) /\ updates'[s] = updates[s],
         pc' = pc, LevelOf(Self, r) = "full", LevelOf(Self, r)' = "static",
         mirror' = DynamicTeardown(mirror, r)
  PROVE /\ (\A id \in Others: Alone(id)) => mirror' # Panic
        /\ mirror' # Panic => IsGame(mirror') /\ Agrees' /\ \A id \in Others: Alone(id) => Alone(id)'
<1>1. DOMAIN mirror.regions = {s \in Region : LevelOf(Self, s) # "none"} /\ r \in DOMAIN mirror.regions
  BY DEF Agrees
<1>2. mirror.regions[r] \subseteq Others
  BY <1>1 DEF IsGame
<1>3. /\ ~(mirror.regions[r] \subseteq mirror.known) => mirror' = Panic
      /\ mirror.regions[r] \subseteq mirror.known =>
           /\ IsGame(mirror') /\ DOMAIN mirror'.regions = DOMAIN mirror.regions
           /\ mirror'.regions[r] = {}
           /\ \A q \in DOMAIN mirror.regions: q # r => mirror'.regions[q] = mirror.regions[q]
           /\ mirror'.known = mirror.known \ mirror.regions[r]
           /\ \A id \in Characters: mirror'.bodies[id] = mirror.bodies[id] - Bit(id \in mirror.regions[r])
  BY <1>1, CharactersGo
<1>4. ASSUME \A id \in Others: Alone(id) PROVE mirror' # Panic
  <2>1. \A id \in mirror.regions[r]: id \in mirror.known
    BY <1>1, <1>2, <1>4 DEF Alone
  <2> QED
    BY <1>3, <2>1, InGames
<1>5. ASSUME mirror' # Panic PROVE IsGame(mirror') /\ Agrees' /\ \A id \in Others: Alone(id) => Alone(id)'
  <2>1. /\ IsGame(mirror') /\ DOMAIN mirror'.regions = DOMAIN mirror.regions
        /\ mirror'.regions[r] = {}
        /\ \A q \in DOMAIN mirror.regions: q # r => mirror'.regions[q] = mirror.regions[q]
        /\ mirror'.known = mirror.known \ mirror.regions[r]
        /\ \A id \in Characters: mirror'.bodies[id] = mirror.bodies[id] - Bit(id \in mirror.regions[r])
    BY <1>3, <1>5
  <2>2. DOMAIN mirror'.regions = {s \in Region : LevelOf(Self, s)' # "none"}
    BY <1>1, <2>1
  <2>3. \A s \in Region: Full(s)' => Full(s) /\ s # r /\ s \in DOMAIN mirror.regions
    BY <1>1 DEF Full
  <2>4. \A s \in Region: Full(s)' => Shown(s)' = Present(s)'
    BY <2>1, <2>3 DEF Agrees, Shown, Present
  <2>5. \A s \in Region: LevelOf(Self, s)' = "static" => mirror'.regions[s] = {}
    <3> TAKE s \in Region
    <3> HAVE LevelOf(Self, s)' = "static"
    <3>1. CASE s = r
      BY <2>1, <3>1
    <3>2. CASE s # r
      <4>1. s \in DOMAIN mirror.regions /\ LevelOf(Self, s) = "static"
        BY <1>1, <3>2
      <4> QED
        BY <2>1, <3>2, <4>1 DEF Agrees
    <3> QED
      BY <3>1, <3>2
  <2>6. Agrees'
    BY <2>2, <2>4, <2>5 DEF Agrees
  <2>7. ASSUME NEW id \in Others, Alone(id) PROVE Alone(id)'
    <3>1. id \in Characters
      BY DEF Others
    <3>2. /\ \A s, q \in DOMAIN mirror.regions: id \in mirror.regions[s] /\ id \in mirror.regions[q] => s = q
          /\ id \in mirror.known <=> \E s \in DOMAIN mirror.regions: id \in mirror.regions[s]
          /\ mirror.bodies[id] = Bit(id \in mirror.known)
      BY <2>7 DEF Alone
    <3>3. mirror'.bodies[id] = Bit(id \in mirror'.known)
      <4>1. id \in mirror.regions[r] => id \in mirror.known
        BY <1>1, <3>2
      <4>2. mirror'.bodies[id] = mirror.bodies[id] - Bit(id \in mirror.regions[r])
        BY <2>1, <3>1
      <4>3. id \in mirror'.known <=> id \in mirror.known /\ id \notin mirror.regions[r]
        BY <2>1
      <4> QED
        BY <3>2, <4>1, <4>2, <4>3 DEF Bit
    <3>4. id \in mirror'.known <=> \E q \in DOMAIN mirror'.regions: id \in mirror'.regions[q]
      BY <1>1, <2>1, <3>2
    <3>5. \A s, q \in DOMAIN mirror'.regions: id \in mirror'.regions[s] /\ id \in mirror'.regions[q] => s = q
      BY <2>1, <3>2
    <3>6. \A s \in Region: Full(s)' => updates'[s] = updates[s] /\ mirror'.regions[s] = mirror.regions[s] /\ Full(s)
      BY <2>1, <2>3
    <3> QED
      BY <2>7, <3>3, <3>4, <3>5, <3>6 DEF Alone
  <2> QED
    BY <2>1, <2>6, <2>7
<1> QED
  BY <1>4, <1>5

\* A player comes to a region.
LEMMA PlayerCame ==
  ASSUME IsGame(mirror), Agrees, Forms, Waits, Types, ticking # "no",
         NEW u \in Users, u \notin DOMAIN pc, NEW r \in Region, RegionOf(place[u]) = r,
         pc' = With(pc, u, [at |-> place[u], target |-> place[u]]), mirror' = mirror,
         \A s \in Region: /\ LevelOf(Self, s)' = LevelOf(Self, s)
                          /\ updates'[s] = IF s = r THEN Append(updates[s], Entered(u, None)) ELSE updates[s]
  PROVE Agrees' /\ \A id \in Others: Alone(id) => Alone(id)'
<1> DEFINE up == Entered(u, None)
           t == Append(updates[r], up)
<1>1. up \in UpdateSet /\ up.kind = "enter" /\ up.id = u
  BY DEF Entered, UpdateSet, Characters
<1> HIDE DEF up
<1>2. \A s \in Region: ~Enters(updates[s], u) /\ ~Exits(updates[s], u)
  BY OnlyPlayers DEF At
<1>3. /\ t \in Seq(UpdateSet)
      /\ \A id: /\ Enters(t, id) <=> Enters(updates[r], id) \/ id = u
                /\ ~Exits(t, id)
      /\ \A id \in Others: Paired(t, id)
  <2>1. updates[r] \in Seq(UpdateSet)
    BY DEF Forms
  <2>2. /\ t \in Seq(UpdateSet)
        /\ \A id: /\ Enters(t, id) <=> Enters(updates[r], id) \/ (up.kind = "enter" /\ up.id = id)
                  /\ Exits(t, id) <=> Exits(updates[r], id) \/ (up.kind = "exit" /\ up.id = id)
        /\ \A id: /\ Paired(updates[r], id)
                  /\ up.id = id => /\ up.kind = "enter" => ~About(updates[r], id)
                                   /\ up.kind = "exit" => ~Exits(updates[r], id)
                  => Paired(t, id)
    BY <1>1, <2>1, OneMore
  <2>3. /\ \A id: ~Exits(updates[r], id)
        /\ \A id \in Others: Paired(updates[r], id)
    BY OnlyPlayers
  <2>4. ~About(updates[r], u)
    BY <1>2 DEF About
  <2> HIDE DEF t
  <2> QED
    BY <1>1, <2>2, <2>3, <2>4
<1>4. \A s \in Region: updates'[s] = IF s = r THEN t ELSE updates[s]
  BY DEF up
<1> HIDE DEF t
<1>5. \A s \in Region: Full(s)' <=> Full(s)
  BY DEF Full
<1>6. \A s \in Region: Full(s) => s \in DOMAIN mirror.regions /\ mirror.regions[s] \in SUBSET Others
  BY DEF Full, Agrees, IsGame
<1>7. DOMAIN pc' = DOMAIN pc \cup {u} /\ pc'[u].at = place[u] /\ \A v \in DOMAIN pc: pc'[v] = pc[v]
  BY DEF With
<1>8. \A id, s: At(id, s)' <=> At(id, s) \/ (id = u /\ s = r)
  BY <1>7 DEF At
<1>9. \A s \in Region: \A id \in Others: id \in Present(s) <=> At(id, s) \/ id = Npc(s)
  BY PresentOf DEF Types
<1>10. \A s \in Region: \A id \in Others: id \in Present(s)' <=> At(id, s)' \/ id = Npc(s)
  BY Names DEF Present, At, Others
<1>11. \A s \in Region: Present(s)' \subseteq Others
  BY <1>7, Names DEF Present, Types
<1>12. ASSUME NEW s \in Region, Full(s) PROVE Shown(s)' = Present(s)'
  <2>1. /\ Shown(s) \in SUBSET Others
        /\ \A id \in Others: id \in Shown(s) <=> id \in mirror.regions[s] \/ Enters(updates[s], id)
    BY <1>6, <1>12, OnlyPlayers DEF Shown
  <2>2. Shown(s) = Present(s)
    BY <1>12 DEF Agrees
  <2>3. CASE s = r
    <3>1. /\ Told(mirror.regions[s], t) \in SUBSET Others
          /\ \A id \in Others: id \in Told(mirror.regions[s], t)
               <=> (id \in mirror.regions[s] \/ Enters(t, id)) /\ ~Exits(t, id)
      BY <1>3, <1>6, <1>12, ShownOf
    <3>2. Shown(s)' = Told(mirror.regions[s], t)
      BY <1>4, <2>3 DEF Shown
    <3>3. \A id \in Others: id \in Shown(s)' <=> id \in Present(s)'
      BY <1>3, <1>8, <1>9, <1>10, <2>1, <2>2, <2>3, <3>1, <3>2
    <3> QED
      BY <1>11, <3>1, <3>2, <3>3
  <2>4. CASE s # r
    <3>1. Shown(s)' = Shown(s)
      BY <1>4, <2>4 DEF Shown
    <3>2. \A id \in Others: id \in Present(s)' <=> id \in Present(s)
      BY <1>8, <1>9, <1>10, <2>4
    <3> QED
      BY <1>11, <2>1, <2>2, <3>1, <3>2
  <2> QED
    BY <2>3, <2>4
<1>13. Agrees'
  BY <1>5, <1>12 DEF Agrees
<1>14. ASSUME NEW id \in Others, Alone(id) PROVE Alone(id)'
  <2>1. ASSUME NEW s \in Region, Full(s)
        PROVE /\ Enters(updates'[s], id) => id \notin mirror.regions[s]
              /\ ~Exits(updates'[s], id)
    <3>1. ~Exits(updates'[s], id)
      BY <1>3, <1>4, OnlyPlayers
    <3>2. ASSUME Enters(updates'[s], id) PROVE id \notin mirror.regions[s]
      <4>1. Enters(updates[s], id) \/ (id = u /\ s = r)
        BY <1>3, <1>4, <3>2
      <4>2. CASE Enters(updates[s], id)
        BY <1>14, <2>1, <4>2 DEF Alone
      <4>3. CASE id = u /\ s = r
        <5> SUFFICES ASSUME u \in mirror.regions[r] PROVE FALSE
          BY <4>3
        <5>1. u \in Shown(r)
          BY <1>6, <2>1, <4>3, OnlyPlayers DEF Shown
        <5>2. u \in Present(r)
          BY <2>1, <4>3, <5>1 DEF Agrees
        <5>3. At(u, r) \/ u = Npc(r)
          BY <1>9, <4>3, <5>2
        <5> QED
          BY <5>3, Names DEF At
      <4> QED
        BY <4>1, <4>2, <4>3
    <3> QED
      BY <3>1, <3>2
  <2> QED
    BY <1>5, <1>14, <2>1 DEF Alone
<1> QED
  BY <1>13, <1>14

\* Whom a set-up may show twice.
LEMMA AnnouncedUsers ==
  ASSUME Forms, Waits, NEW r \in Region PROVE Announced(r) \subseteq Users
<1>1. updates[r] \in Seq(UpdateSet) /\ \A i \in 1 .. Len(updates[r]): updates[r][i].id \in Users
  BY DEF Forms, Waits
<1>2. \A up \in Range(updates[r]): up.id \in Users
  BY <1>1, LenProperties DEF Range
<1> QED
  BY <1>2 DEF Announced

\* What a change that finds what it unwraps does to what the client depends on.
LEMMA FoundChange ==
  ASSUME MirrorInv, MirrorApply, Finds(Head(queue)),
         NEW u \in Users, NEW r \in Region, NEW c \in Changes,
         Head(queue).user = u, Head(queue).pos = r, Head(queue).change = c
  PROVE /\ panicked' = "no"
        /\ \A v, s: v # u \/ s # r => LevelOf(v, s)' = LevelOf(v, s)
        /\ Apart(u, r) =>
             /\ c = "SetupStatic" => LevelOf(u, r) = "none" /\ LevelOf(u, r)' = "static"
             /\ c = "SetupDynamic" => LevelOf(u, r) = "static" /\ LevelOf(u, r)' = "full"
             /\ c = "TeardownDynamic" => LevelOf(u, r) = "full" /\ LevelOf(u, r)' = "static"
             /\ c = "TeardownStatic" => LevelOf(u, r) = "static" /\ LevelOf(u, r)' = "none"
        /\ c # "SetupPlayer" => pc' = pc
        /\ c = "SetupPlayer" =>
             /\ u \notin DOMAIN pc /\ RegionOf(place[u]) = r
             /\ pc' = With(pc, u, [at |-> place[u], target |-> place[u]])
             /\ \A v, s: LevelOf(v, s)' = LevelOf(v, s)
        /\ \A s \in Region: /\ s \notin DOMAIN regions' => updates'[s] = <<>>
                            /\ s # r => updates'[s] = updates[s]
        /\ c = "SetupPlayer" => updates'[r] = Append(updates[r], Entered(u, None))
        /\ c # "SetupPlayer" => updates'[r] = updates[r] \/ (c = "TeardownStatic" /\ updates'[r] = <<>>)
        /\ updates' = [s \in Region |-> updates'[s]]
<1> DEFINE e == Head(queue)
<1>1. /\ Apply /\ panicked = "no" /\ queue # <<>> /\ Pop
      /\ Change(e) /\ panicked' = "no"
      /\ updates' = [s \in Region |->
                      IF s \notin DOMAIN regions' THEN <<>>
                      ELSE IF c = "SetupPlayer" /\ s = r THEN Append(updates[s], Entered(u, None)) ELSE updates[s]]
  BY DEF MirrorApply, Apply
<1>2. Types /\ Consistent /\ Waits /\ Homes
  BY <1>1 DEF MirrorInv, RegionsInv
<1>3. /\ Elsewhere(u, r)
      /\ Apart(u, r) => LevelOf(u, r)' = Becomes(LevelOf(u, r), c)
      /\ IF c = "SetupPlayer" THEN pc' = With(pc, u, [at |-> place[u], target |-> place[u]])
                              ELSE pc' = pc
  BY <1>1, <1>2, Applied
<1>4. Apart(u, r) => LET l == LevelOf(u, r) IN
                     /\ c = "SetupStatic" => l = "none"
                     /\ c = "SetupDynamic" => l = "static"
                     /\ c = "TeardownDynamic" => l = "full"
                     /\ c = "TeardownStatic" => l = "static"
  BY <1>1, <1>2, FirstLevel
<1>5. Apart(u, r) =>
        /\ c = "SetupStatic" => LevelOf(u, r) = "none" /\ LevelOf(u, r)' = "static"
        /\ c = "SetupDynamic" => LevelOf(u, r) = "static" /\ LevelOf(u, r)' = "full"
        /\ c = "TeardownDynamic" => LevelOf(u, r) = "full" /\ LevelOf(u, r)' = "static"
        /\ c = "TeardownStatic" => LevelOf(u, r) = "static" /\ LevelOf(u, r)' = "none"
  BY <1>3, <1>4 DEF Becomes
<1>6. \A v, s: v # u \/ s # r => LevelOf(v, s)' = LevelOf(v, s)
  BY <1>3 DEF Elsewhere
<1>7. Changes = {"SetupStatic", "SetupDynamic", "SetupPlayer", "TeardownDynamic", "TeardownStatic"}
  BY DEF Changes, Setups, Teardowns
<1>8. c # "TeardownStatic" => r \in DOMAIN regions'
  <2>1. c = "SetupStatic" => r \in DOMAIN regions'
    <3> HAVE c = "SetupStatic"
    <3>1. SetupStatic(u, r)
      BY <1>1 DEF Change
    <3> QED
      BY <3>1 DEF SetupStatic, With
  <2>2. c = "SetupDynamic" => r \in DOMAIN regions'
    <3> HAVE c = "SetupDynamic"
    <3>1. SetupDynamic(u, r) /\ r \in DOMAIN regions
      BY <1>1 DEF Change, Finds
    <3> QED
      BY <3>1 DEF SetupDynamic
  <2>3. c = "TeardownDynamic" => r \in DOMAIN regions'
    <3> HAVE c = "TeardownDynamic"
    <3>1. TeardownDynamic(u, r) /\ r \in DOMAIN regions
      BY <1>1 DEF Change, Finds
    <3> QED
      BY <3>1 DEF TeardownDynamic
  <2>4. c = "SetupPlayer" => r \in DOMAIN regions'
    <3> HAVE c = "SetupPlayer"
    <3>1. SetupPlayer(u, r) /\ r \in DOMAIN regions
      BY <1>1 DEF Change, Finds
    <3> QED
      BY <3>1 DEF SetupPlayer
  <2> QED
    BY <1>7, <2>1, <2>2, <2>3, <2>4
<1>9. c = "SetupPlayer" => /\ u \notin DOMAIN pc /\ RegionOf(place[u]) = r
                           /\ \A v, s: LevelOf(v, s)' = LevelOf(v, s)
  <2> HAVE c = "SetupPlayer"
  <2>1. e \in Range(queue)
    BY <1>1, <1>2, Taken
  <2>2. Has(queue, u, r, "SetupPlayer")
    BY <2>1 DEF Has
  <2>3. regions' = regions
    BY <1>1 DEF Change, SetupPlayer
  <2> QED
    BY <1>2, <2>2, <2>3 DEF Consistent, Arriving, Homes, LevelOf
<1>10. \A s \in Region: s # r => updates'[s] = updates[s]
  BY <1>1, <1>2, <1>3 DEF Elsewhere, Waits
<1>11. \A s \in Region: s \notin DOMAIN regions' => updates'[s] = <<>>
  BY <1>1
<1>12. /\ c = "SetupPlayer" => updates'[r] = Append(updates[r], Entered(u, None))
       /\ c # "SetupPlayer" => updates'[r] = updates[r] \/ (c = "TeardownStatic" /\ updates'[r] = <<>>)
  BY <1>1, <1>8
<1>13. updates' = [s \in Region |-> updates'[s]]
  BY <1>1
<1> QED
  BY <1>1, <1>3, <1>5, <1>6, <1>9, <1>10, <1>11, <1>12, <1>13

\* A change leaves the updates that wait in order.
LEMMA WaitsOn ==
  ASSUME MirrorInv, MirrorApply, Finds(Head(queue)),
         NEW u \in Users, NEW r \in Region, NEW c \in Changes,
         Head(queue).user = u, Head(queue).pos = r, Head(queue).change = c
  PROVE updates' \in [Region -> Seq(UpdateSet)] /\ Waits'
<1>1. Apply /\ panicked = "no" /\ ticking \in {"first", "more"} /\ ticking' = "more"
  BY DEF MirrorApply, Apply
<1>2. Waits /\ Forms /\ ticking # "no" /\ ticking' # "no"
  BY <1>1 DEF MirrorInv
<1>3. /\ c # "SetupPlayer" => pc' = pc
      /\ c = "SetupPlayer" =>
           /\ u \notin DOMAIN pc /\ RegionOf(place[u]) = r
           /\ pc' = With(pc, u, [at |-> place[u], target |-> place[u]])
      /\ \A s \in Region: /\ s \notin DOMAIN regions' => updates'[s] = <<>>
                          /\ s # r => updates'[s] = updates[s]
      /\ c = "SetupPlayer" => updates'[r] = Append(updates[r], Entered(u, None))
      /\ c # "SetupPlayer" => updates'[r] = updates[r] \/ (c = "TeardownStatic" /\ updates'[r] = <<>>)
      /\ updates' = [s \in Region |-> updates'[s]]
  BY FoundChange
<1>4. \A s \in Region: updates[s] \in Seq(UpdateSet)
  BY <1>2 DEF Forms
<1> DEFINE up == Entered(u, None)
           here == c = "SetupPlayer"
<1>5. up \in UpdateSet /\ up.kind = "enter" /\ up.id = u /\ up.other = None
  BY DEF Entered, UpdateSet, Characters
<1> HIDE DEF up
<1>6. \A s \in Region: \A id: ~Exits(updates[s], id) /\ (Enters(updates[s], id) => At(id, s))
  BY <1>2, OnlyPlayers
<1>7. here => \A s \in Region: ~About(updates[s], u)
  BY <1>3, <1>6 DEF At, About
<1>8. ASSUME NEW s \in Region
      PROVE /\ updates'[s] \in Seq(UpdateSet)
            /\ \A i \in 1 .. Len(updates'[s]): updates'[s][i] = up \/ \E j \in 1 .. Len(updates[s]): updates'[s][i] = updates[s][j]
            /\ \A id: /\ Enters(updates'[s], id) => Enters(updates[s], id) \/ (id = u /\ s = r /\ here)
                      /\ ~Exits(updates'[s], id)
                      /\ id \in Users => Paired(updates'[s], id)
  <2>1. \A id \in Users: Paired(updates[s], id)
    BY <1>2 DEF Waits
  <2>2. CASE updates'[s] = updates[s]
    BY <1>4, <1>6, <2>1, <2>2
  <2>3. CASE updates'[s] = <<>>
    <3>1. <<>> \in Seq(UpdateSet) /\ 1 .. Len(<<>>) = {}
      OBVIOUS
    <3> QED
      BY <2>3, <3>1, NoneWait
  <2>4. CASE here /\ s = r
    <3> DEFINE t == Append(updates[s], up)
    <3>1. updates'[s] = t
      BY <1>3, <2>4 DEF up
    <3>2. /\ t \in Seq(UpdateSet)
          /\ \A i \in 1 .. Len(t): t[i] = up \/ \E j \in 1 .. Len(updates[s]): t[i] = updates[s][j]
          /\ \A id: /\ Enters(t, id) <=> Enters(updates[s], id) \/ (up.kind = "enter" /\ up.id = id)
                    /\ Exits(t, id) <=> Exits(updates[s], id) \/ (up.kind = "exit" /\ up.id = id)
          /\ \A id: /\ Paired(updates[s], id)
                    /\ up.id = id => /\ up.kind = "enter" => ~About(updates[s], id)
                                     /\ up.kind = "exit" => ~Exits(updates[s], id)
                    => Paired(t, id)
      BY <1>4, <1>5, OneMore
    <3> HIDE DEF t
    <3>3. ~About(updates[s], u)
      BY <1>7, <2>4
    <3>4. \A id \in Users: Paired(t, id)
      BY <1>5, <2>1, <3>2, <3>3
    <3> QED
      BY <1>5, <1>6, <2>4, <3>1, <3>2, <3>4
  <2> QED
    BY <1>3, <2>2, <2>3, <2>4
<1>9. DOMAIN pc \subseteq DOMAIN pc' /\ \A v \in DOMAIN pc: pc'[v] = pc[v]
  BY <1>3 DEF With
<1>10. here => At(u, r)'
  BY <1>3 DEF At, With
<1>11. \A id, s: At(id, s) => At(id, s)'
  <2> TAKE id, s
  <2> HAVE At(id, s)
  <2>1. id \in DOMAIN pc' /\ pc'[id] = pc[id] /\ RegionOf(pc[id].at) = s
    BY <1>9 DEF At
  <2> QED
    BY <2>1 DEF At
<1> HIDE DEF here
<1>12. updates' \in [Region -> Seq(UpdateSet)]
  BY <1>3, <1>8
<1>13. \A s \in Region: \A i \in 1 .. Len(updates'[s]):
         /\ updates'[s][i].kind = "enter" /\ updates'[s][i].other = None
         /\ updates'[s][i].id \in Users
  BY <1>2, <1>5, <1>8 DEF Waits
<1>14. ASSUME NEW s \in Region, NEW id \in Users, Enters(updates'[s], id) PROVE At(id, s)'
  BY <1>6, <1>8, <1>10, <1>11, <1>14
<1>15. ASSUME NEW s \in Region, NEW q \in Region, NEW id \in Users, About(updates'[s], id), About(updates'[q], id)
       PROVE s = q
  <2>1. At(id, s)' /\ At(id, q)'
    BY <1>8, <1>14, <1>15 DEF About
  <2> QED
    BY <2>1 DEF At
<1>16. \A s \in Region: s \notin DOMAIN regions' => updates'[s] = <<>>
  BY <1>3
<1> QED
  BY <1>8, <1>12, <1>13, <1>14, <1>15, <1>16 DEF Waits

\* What the client makes of a change, when both ends run.
LEMMA Followed ==
  ASSUME MirrorInv, MirrorApply, Finds(Head(queue)), Sound
  PROVE /\ mirror' = Panic \/ IsGame(mirror')
        /\ mirror' = Panic => strays' # {}
        /\ mirror' # Panic => Agrees' /\ \A id \in Others \ strays': Alone(id)'
<1> DEFINE e == Head(queue)
<1>1. /\ Apply /\ panicked = "no" /\ queue # <<>> /\ Pop /\ ticking \in {"first", "more"}
  BY DEF MirrorApply, Apply
<1>2. Types /\ Consistent /\ Waits /\ Forms /\ ticking # "no"
  BY <1>1 DEF MirrorInv, RegionsInv
<1>3. InGame(mirror) /\ IsGame(mirror) /\ Agrees /\ \A id \in Others \ strays: Alone(id)
  <2>1. InGame(mirror)
    BY DEF Sound
  <2> QED
    BY <1>2, <2>1, InGames DEF MirrorInv, Forms
<1>4. e \in EntrySet
  BY <1>1, <1>2, Taken
<1>5. PICK u \in Users, r \in Region, c \in Changes: e.user = u /\ e.pos = r /\ e.change = c
  BY <1>4 DEF EntrySet
<1>6. /\ panicked' = "no"
      /\ \A v, s: v # u \/ s # r => LevelOf(v, s)' = LevelOf(v, s)
      /\ Apart(u, r) =>
           /\ c = "SetupStatic" => LevelOf(u, r) = "none" /\ LevelOf(u, r)' = "static"
           /\ c = "SetupDynamic" => LevelOf(u, r) = "static" /\ LevelOf(u, r)' = "full"
           /\ c = "TeardownDynamic" => LevelOf(u, r) = "full" /\ LevelOf(u, r)' = "static"
           /\ c = "TeardownStatic" => LevelOf(u, r) = "static" /\ LevelOf(u, r)' = "none"
      /\ c # "SetupPlayer" => pc' = pc
      /\ c = "SetupPlayer" =>
           /\ u \notin DOMAIN pc /\ RegionOf(place[u]) = r
           /\ pc' = With(pc, u, [at |-> place[u], target |-> place[u]])
           /\ \A v, s: LevelOf(v, s)' = LevelOf(v, s)
      /\ \A s \in Region: /\ s \notin DOMAIN regions' => updates'[s] = <<>>
                          /\ s # r => updates'[s] = updates[s]
      /\ c = "SetupPlayer" => updates'[r] = Append(updates[r], Entered(u, None))
      /\ c # "SetupPlayer" => updates'[r] = updates[r] \/ (c = "TeardownStatic" /\ updates'[r] = <<>>)
  BY <1>5, FoundChange
<1>7. /\ mirror' = Notified(e, r)
      /\ strays' = (IF u = Self /\ c = "SetupDynamic" THEN strays \cup Announced(r) ELSE strays)
  BY <1>3, <1>5, <1>6 DEF MirrorApply
<1>8. Changes = {"SetupStatic", "SetupDynamic", "SetupPlayer", "TeardownDynamic", "TeardownStatic"}
  BY DEF Changes, Setups, Teardowns
<1>9. Apart(Self, r)
  BY DEF Sound, Apart
<1>10. \A s \in Region: s # r => LevelOf(Self, s)' = LevelOf(Self, s) /\ updates'[s] = updates[s]
  BY <1>6
<1>11. mirror # Panic
  BY <1>3, InGames
<1>12. CASE c = "SetupPlayer"
  <2>1. mirror' = mirror /\ strays' = strays
    BY <1>5, <1>7, <1>12 DEF Notified
  <2>2. \A s \in Region: /\ LevelOf(Self, s)' = LevelOf(Self, s)
                         /\ updates'[s] = IF s = r THEN Append(updates[s], Entered(u, None)) ELSE updates[s]
    BY <1>6, <1>12
  <2>3. Agrees' /\ \A id \in Others: Alone(id) => Alone(id)'
    BY <1>2, <1>3, <1>6, <1>12, <2>1, <2>2, PlayerCame
  <2> QED
    BY <1>3, <1>11, <2>1, <2>3
<1>13. CASE c # "SetupPlayer" /\ u # Self
  <2>1. mirror' = mirror /\ strays' = strays /\ pc' = pc
    BY <1>5, <1>6, <1>7, <1>13 DEF Notified
  <2>2. \A s \in Region: LevelOf(Self, s)' = LevelOf(Self, s)
    BY <1>6, <1>13
  <2>3. ASSUME NEW s \in Region, Full(s) PROVE updates'[s] = updates[s] /\ Present(s)' = Present(s)
    <3>1. Present(s)' = Present(s)
      BY <2>1 DEF Present
    <3>2. s \in DOMAIN regions'
      <4>1. LevelOf(Self, s)' = "full"
        BY <2>2, <2>3 DEF Full
      <4> QED
        BY <4>1 DEF LevelOf
    <3>3. updates'[s] = updates[s]
      <4>1. c = "TeardownStatic" /\ s = r /\ updates'[s] = <<>> => updates[s] = <<>>
        <5> HAVE c = "TeardownStatic" /\ s = r /\ updates'[s] = <<>>
        <5>1. updates' = [q \in Region |-> IF q \notin DOMAIN regions' THEN <<>> ELSE updates[q]]
          BY <1>5, <1>6, <1>13 DEF MirrorApply
        <5> QED
          BY <3>2, <5>1
      <4> QED
        BY <1>6, <1>13, <4>1
    <3> QED
      BY <3>1, <3>3
  <2>4. Agrees' /\ \A id: Alone(id) => Alone(id)'
    BY <1>3, <2>1, <2>2, <2>3, Unmoved
  <2> QED
    BY <1>3, <1>11, <2>1, <2>4
<1>14. CASE c = "SetupStatic" /\ u = Self
  <2>1. mirror' = StaticSetup(mirror, r) /\ strays' = strays /\ pc' = pc
    BY <1>5, <1>6, <1>7, <1>14 DEF Notified
  <2>2. LevelOf(Self, r) = "none" /\ LevelOf(Self, r)' = "static"
    BY <1>6, <1>9, <1>14
  <2>3. IsGame(mirror') /\ Agrees' /\ \A id \in Others: Alone(id) => Alone(id)'
    BY <1>3, <1>10, <2>1, <2>2, StaticCame
  <2> QED
    BY <1>3, <2>1, <2>3, InGames
<1>15. CASE c = "TeardownStatic" /\ u = Self
  <2>1. mirror' = StaticTeardown(mirror, r) /\ strays' = strays /\ pc' = pc
    BY <1>5, <1>6, <1>7, <1>15 DEF Notified
  <2>2. LevelOf(Self, r) = "static" /\ LevelOf(Self, r)' = "none"
    BY <1>6, <1>9, <1>15
  <2>3. IsGame(mirror') /\ Agrees' /\ \A id \in Others: Alone(id) => Alone(id)'
    BY <1>3, <1>10, <2>1, <2>2, StaticWent
  <2> QED
    BY <1>3, <2>1, <2>3, InGames
<1>16. CASE c = "SetupDynamic" /\ u = Self
  <2>1. /\ mirror' = DynamicSetup(mirror, r, {Npc(r)} \cup {v \in DOMAIN pc : RegionOf(pc[v].at) = r})
        /\ strays' = strays \cup Announced(r) /\ pc' = pc
    BY <1>5, <1>6, <1>7, <1>16 DEF Notified
  <2>2. LevelOf(Self, r) = "static" /\ LevelOf(Self, r)' = "full"
    BY <1>6, <1>9, <1>16
  <2>3. \A s \in Region: updates'[s] = updates[s]
    BY <1>6, <1>16
  <2>4. IsGame(mirror') /\ Agrees' /\ \A id \in Others \ Announced(r): Alone(id) => Alone(id)'
    BY <1>2, <1>3, <1>10, <2>1, <2>2, <2>3, DynamicCame
  <2> QED
    BY <1>3, <2>1, <2>4, InGames
<1>17. CASE c = "TeardownDynamic" /\ u = Self
  <2>1. mirror' = DynamicTeardown(mirror, r) /\ strays' = strays /\ pc' = pc
    BY <1>5, <1>6, <1>7, <1>17 DEF Notified
  <2>2. LevelOf(Self, r) = "full" /\ LevelOf(Self, r)' = "static"
    BY <1>6, <1>9, <1>17
  <2>3. /\ (\A id \in Others: Alone(id)) => mirror' # Panic
        /\ mirror' # Panic => IsGame(mirror') /\ Agrees' /\ \A id \in Others: Alone(id) => Alone(id)'
    BY <1>3, <1>10, <2>1, <2>2, DynamicWent
  <2> QED
    BY <1>3, <2>1, <2>3
<1> QED
  BY <1>8, <1>12, <1>13, <1>14, <1>15, <1>16, <1>17

\* A notification keeps a client in game, or ends it.
LEMMA Notices ==
  ASSUME IsGame(mirror), Types, NEW e \in EntrySet
  PROVE Notified(e, e.pos) = Panic \/ IsGame(Notified(e, e.pos))
<1> DEFINE r == e.pos
           ids == {Npc(r)} \cup {u \in DOMAIN pc : RegionOf(pc[u].at) = r}
<1>1. r \in Region /\ e.change \in Changes
  BY DEF EntrySet
<1>2. ids \in SUBSET Characters
  <2>1. Npc(r) \in Characters
    BY <1>1, Names DEF Characters
  <2> QED
    BY <2>1 DEF Types, Characters
<1> HIDE DEF r
<1>3. /\ IsGame(StaticSetup(mirror, r))
      /\ StaticTeardown(mirror, r) = Panic \/ IsGame(StaticTeardown(mirror, r))
      /\ DynamicTeardown(mirror, r) = Panic \/ IsGame(DynamicTeardown(mirror, r))
  BY <1>1, RegionComes, RegionGoes, CharactersGo
<1>4. DynamicSetup(mirror, r, ids) = Panic \/ IsGame(DynamicSetup(mirror, r, ids))
  <2> HIDE DEF ids
  <2> QED
    BY <1>1, <1>2, CharactersCome
<1>5. Changes = {"SetupStatic", "SetupDynamic", "SetupPlayer", "TeardownDynamic", "TeardownStatic"}
  BY DEF Changes, Setups, Teardowns
<1>6. Notified(e, r) \in {mirror, StaticSetup(mirror, r), DynamicSetup(mirror, r, ids),
                          DynamicTeardown(mirror, r), StaticTeardown(mirror, r)}
  BY <1>1, <1>5 DEF Notified
<1>7. Notified(e, r) = Panic \/ IsGame(Notified(e, r))
  BY <1>3, <1>4, <1>6
<1> QED
  BY <1>7 DEF r

LEMMA MirrorApplyStep == ASSUME MirrorInv, MirrorApply PROVE MirrorInv'
<1> DEFINE e == Head(queue)
<1>1. /\ Apply /\ panicked = "no" /\ queue # <<>> /\ Pop /\ ticking \in {"first", "more"}
      /\ center' = center /\ place' = place /\ crossed' = crossed
      /\ strays' = (IF InGame(mirror) /\ e.user = Self /\ e.change = "SetupDynamic"
                    THEN strays \cup Announced(e.pos) ELSE strays)
  BY DEF MirrorApply, Apply
<1>2. Types /\ Consistent /\ Waits /\ Homes /\ Fresh /\ Forms /\ ClientGoesOn /\ RegionsInv
  BY <1>1 DEF MirrorInv, RegionsInv
<1>3. RegionsInv'
  BY <1>1, <1>2, ApplyStep
<1>4. /\ e \in EntrySet /\ e \in Range(queue) /\ queue' \in Seq(EntrySet)
      /\ \A v, r, c: Has(queue', v, r, c) => Has(queue, v, r, c)
  BY <1>1, <1>2, Taken
<1>5. strays \subseteq strays' /\ strays' \subseteq Users
  <2>1. Announced(e.pos) \subseteq Users
    BY <1>2, <1>4, AnnouncedUsers DEF EntrySet
  <2> QED
    BY <1>1, <1>2, <2>1 DEF Forms
<1>6. CASE ~Finds(e)
  <2>1. panicked' = "apply" /\ pc' = pc
    BY <1>1, <1>6 DEF Apply
  <2>2. mirror' = mirror /\ updates' = updates
    BY <2>1 DEF MirrorApply
  <2>3. Forms' /\ ClientGoesOn'
    BY <1>1, <1>2, <1>5, <2>1, <2>2 DEF Forms, ClientGoesOn
  <2> QED
    BY <1>3, <2>1, <2>3 DEF MirrorInv, Sound
<1>7. CASE Finds(e)
  <2>1. PICK u \in Users, r \in Region, c \in Changes: e.user = u /\ e.pos = r /\ e.change = c
    BY <1>4 DEF EntrySet
  <2>2. /\ panicked' = "no"
        /\ \A v, s: v # u \/ s # r => LevelOf(v, s)' = LevelOf(v, s)
        /\ c # "SetupPlayer" => pc' = pc
        /\ c = "SetupPlayer" => pc' = With(pc, u, [at |-> place[u], target |-> place[u]])
    BY <1>7, <2>1, FoundChange
  <2>3. updates' \in [Region -> Seq(UpdateSet)] /\ Waits'
    BY <1>7, <2>1, WaitsOn
  <2>4. mirror' = IF InGame(mirror) THEN Notified(e, e.pos) ELSE mirror
    BY <2>2 DEF MirrorApply
  <2>5. mirror' \in {Lobby, Gone, Panic} \/ IsGame(mirror')
    <3>1. CASE InGame(mirror)
      <4>1. IsGame(mirror)
        BY <1>2, <3>1, InGames DEF Forms
      <4> QED
        BY <1>2, <1>4, <2>4, <3>1, <4>1, Notices
    <3>2. CASE ~InGame(mirror)
      BY <1>2, <2>4, <3>2 DEF Forms
    <3> QED
      BY <3>1, <3>2
  <2>6. Forms'
    <3>1. IsFiniteSet(DOMAIN pc')
      <4>1. DOMAIN pc' = DOMAIN pc \/ DOMAIN pc' = DOMAIN pc \cup {u}
        BY <2>2 DEF With
      <4> QED
        BY <1>2, <4>1, FS_AddElement DEF Forms
    <3> QED
      BY <1>5, <2>3, <2>5, <3>1 DEF Forms
  <2>7. Homes'
    BY <1>1, <1>2, <1>4 DEF Homes
  <2>8. Fresh'
    <3> SUFFICES ASSUME mirror' = Lobby PROVE Fresh'
      BY DEF Fresh
    <3>1. ~InGame(mirror)
      <4> SUFFICES ASSUME InGame(mirror) PROVE FALSE
        OBVIOUS
      <4>1. IsGame(mirror)
        BY <1>2, InGames DEF Forms
      <4>2. mirror' = Panic \/ IsGame(mirror')
        BY <1>2, <1>4, <2>4, <4>1, Notices
      <4> QED
        BY <4>2, InGames
    <3>2. mirror = Lobby
      BY <2>4, <3>1
    <3>3. \A x \in Range(queue'): x.user # Self
      <4> SUFFICES ASSUME NEW x \in Range(queue'), x.user = Self PROVE FALSE
        OBVIOUS
      <4>1. Has(queue', Self, x.pos, x.change)
        BY DEF Has
      <4> QED
        BY <1>2, <1>4, <3>2, <4>1 DEF Fresh, Has
    <3>4. u # Self
      BY <1>2, <1>4, <2>1, <3>2 DEF Fresh
    <3> QED
      BY <1>1, <1>2, <2>2, <3>2, <3>3, <3>4 DEF Fresh
  <2>9. ASSUME Sound PROVE /\ mirror' = Panic => strays' # {}
                           /\ mirror' # Panic => Agrees' /\ \A id \in Others \ strays': Alone(id)'
    BY <1>7, <2>9, Followed
  <2>10. ClientGoesOn'
    <3> SUFFICES ASSUME mirror'.state = "panic", \A s \in Region: <<Self, s>> \notin crossed
                 PROVE strays' # {}
      BY <1>1 DEF ClientGoesOn
    <3>1. CASE InGame(mirror)
      <4>1. Sound
        BY <1>1, <3>1 DEF Sound
      <4>2. mirror' = Panic
        BY <2>5, InGames
      <4> QED
        BY <2>9, <4>1, <4>2
    <3>2. CASE ~InGame(mirror)
      BY <1>2, <1>5, <2>4, <3>2 DEF ClientGoesOn
    <3> QED
      BY <3>1, <3>2
  <2>11. ASSUME Sound' PROVE Agrees' /\ \A id \in Others \ strays': Alone(id)'
    <3>1. InGame(mirror') /\ mirror' # Panic
      BY <2>11, InGames DEF Sound
    <3>2. InGame(mirror)
      BY <2>4, <3>1
    <3>3. Sound
      BY <1>1, <2>11, <3>2 DEF Sound
    <3> QED
      BY <2>9, <3>1, <3>3
  <2> QED
    BY <1>3, <2>3, <2>6, <2>7, <2>8, <2>10, <2>11 DEF MirrorInv
<1> QED
  BY <1>6, <1>7

-----------------------------------------------------------------------------
(* The tick, region by region. *)

From(u) == RegionOf(pc[u].at)
To(u) == RegionOf(pc[u].target)
Crosses(u) == u \in DOMAIN pc /\ From(u) # To(u)

\* What a region has to tell of a character that moves.
LEMMA Walker ==
  ASSUME Types, NEW u \in Moving, NEW r \in Region, r \in {From(u), To(u)}
  PROVE /\ u \in Users /\ u \in DOMAIN pc /\ From(u) \in Region /\ To(u) \in Region
        /\ Walked(u, r) \in UpdateSet /\ Walked(u, r).id = u
        /\ ~Crosses(u) => Walked(u, r).kind = "update"
        /\ Crosses(u) /\ r = From(u) => Walked(u, r).kind = "exit" /\ Walked(u, r).other = To(u)
        /\ Crosses(u) /\ r = To(u) => Walked(u, r).kind = "enter" /\ Walked(u, r).other = From(u)
<1>1. u \in Users /\ u \in DOMAIN pc /\ pc[u].at \in Cell /\ pc[u].target \in Cell
  BY DEF Types, Moving
<1>2. From(u) \in Region /\ To(u) \in Region /\ u \in Characters
  BY <1>1, Places DEF From, To, Characters
<1>3. Walked(u, r) = IF From(u) = To(u) THEN Moved(u)
                     ELSE IF r = From(u) THEN Exit(u, To(u)) ELSE Entered(u, From(u))
  BY DEF Walked, From, To
<1>4. Crosses(u) <=> From(u) # To(u)
  BY <1>1 DEF Crosses
<1>5. /\ Moved(u) \in UpdateSet /\ Exit(u, To(u)) \in UpdateSet /\ Entered(u, From(u)) \in UpdateSet
  BY <1>2 DEF Moved, Exit, Entered, UpdateSet
<1> QED
  BY <1>1, <1>2, <1>3, <1>4, <1>5 DEF Moved, Exit, Entered

Walkers(r) == {u \in Moving : r \in {From(u), To(u)}}

\* After what waited, a region tells each character's move once.
LEMMA Walks ==
  ASSUME Types, Forms, NEW r \in Region
  PROVE LET s == updates[r]
            t == AllMoved[r]
            n == Len(s)
        IN /\ t \in Seq(UpdateSet) /\ n \in Nat /\ Len(t) \in Nat
           /\ \A i \in 1 .. n: i \in 1 .. Len(t) /\ t[i] = s[i]
           /\ \A i \in 1 .. Len(t): i > n =>
                \/ r \in npcs /\ t[i] = Moved(Npc(r))
                \/ \E u \in Walkers(r): t[i] = Walked(u, r)
           /\ \A i, j \in 1 .. Len(t):
                i > n /\ j > n /\ t[i].id = t[j].id /\ t[i].id \in Users => i = j
           /\ \A u \in Walkers(r): \E i \in 1 .. Len(t): i > n /\ t[i] = Walked(u, r)
<1> DEFINE s == updates[r]
           n == Len(s)
           W == Walkers(r)
           walkers == SetToSeq(W)
           a == IF r \in npcs THEN <<Moved(Npc(r))>> ELSE <<>>
           b == [i \in DOMAIN walkers |-> Walked(walkers[i], r)]
           t == s \o a \o b
           k == Len(a)
           l == Len(walkers)
<1>1. AllMoved[r] = t
  BY DEF AllMoved, Walkers, From, To
<1>2. IsFiniteSet(W)
  <2>1. W \subseteq DOMAIN pc
    BY DEF Walkers, Moving
  <2> HIDE DEF W
  <2>2. W \in SUBSET DOMAIN pc
    BY <2>1
  <2> QED
    BY <2>2, FS_Subset DEF Forms
<1>3. /\ walkers \in Seq(W) /\ l \in Nat /\ DOMAIN walkers = 1 .. l
      /\ \A i, j \in 1 .. l: walkers[i] = walkers[j] => i = j
      /\ \A x \in W: \E i \in 1 .. l: walkers[i] = x
  <2> HIDE DEF W
  <2> QED
    BY <1>2, Listed, Listing
<1> HIDE DEF walkers, l
<1>4. \A i \in 1 .. l: walkers[i] \in W
  BY <1>3
<1>5. \A u \in W: Walked(u, r) \in UpdateSet /\ Walked(u, r).id = u /\ u \in Users
  BY Walker DEF Walkers
<1> HIDE DEF W
<1>6. b \in Seq(UpdateSet) /\ Len(b) = l /\ \A i \in 1 .. l: b[i] = Walked(walkers[i], r)
  <2>1. b = [i \in 1 .. l |-> Walked(walkers[i], r)] /\ b \in [1 .. l -> UpdateSet]
    BY <1>3, <1>4, <1>5
  <2> QED
    BY <1>3, <2>1
<1>7. s \in Seq(UpdateSet) /\ n \in Nat
  BY LenProperties DEF Forms
<1>8. Moved(Npc(r)) \in UpdateSet /\ Moved(Npc(r)).id \notin Users
  <2>1. Npc(r) \in Characters /\ Npc(r) \notin Users
    BY Names DEF Characters
  <2> QED
    BY <2>1 DEF Moved, UpdateSet
<1>9. /\ a \in Seq(UpdateSet) /\ k \in Nat
      /\ \A i \in 1 .. k: i = 1 /\ r \in npcs /\ a[i] = Moved(Npc(r))
  <2> DEFINE m == Moved(Npc(r))
  <2> HIDE DEF m
  <2>1. CASE r \in npcs
    <3>1. a = <<m>>
      BY <2>1 DEF m
    <3> HIDE DEF a
    <3>2. a \in Seq(UpdateSet) /\ Len(a) = 1 /\ a[1] = m
      BY <1>8, <3>1 DEF m
    <3> QED
      BY <2>1, <3>2 DEF m
  <2>2. CASE r \notin npcs
    <3>1. a = <<>>
      BY <2>2
    <3> HIDE DEF a
    <3> QED
      BY <3>1
  <2> QED
    BY <2>1, <2>2
<1> HIDE DEF s, a, b, k, n
<1> DEFINE sa == s \o a
<1>10. /\ sa \in Seq(UpdateSet) /\ Len(sa) = n + k
       /\ \A i \in 1 .. n + k: sa[i] = IF i <= n THEN s[i] ELSE a[i - n]
  BY <1>7, <1>9, ConcatProperties DEF n, k
<1>11. t = sa \o b
  OBVIOUS
<1> HIDE DEF sa, t
<1>12. /\ t \in Seq(UpdateSet) /\ Len(t) = n + k + l
       /\ \A i \in 1 .. n + k + l: t[i] = IF i <= n + k THEN sa[i] ELSE b[i - (n + k)]
  BY <1>6, <1>10, <1>11, ConcatProperties
<1>13. \A i \in 1 .. n: i \in 1 .. Len(t) /\ t[i] = s[i]
  <2> TAKE i \in 1 .. n
  <2>1. i \in 1 .. n + k /\ i \in 1 .. n + k + l /\ i <= n + k /\ i <= n
    BY <1>3, <1>7, <1>9
  <2> QED
    BY <1>10, <1>12, <2>1
<1>14. ASSUME NEW i \in 1 .. Len(t), i > n
       PROVE \/ i <= n + k /\ i = n + 1 /\ r \in npcs /\ t[i] = Moved(Npc(r))
             \/ i - (n + k) \in 1 .. l /\ t[i] = Walked(walkers[i - (n + k)], r)
  <2>0. i \in Nat /\ i \in 1 .. n + k + l
    BY <1>12, <1>3, <1>7, <1>9
  <2>1. CASE i <= n + k
    <3>1. i \in 1 .. n + k /\ i - n \in 1 .. k /\ ~(i <= n)
      BY <1>7, <1>9, <1>14, <2>0, <2>1
    <3>2. t[i] = a[i - n]
      BY <1>10, <1>12, <2>0, <2>1, <3>1
    <3>3. i - n = 1 /\ r \in npcs /\ a[i - n] = Moved(Npc(r))
      BY <1>9, <3>1
    <3>4. i = n + 1
      BY <1>7, <2>0, <3>3
    <3> QED
      BY <2>1, <3>2, <3>3, <3>4
  <2>2. CASE ~(i <= n + k)
    <3>1. i - (n + k) \in 1 .. l
      BY <1>3, <1>7, <1>9, <2>0, <2>2
    <3>2. t[i] = b[i - (n + k)]
      BY <1>12, <2>0, <2>2
    <3> QED
      BY <1>6, <3>1, <3>2
  <2> QED
    BY <2>1, <2>2
<1>15. ASSUME NEW i \in 1 .. Len(t), i > n
       PROVE (r \in npcs /\ t[i] = Moved(Npc(r))) \/ \E u \in W: t[i] = Walked(u, r)
  BY <1>4, <1>14, <1>15
<1>16. ASSUME NEW i \in 1 .. Len(t), NEW j \in 1 .. Len(t), i > n, j > n,
              t[i].id = t[j].id, t[i].id \in Users
       PROVE i = j
  <2>1. /\ i - (n + k) \in 1 .. l /\ t[i] = Walked(walkers[i - (n + k)], r)
        /\ j - (n + k) \in 1 .. l /\ t[j] = Walked(walkers[j - (n + k)], r)
    BY <1>8, <1>14, <1>16
  <2>2. t[i].id = walkers[i - (n + k)] /\ t[j].id = walkers[j - (n + k)]
    BY <1>4, <1>5, <2>1
  <2>3. i - (n + k) = j - (n + k)
    BY <1>3, <1>16, <2>1, <2>2
  <2> QED
    BY <1>7, <1>9, <1>12, <2>3
<1>17. ASSUME NEW u \in W PROVE \E i \in 1 .. Len(t): i > n /\ t[i] = Walked(u, r)
  <2>1. PICK j \in 1 .. l: walkers[j] = u
    BY <1>3
  <2> DEFINE i == n + k + j
  <2>2. i \in 1 .. n + k + l /\ i > n /\ ~(i <= n + k) /\ i - (n + k) = j
    BY <1>3, <1>7, <1>9
  <2>3. t[i] = b[j]
    BY <1>12, <2>2
  <2> QED
    BY <1>6, <1>12, <2>1, <2>2, <2>3
<1>18. Len(t) \in Nat
  BY <1>12, LenProperties
<1> QED
  BY <1>1, <1>7, <1>12, <1>13, <1>15, <1>16, <1>17, <1>18 DEF s, n, W

\* What a region has to tell of a user, with its tick.
LEMMA Journeys ==
  ASSUME Types, Forms, Waits, NEW r \in Region, NEW id \in Users
  PROVE LET s == updates[r]
            t == AllMoved[r]
            Comes == Crosses(id) /\ To(id) = r
            Goes == Crosses(id) /\ From(id) = r
        IN /\ Paired(t, id)
           /\ Enters(t, id) <=> Enters(s, id) \/ Comes
           /\ Exits(t, id) <=> Exits(s, id) \/ Goes
           /\ \A D: None \notin D =>
                /\ Arrival(t, D, id) <=> Enters(s, id) \/ (Comes /\ From(id) \notin D)
                /\ Departure(t, D, id) <=> Exits(s, id) \/ (Goes /\ To(id) \notin D)
           /\ ~About(s, id) /\ ~Comes /\ ~Goes => \A D: Quiet(t, D, id)
<1> DEFINE s == updates[r]
           t == AllMoved[r]
           n == Len(s)
           Comes == Crosses(id) /\ To(id) = r
           Goes == Crosses(id) /\ From(id) = r
<1>1. /\ t \in Seq(UpdateSet) /\ n \in Nat /\ Len(t) \in Nat
      /\ \A i \in 1 .. n: i \in 1 .. Len(t) /\ t[i] = s[i]
      /\ \A i \in 1 .. Len(t): i > n =>
           \/ r \in npcs /\ t[i] = Moved(Npc(r))
           \/ \E u \in Walkers(r): t[i] = Walked(u, r)
      /\ \A i, j \in 1 .. Len(t):
           i > n /\ j > n /\ t[i].id = t[j].id /\ t[i].id \in Users => i = j
      /\ \A u \in Walkers(r): \E i \in 1 .. Len(t): i > n /\ t[i] = Walked(u, r)
  BY Walks
<1>2. ASSUME NEW u \in Walkers(r)
      PROVE /\ u \in Users /\ u \in DOMAIN pc /\ Walked(u, r).id = u
            /\ ~Crosses(u) => Walked(u, r).kind = "update"
            /\ Crosses(u) /\ r = From(u) => Walked(u, r).kind = "exit" /\ Walked(u, r).other = To(u)
            /\ Crosses(u) /\ r = To(u) => Walked(u, r).kind = "enter" /\ Walked(u, r).other = From(u)
            /\ r = From(u) \/ r = To(u)
  <2>1. u \in Moving /\ r \in {From(u), To(u)}
    BY DEF Walkers
  <2> QED
    BY <2>1, Walker
<1>3. \A i \in 1 .. n: /\ s[i].kind \in {"enter", "exit"} /\ s[i].other = None
                       /\ s[i].kind = "enter" /\ s[i].id = id => Enters(s, id)
                       /\ s[i].kind = "exit" /\ s[i].id = id => Exits(s, id)
  BY DEF Waits, Enters, Exits, EntersBy, ExitsBy
<1>4. /\ Paired(s, id)
      /\ Exits(s, id) => id \notin DOMAIN pc
      /\ Enters(s, id) /\ ~Exits(s, id) => At(id, r)
  BY DEF Waits
<1>5. Npc(r) \notin Users
  BY Names
<1> HIDE DEF s, t, n
\* An update beyond those that waited is of the move of the character.
<1>6. ASSUME NEW i \in 1 .. Len(t), i > n, t[i].id = id
      PROVE /\ id \in DOMAIN pc /\ (r = From(id) \/ r = To(id))
            /\ ~Crosses(id) => t[i].kind = "update"
            /\ Goes => t[i].kind = "exit" /\ t[i].other = To(id)
            /\ Comes => t[i].kind = "enter" /\ t[i].other = From(id)
  <2>1. t[i] # Moved(Npc(r))
    BY <1>5, <1>6 DEF Moved
  <2>2. PICK u \in Walkers(r): t[i] = Walked(u, r)
    BY <1>1, <1>6, <2>1
  <2>3. u = id
    BY <1>2, <1>6, <2>2
  <2> QED
    BY <1>2, <2>2, <2>3
<1>7. ASSUME Comes \/ Goes
      PROVE \E i \in 1 .. Len(t): i > n /\ t[i].id = id
  <2>1. id \in Walkers(r)
    <3>1. id \in DOMAIN pc /\ From(id) # To(id)
      BY <1>7 DEF Crosses
    <3>2. id \in Moving
      BY <3>1 DEF Moving, From, To
    <3> QED
      BY <1>7, <3>2 DEF Walkers
  <2> QED
    BY <1>1, <1>2, <2>1
<1>8. Comes => id \in DOMAIN pc /\ ~At(id, r) /\ ~Enters(s, id) /\ ~Exits(s, id)
  BY <1>4 DEF Crosses, At, From, To
<1>9. Goes => id \in DOMAIN pc /\ ~Exits(s, id) /\ ~Comes
  BY <1>4 DEF Crosses
<1>10. \A i \in 1 .. Len(t): i > n \/ (i \in 1 .. n /\ t[i] = s[i])
  BY <1>1
<1>11. \A i \in 1 .. Len(t): i > n /\ t[i].id = id =>
         /\ t[i].kind = "enter" => Comes
         /\ t[i].kind = "exit" => Goes
  <2> TAKE i \in 1 .. Len(t)
  <2> HAVE i > n /\ t[i].id = id
  <2>1. /\ id \in DOMAIN pc /\ (r = From(id) \/ r = To(id))
        /\ ~Crosses(id) => t[i].kind = "update"
        /\ Goes => t[i].kind = "exit"
        /\ Comes => t[i].kind = "enter"
    BY <1>6
  <2>2. Crosses(id) => Comes \/ Goes
    BY <2>1
  <2> HIDE DEF Comes, Goes
  <2> QED
    BY <2>1, <2>2
<1>12. Enters(t, id) <=> Enters(s, id) \/ Comes
  <2>1. Enters(t, id) => Enters(s, id) \/ Comes
    BY <1>3, <1>10, <1>11 DEF Enters, EntersBy
  <2>2. Enters(s, id) => Enters(t, id)
    BY <1>1 DEF Enters, EntersBy, n
  <2>3. Comes => Enters(t, id)
    BY <1>6, <1>7 DEF Enters, EntersBy
  <2> QED
    BY <2>1, <2>2, <2>3
<1>13. Exits(t, id) <=> Exits(s, id) \/ Goes
  <2>1. Exits(t, id) => Exits(s, id) \/ Goes
    BY <1>3, <1>10, <1>11 DEF Exits, ExitsBy
  <2>2. Exits(s, id) => Exits(t, id)
    BY <1>1 DEF Exits, ExitsBy, n
  <2>3. Goes => Exits(t, id)
    BY <1>6, <1>7 DEF Exits, ExitsBy
  <2> QED
    BY <2>1, <2>2, <2>3
<1>14. ASSUME NEW D, None \notin D
       PROVE /\ Arrival(t, D, id) <=> Enters(s, id) \/ (Comes /\ From(id) \notin D)
             /\ Departure(t, D, id) <=> Exits(s, id) \/ (Goes /\ To(id) \notin D)
  <2>1. Arrival(t, D, id) => Enters(s, id) \/ (Comes /\ From(id) \notin D)
    BY <1>3, <1>6, <1>10, <1>11 DEF Arrival, ArrivesBy, Arrives
  <2>2. Enters(s, id) => Arrival(t, D, id)
    BY <1>1, <1>3, <1>14 DEF Enters, EntersBy, Arrival, ArrivesBy, Arrives, n
  <2>3. Comes /\ From(id) \notin D => Arrival(t, D, id)
    BY <1>6, <1>7 DEF Arrival, ArrivesBy, Arrives
  <2>4. Departure(t, D, id) => Exits(s, id) \/ (Goes /\ To(id) \notin D)
    BY <1>3, <1>6, <1>10, <1>11 DEF Departure, DepartsBy, Departs
  <2>5. Exits(s, id) => Departure(t, D, id)
    BY <1>1, <1>3, <1>14 DEF Exits, ExitsBy, Departure, DepartsBy, Departs, n
  <2>6. Goes /\ To(id) \notin D => Departure(t, D, id)
    BY <1>6, <1>7 DEF Departure, DepartsBy, Departs
  <2> QED
    BY <2>1, <2>2, <2>3, <2>4, <2>5, <2>6
<1>15. Paired(t, id)
  <2> SUFFICES ASSUME NEW i \in 1 .. Len(t), NEW j \in 1 .. Len(t), t[i].id = id, t[j].id = id
               PROVE /\ t[i].kind = "enter" /\ t[j].kind = "enter" => i = j
                     /\ t[i].kind = "exit" /\ t[j].kind = "exit" => i = j
                     /\ t[i].kind = "enter" /\ t[j].kind = "exit" => i < j
    BY DEF Paired
  <2>1. /\ i > n => (t[i].kind = "enter" => Comes) /\ (t[i].kind = "exit" => Goes)
        /\ j > n => (t[j].kind = "enter" => Comes) /\ (t[j].kind = "exit" => Goes)
    BY <1>11
  <2>2. \A k \in 1 .. n: t[k].id = id =>
          (t[k].kind = "enter" => Enters(s, id)) /\ (t[k].kind = "exit" => Exits(s, id))
    BY <1>1, <1>3
  <2> HIDE DEF Comes, Goes
  <2>3. CASE i \in 1 .. n /\ j \in 1 .. n
    <3>1. t[i] = s[i] /\ t[j] = s[j]
      BY <1>1, <2>3
    <3> QED
      BY <1>4, <2>3, <3>1 DEF Paired, n
  <2>4. CASE i > n /\ j > n
    <3>1. i = j
      BY <1>1, <2>4
    <3>2. ~(t[i].kind = "enter" /\ t[j].kind = "exit")
      BY <3>1
    <3> QED
      BY <3>1, <3>2
  <2>5. CASE i \in 1 .. n /\ j > n
    <3>1. i < j
      BY <1>1, <2>5
    <3> QED
      BY <1>8, <1>9, <2>1, <2>2, <2>5, <3>1
  <2>6. CASE i > n /\ j \in 1 .. n
    BY <1>8, <1>9, <2>1, <2>2, <2>6
  <2> QED
    BY <1>10, <2>3, <2>4, <2>5, <2>6
<1>16. ASSUME ~About(s, id), ~Comes, ~Goes, NEW D PROVE Quiet(t, D, id)
  <2> SUFFICES ASSUME NEW i \in 1 .. Len(t), t[i].id = id
               PROVE /\ ~Arrives(t[i], D) /\ ~Departs(t[i], D)
                     /\ ~(t[i].kind = "update" /\ id \in Npcs)
    BY DEF Quiet
  <2>1. t[i].kind # "enter" /\ t[i].kind # "exit"
    BY <1>3, <1>10, <1>11, <1>16 DEF About
  <2>2. id \notin Npcs
    BY Names
  <2> QED
    BY <2>1, <2>2 DEF Arrives, Departs
<1> QED
  BY <1>12, <1>13, <1>14, <1>15, <1>16 DEF s, t

\* ... and of an NPC.
LEMMA Natives ==
  ASSUME Types, Forms, Waits, NEW r \in Region, NEW id \in Npcs
  PROVE LET t == AllMoved[r]
        IN /\ \A i \in 1 .. Len(t): t[i].id = id => t[i].kind = "update" /\ id = Npc(r)
           /\ Paired(t, id) /\ ~Enters(t, id) /\ ~Exits(t, id)
           /\ \A D: ~Arrival(t, D, id) /\ ~Departure(t, D, id)
           /\ id # Npc(r) => \A D: Quiet(t, D, id)
<1> DEFINE t == AllMoved[r]
           n == Len(updates[r])
<1>1. /\ n \in Nat /\ Len(t) \in Nat
      /\ \A i \in 1 .. n: i \in 1 .. Len(t) /\ t[i] = updates[r][i]
      /\ \A i \in 1 .. Len(t): i > n =>
           \/ r \in npcs /\ t[i] = Moved(Npc(r))
           \/ \E u \in Walkers(r): t[i] = Walked(u, r)
  BY Walks
<1>2. id \notin Users
  BY Names
<1>3. \A i \in 1 .. n: updates[r][i].id \in Users
  BY DEF Waits
<1>4. \A u \in Walkers(r): Walked(u, r).id \in Users
  BY Walker DEF Walkers
<1> HIDE DEF t, n
<1>5. ASSUME NEW i \in 1 .. Len(t), t[i].id = id PROVE t[i].kind = "update" /\ id = Npc(r)
  <2>1. i > n
    <3>1. i \in 1 .. n => t[i].id \in Users
      BY <1>1, <1>3
    <3> QED
      BY <1>1, <1>2, <1>5, <3>1
  <2>2. t[i] = Moved(Npc(r))
    BY <1>1, <1>2, <1>4, <1>5, <2>1
  <2> QED
    BY <1>5, <2>2 DEF Moved
<1>6. Paired(t, id) /\ ~Enters(t, id) /\ ~Exits(t, id)
  BY <1>5 DEF Paired, Enters, EntersBy, Exits, ExitsBy
<1>7. \A D: ~Arrival(t, D, id) /\ ~Departure(t, D, id)
  BY <1>5 DEF Arrival, ArrivesBy, Arrives, Departure, DepartsBy, Departs
<1>8. id # Npc(r) => \A D: Quiet(t, D, id)
  BY <1>5 DEF Quiet
<1> QED
  BY <1>5, <1>6, <1>7, <1>8 DEF t

\* Every character comes and goes once in what a region has to tell.
LEMMA PairedIsSmooth ==
  ASSUME NEW s, NEW id, Paired(s, id), NEW D, NEW known,
         Arrival(s, D, id) => ~known, Departure(s, D, id) => known \/ Arrival(s, D, id),
         \A i \in 1 .. Len(s): s[i].id = id /\ s[i].kind = "update" /\ id \in Npcs =>
           known /\ ~Departure(s, D, id)
  PROVE Smooth(s, D, id, known)
BY DEF Paired, Smooth, Arrives, Departs

\* The tick moves the characters.
Walk == pc' = [u \in DOMAIN pc |-> [pc[u] EXCEPT !.at = pc[u].target]]

LEMMA Walking ==
  ASSUME Types, Walk
  PROVE /\ DOMAIN pc' = DOMAIN pc
        /\ \A id, r: At(id, r)' <=> id \in DOMAIN pc /\ To(id) = r
        /\ \A r \in Region: /\ Present(r)' \subseteq Others
                            /\ \A id \in Others: id \in Present(r)' <=> At(id, r)' \/ id = Npc(r)
<1>1. DOMAIN pc' = DOMAIN pc /\ \A u \in DOMAIN pc: pc'[u].at = pc[u].target
  BY DEF Walk, Types
<1>2. \A id, r: At(id, r)' <=> id \in DOMAIN pc /\ To(id) = r
  BY <1>1 DEF At, To
<1>3. DOMAIN pc' \subseteq Users
  BY <1>1 DEF Types
<1>4. ASSUME NEW r \in Region
      PROVE /\ Present(r)' \subseteq Others
            /\ \A id \in Others: id \in Present(r)' <=> At(id, r)' \/ id = Npc(r)
  <2>1. \A id: id \in Present(r)' <=> (id \in DOMAIN pc' /\ id # Self /\ RegionOf(pc'[id].at) = r) \/ id = Npc(r)
    BY DEF Present
  <2> QED
    BY <1>3, <2>1, Names DEF At
<1> QED
  BY <1>1, <1>2, <1>4

\* A region the client shows in full shows who is there after the tick.
LEMMA ShownAfterwards ==
  ASSUME Types, Forms, Waits, IsGame(mirror), Agrees, Walk, NEW r \in Region, Full(r)
  PROVE Told(mirror.regions[r], AllMoved[r]) = Present(r)'
<1> DEFINE ids == mirror.regions[r]
           s == updates[r]
           t == AllMoved[r]
<1>1. ids \in SUBSET Others
  <2>1. r \in DOMAIN mirror.regions
    BY DEF Agrees, Full
  <2> QED
    BY <2>1 DEF IsGame
<1>2. t \in Seq(UpdateSet) /\ s \in Seq(UpdateSet)
  BY Walks DEF Forms
<1>3. \A id \in Others: id \in Users \/ id \in Npcs
  BY Names
<1>4. \A id \in Others: Paired(t, id) /\ Paired(s, id)
  BY <1>3, Journeys, Natives, NpcsStay DEF Waits
<1>5. Shown(r) = Present(r) /\ Shown(r) = Told(ids, s)
  BY DEF Agrees, Shown
<1>6. \A id \in Others: id \in Present(r) <=> At(id, r) \/ id = Npc(r)
  BY PresentOf DEF Types
<1>7. \A id \in Others: id \in Told(ids, s) <=> (id \in ids \/ Enters(s, id)) /\ ~Exits(s, id)
  <2> HIDE DEF ids, s
  <2> QED
    BY <1>1, <1>2, <1>4, ShownOf
<1>8. /\ Told(ids, t) \in SUBSET Others
      /\ \A id \in Others: id \in Told(ids, t) <=> (id \in ids \/ Enters(t, id)) /\ ~Exits(t, id)
  <2> HIDE DEF ids, t
  <2> QED
    BY <1>1, <1>2, <1>4, ShownOf
<1>9. /\ Present(r)' \subseteq Others
      /\ \A id \in Others: id \in Present(r)' <=> At(id, r)' \/ id = Npc(r)
      /\ \A id: At(id, r)' <=> id \in DOMAIN pc /\ To(id) = r
  BY Walking
<1>10. ASSUME NEW id \in Others PROVE id \in Told(ids, t) <=> id \in Present(r)'
  <2>1. CASE id \in Npcs
    <3>1. ~Enters(t, id) /\ ~Exits(t, id)
      BY <2>1, Natives
    <3>2. ~Enters(s, id) /\ ~Exits(s, id)
      BY <2>1, NpcsStay
    <3>3. ~At(id, r) /\ ~At(id, r)'
      BY <1>9, <2>1, Names DEF At, Types
    <3> HIDE DEF ids, s, t
    <3> QED
      BY <1>5, <1>6, <1>7, <1>8, <1>9, <3>1, <3>2, <3>3
  <2>2. CASE id \in Users
    <3>1. /\ Enters(t, id) <=> Enters(s, id) \/ (Crosses(id) /\ To(id) = r)
          /\ Exits(t, id) <=> Exits(s, id) \/ (Crosses(id) /\ From(id) = r)
      BY <2>2, Journeys
    <3>2. Exits(s, id) => id \notin DOMAIN pc
      BY <2>2 DEF Waits
    <3>3. id # Npc(r)
      BY <2>2, Names
    <3>4. At(id, r) <=> id \in DOMAIN pc /\ From(id) = r
      BY DEF At, From
    <3>5. Crosses(id) <=> id \in DOMAIN pc /\ From(id) # To(id)
      BY DEF Crosses
    <3> HIDE DEF ids, s, t
    <3> QED
      BY <1>5, <1>6, <1>7, <1>8, <1>9, <3>1, <3>2, <3>3, <3>4, <3>5
  <2> QED
    BY <1>3, <2>1, <2>2
<1>11. Told(ids, t) = Present(r)'
  <2> HIDE DEF ids, t
  <2> QED
    BY <1>8, <1>9, <1>10
<1> QED
  BY <1>11

\* Updates that neither bring nor take a user are quiet.
LEMMA NothingIsQuiet ==
  ASSUME NEW s, NEW D, NEW id \in Users, ~Arrival(s, D, id), ~Departure(s, D, id)
  PROVE Quiet(s, D, id)
<1>1. id \notin Npcs
  BY Names
<1> QED
  BY <1>1 DEF Quiet, Arrival, ArrivesBy, Departure, DepartsBy

\* The regions that the client is told about.
ToTell == {r \in Region : Full(r) /\ AllMoved[r] # <<>>}

\* The client sees both ends of the walk, or forgets the one it does not see.
WalksInSight(id) ==
  Crosses(id) =>
    /\ Full(From(id)) => Full(To(id)) \/ To(id) \notin DOMAIN mirror.regions
    /\ Full(To(id)) => Full(From(id)) \/ From(id) \notin DOMAIN mirror.regions

\* At most one region's updates bring or take the character, in turn, and then
\* the client knows it exactly when a region it shows in full has it.
HasTurn(id) ==
  \E a: /\ InTurn(AllMoved, ToTell, DOMAIN mirror.regions, id, a, id \in mirror.known)
        /\ /\ id \in mirror.known \/ (a \in ToTell /\ Arrival(AllMoved[a], DOMAIN mirror.regions, id))
           /\ ~(a \in ToTell /\ Departure(AllMoved[a], DOMAIN mirror.regions, id))
           <=> \E r \in Region: Full(r) /\ id \in Present(r)'

\* What holds of a character that is alone.
LEMMA AloneIs ==
  ASSUME Types, Forms, Waits, IsGame(mirror), Agrees, Walk, NEW id \in Others, Alone(id)
  PROVE /\ id \in mirror.known <=> \E r \in Region: Full(r) /\ id \in mirror.regions[r]
        /\ \A r \in Region: Full(r) =>
             ((id \in mirror.regions[r] \/ Enters(updates[r], id)) /\ ~Exits(updates[r], id)
               <=> At(id, r) \/ id = Npc(r))
        /\ \A r \in Region: Full(r) => r \in DOMAIN mirror.regions
        /\ None \notin DOMAIN mirror.regions
        /\ \A r \in Region: Full(r) /\ AllMoved[r] = <<>> =>
             \A D: ~Arrival(AllMoved[r], D, id) /\ ~Departure(AllMoved[r], D, id)
<1>1. DOMAIN mirror.regions \subseteq Region /\ None \notin DOMAIN mirror.regions
  BY Nowhere DEF IsGame
<1>2. \A r \in Region: Full(r) => r \in DOMAIN mirror.regions
  BY DEF Agrees, Full
<1>3. \A r \in DOMAIN mirror.regions: Full(r) \/ mirror.regions[r] = {}
  <2> TAKE r \in DOMAIN mirror.regions
  <2>1. r \in Region /\ LevelOf(Self, r) # "none"
    BY DEF Agrees
  <2>2. LevelOf(Self, r) \in Levels
    BY <2>1, SelfAssumption, LevelType
  <2> QED
    BY <2>1, <2>2 DEF Agrees, Full, Levels
<1>4. id \in mirror.known <=> \E r \in Region: Full(r) /\ id \in mirror.regions[r]
  BY <1>1, <1>2, <1>3 DEF Alone
<1>5. ASSUME NEW r \in Region, Full(r)
      PROVE (id \in mirror.regions[r] \/ Enters(updates[r], id)) /\ ~Exits(updates[r], id)
              <=> At(id, r) \/ id = Npc(r)
  <2> DEFINE ids == mirror.regions[r]
             s == updates[r]
  <2>1. ids \in SUBSET Others
    BY <1>2, <1>5 DEF IsGame
  <2>2. s \in Seq(UpdateSet) /\ \A x \in Others: Paired(s, x)
    BY Names, NpcsStay DEF Forms, Waits
  <2>3. Told(ids, s) = Present(r)
    BY <1>5 DEF Agrees, Shown
  <2>4. id \in Present(r) <=> At(id, r) \/ id = Npc(r)
    BY PresentOf DEF Types
  <2> HIDE DEF ids, s
  <2>5. id \in Told(ids, s) <=> (id \in ids \/ Enters(s, id)) /\ ~Exits(s, id)
    BY <2>1, <2>2, ShownOf
  <2> QED
    BY <2>3, <2>4, <2>5 DEF ids, s
<1>6. ASSUME NEW s, s = <<>>, NEW D PROVE ~Arrival(s, D, id) /\ ~Departure(s, D, id)
  <2>1. 1 .. Len(s) = {}
    BY <1>6
  <2> QED
    BY <2>1 DEF Arrival, ArrivesBy, Departure, DepartsBy
<1> QED
  BY <1>1, <1>2, <1>4, <1>5, <1>6

LEMMA NpcsTurn ==
  ASSUME Types, Forms, Waits, IsGame(mirror), Agrees, Walk, NEW id \in Others, Alone(id), id \in Npcs
  PROVE HasTurn(id)
<1> DEFINE D == DOMAIN mirror.regions
           known == id \in mirror.known
<1>1. PICK x \in Region: id = Npc(x)
  BY DEF Npcs
<1>2. \A r \in Region: r # x => id # Npc(r)
  BY <1>1, Names
<1>3. \A r \in Region: ~Enters(updates[r], id) /\ ~Exits(updates[r], id)
  BY NpcsStay
<1>4. \A r: ~At(id, r) /\ ~At(id, r)'
  BY Walking, Names DEF At, Types
<1>5. /\ known <=> \E r \in Region: Full(r) /\ id \in mirror.regions[r]
      /\ \A r \in Region: Full(r) => (id \in mirror.regions[r] <=> r = x)
  BY <1>1, <1>2, <1>3, <1>4, AloneIs
<1>6. \A r \in Region: id \in Present(r)' <=> r = x
  BY <1>1, <1>2, <1>4, Walking
<1>7. /\ Paired(AllMoved[x], id) /\ ~Arrival(AllMoved[x], D, id) /\ ~Departure(AllMoved[x], D, id)
      /\ \A r \in Region: r # x => Quiet(AllMoved[r], D, id)
  BY <1>2, Natives
<1>8. x \in ToTell => Full(x)
  BY DEF ToTell
<1>9. InTurn(AllMoved, ToTell, D, id, x, known)
  <2>1. \A q \in ToTell: q # x => Quiet(AllMoved[q], D, id)
    BY <1>7 DEF ToTell
  <2>2. ASSUME x \in ToTell PROVE Smooth(AllMoved[x], D, id, known)
    <3>1. known
      BY <1>5, <1>8, <2>2
    <3> HIDE DEF known, D
    <3> QED
      BY <1>7, <3>1, PairedIsSmooth
  <2> QED
    BY <2>1, <2>2 DEF InTurn
<1>10. known <=> \E r \in Region: Full(r) /\ id \in Present(r)'
  BY <1>5, <1>6
<1> QED
  BY <1>7, <1>9, <1>10 DEF HasTurn

LEMMA UsersTurn ==
  ASSUME Types, Forms, Waits, IsGame(mirror), Agrees, Walk, NEW id \in Others, Alone(id), id \in Users,
         WalksInSight(id)
  PROVE HasTurn(id)
<1> DEFINE D == DOMAIN mirror.regions
           known == id \in mirror.known
           ups(r) == updates[r]
           Holds(a) == /\ known \/ (a \in ToTell /\ Arrival(AllMoved[a], D, id))
                       /\ ~(a \in ToTell /\ Departure(AllMoved[a], D, id))
           Stays == \E r \in Region: Full(r) /\ id \in Present(r)'
<1>1. \A r \in Region: id # Npc(r)
  BY Names
<1>2. /\ known <=> \E r \in Region: Full(r) /\ id \in mirror.regions[r]
      /\ \A r \in Region: Full(r) =>
           ((id \in mirror.regions[r] \/ Enters(ups(r), id)) /\ ~Exits(ups(r), id) <=> At(id, r))
      /\ \A r \in Region: Full(r) => r \in D
      /\ None \notin D
      /\ \A r \in Region: Full(r) /\ r \notin ToTell =>
           ~Arrival(AllMoved[r], D, id) /\ ~Departure(AllMoved[r], D, id)
  BY <1>1, AloneIs DEF ToTell
<1>3. /\ \A r \in ToTell: r \in Region /\ Full(r)
      /\ D \subseteq Region
  BY DEF ToTell, IsGame
<1>4. Stays <=> id \in DOMAIN pc /\ Full(To(id))
  <2>1. \A r \in Region: id \in Present(r)' <=> id \in DOMAIN pc /\ To(id) = r
    BY <1>1, Walking
  <2>2. id \in DOMAIN pc => To(id) \in Region
    BY Places DEF To, Types
  <2> QED
    BY <2>1, <2>2
<1>5. \A r \in Region: Full(r) =>
        /\ Enters(ups(r), id) => id \notin mirror.regions[r]
        /\ Exits(ups(r), id) /\ ~Enters(ups(r), id) => id \in mirror.regions[r]
  BY DEF Alone
<1>6. /\ \A r \in Region: Exits(ups(r), id) => id \notin DOMAIN pc
      /\ \A r \in Region: Enters(ups(r), id) /\ ~Exits(ups(r), id) => At(id, r)
      /\ \A r, q \in Region: About(ups(r), id) /\ About(ups(q), id) => r = q
      /\ \A r: About(ups(r), id) <=> Enters(ups(r), id) \/ Exits(ups(r), id)
  BY DEF Waits, About
<1>7. \A r: At(id, r) <=> id \in DOMAIN pc /\ From(id) = r
  BY DEF At, From
<1>8. Crosses(id) <=> id \in DOMAIN pc /\ From(id) # To(id)
  BY DEF Crosses
<1>9. \A r \in Region:
        /\ Paired(AllMoved[r], id)
        /\ Arrival(AllMoved[r], D, id) <=>
             Enters(ups(r), id) \/ (Crosses(id) /\ To(id) = r /\ From(id) \notin D)
        /\ Departure(AllMoved[r], D, id) <=>
             Exits(ups(r), id) \/ (Crosses(id) /\ From(id) = r /\ To(id) \notin D)
  BY <1>2, Journeys
<1>10. /\ Crosses(id) /\ Full(From(id)) => Full(To(id)) \/ To(id) \notin D
       /\ Crosses(id) /\ Full(To(id)) => Full(From(id)) \/ From(id) \notin D
  BY DEF WalksInSight
<1>11. id \notin Npcs
  BY Names
<1>12. id \in DOMAIN pc => From(id) \in Region /\ To(id) \in Region
  BY Places DEF From, To, Types
<1>13. ASSUME NEW a,
              \A q \in Region: Full(q) /\ q # a =>
                ~Arrival(AllMoved[q], D, id) /\ ~Departure(AllMoved[q], D, id),
              a \in Region /\ Full(a) =>
                /\ Arrival(AllMoved[a], D, id) => ~known
                /\ Departure(AllMoved[a], D, id) => known \/ Arrival(AllMoved[a], D, id)
       PROVE InTurn(AllMoved, ToTell, D, id, a, known)
  <2> HIDE DEF D, known, Holds, Stays, ups
  <2>1. \A q \in ToTell: q # a => Quiet(AllMoved[q], D, id)
    BY <1>3, <1>13, NothingIsQuiet
  <2>2. a \in ToTell => Smooth(AllMoved[a], D, id, known)
    BY <1>3, <1>9, <1>11, <1>13, PairedIsSmooth
  <2> QED
    BY <2>1, <2>2 DEF InTurn
<1>14. \A a: InTurn(AllMoved, ToTell, D, id, a, known) /\ (Holds(a) <=> Stays) => HasTurn(id)
  BY DEF HasTurn
<1>15. \A a \in Region: /\ Full(a) /\ Arrival(AllMoved[a], D, id) => a \in ToTell
                        /\ Full(a) /\ Departure(AllMoved[a], D, id) => a \in ToTell
                        /\ ~Full(a) => a \notin ToTell
  BY <1>2, <1>3
<1> HIDE DEF D, known, Stays, ups
<1>16. CASE id \notin DOMAIN pc
  <2>1. \A r \in Region: About(ups(r), id) => Exits(ups(r), id)
    BY <1>6, <1>7, <1>16
  <2>2. \A r \in Region: Full(r) /\ ~About(ups(r), id) => id \notin mirror.regions[r]
    BY <1>2, <1>6, <1>7, <1>16
  <2>3. ~Crosses(id) /\ ~Stays
    BY <1>4, <1>8, <1>16
  <2>4. CASE \E q \in Region: About(ups(q), id)
    <3>1. PICK q \in Region: About(ups(q), id)
      BY <2>4
    <3>2. \A r \in Region: r # q => ~About(ups(r), id)
      BY <1>6, <3>1
    <3>3. Full(q) => /\ Arrival(AllMoved[q], D, id) => ~known
                     /\ Departure(AllMoved[q], D, id)
                     /\ known \/ Arrival(AllMoved[q], D, id)
      <4> HAVE Full(q)
      <4>1. Exits(ups(q), id)
        BY <2>1, <3>1
      <4>2. Arrival(AllMoved[q], D, id) <=> Enters(ups(q), id)
        BY <1>9, <2>3
      <4>3. known <=> id \in mirror.regions[q]
        BY <1>2, <2>2, <3>2
      <4> QED
        BY <1>5, <1>9, <4>1, <4>2, <4>3
    <3>4. \A r \in Region: r # q => ~Arrival(AllMoved[r], D, id) /\ ~Departure(AllMoved[r], D, id)
      BY <1>6, <1>9, <2>3, <3>2
    <3>5. InTurn(AllMoved, ToTell, D, id, q, known)
      BY <1>13, <3>3, <3>4
    <3>6. ~Holds(q)
      <4>1. CASE Full(q)
        BY <1>15, <3>3, <4>1
      <4>2. CASE ~Full(q)
        <5>1. ~known
          BY <1>2, <2>2, <3>2, <4>2
        <5> QED
          BY <1>15, <4>2, <5>1
      <4> QED
        BY <4>1, <4>2
    <3> QED
      BY <1>14, <2>3, <3>5, <3>6
  <2>5. CASE ~\E q \in Region: About(ups(q), id)
    <3>1. \A r \in Region: ~Arrival(AllMoved[r], D, id) /\ ~Departure(AllMoved[r], D, id)
      BY <1>6, <1>9, <2>3, <2>5
    <3>2. None \notin Region /\ None \notin ToTell
      BY <1>3, Nowhere
    <3>3. InTurn(AllMoved, ToTell, D, id, None, known)
      BY <1>13, <3>1, <3>2
    <3>4. ~known
      BY <1>2, <2>2, <2>5
    <3> QED
      BY <1>14, <2>3, <3>2, <3>3, <3>4
  <2> QED
    BY <2>4, <2>5
<1>17. CASE id \in DOMAIN pc
  <2> DEFINE f == From(id)
             t == To(id)
  <2>1. \A r \in Region: /\ ~Exits(ups(r), id)
                         /\ Enters(ups(r), id) => r = f
    BY <1>6, <1>7, <1>17
  <2>2. f \in Region /\ t \in Region /\ (Crosses(id) <=> f # t)
    BY <1>8, <1>12, <1>17
  <2>3. Stays <=> Full(t)
    BY <1>4, <1>17
  <2>4. \A r \in Region: Full(r) /\ r # f => id \notin mirror.regions[r]
    BY <1>2, <1>7, <2>1
  <2>5. known <=> Full(f) /\ id \in mirror.regions[f]
    BY <1>2, <2>2, <2>4
  <2>6. Full(f) => /\ known \/ Enters(ups(f), id)
                   /\ Enters(ups(f), id) => ~known
    BY <1>2, <1>5, <1>7, <1>17, <2>1, <2>2, <2>5
  <2>7. \A r \in Region:
          /\ Arrival(AllMoved[r], D, id) <=>
               (r = f /\ Enters(ups(f), id)) \/ (f # t /\ t = r /\ f \notin D)
          /\ Departure(AllMoved[r], D, id) <=> f # t /\ f = r /\ t \notin D
    BY <1>9, <2>1, <2>2
  <2>8. \A r \in Region: Full(r) => r \in D
    BY <1>2
  <2>9. /\ f # t /\ Full(f) => Full(t) \/ t \notin D
        /\ f # t /\ Full(t) => Full(f) \/ f \notin D
    BY <1>10, <2>2
  <2> HIDE DEF f, t, Holds
  <2>10. CASE Full(f) \/ f = t \/ ~Full(t)
    <3>1. InTurn(AllMoved, ToTell, D, id, f, known)
      <4>1. \A q \in Region: Full(q) /\ q # f =>
              ~Arrival(AllMoved[q], D, id) /\ ~Departure(AllMoved[q], D, id)
        BY <2>2, <2>7, <2>8, <2>10
      <4>2. Full(f) => /\ Arrival(AllMoved[f], D, id) => ~known
                       /\ Departure(AllMoved[f], D, id) => known \/ Arrival(AllMoved[f], D, id)
        BY <2>2, <2>6, <2>7
      <4> QED
        BY <1>13, <4>1, <4>2
    <3>2. Holds(f) <=> Stays
      <4>1. CASE Full(f)
        <5>1. f # t /\ ~Full(t) => t \notin D
          BY <2>9, <4>1
        <5>2. Departure(AllMoved[f], D, id) <=> ~Full(t)
          BY <2>2, <2>7, <2>8, <4>1, <5>1
        <5>3. known \/ Arrival(AllMoved[f], D, id)
          BY <2>2, <2>6, <2>7, <4>1
        <5> QED
          BY <1>15, <2>2, <2>3, <4>1, <5>2, <5>3 DEF Holds
      <4>2. CASE ~Full(f)
        <5>1. ~Full(t) /\ ~known /\ f \notin ToTell
          BY <1>15, <2>2, <2>5, <2>10, <4>2
        <5> QED
          BY <2>3, <5>1 DEF Holds
      <4> QED
        BY <4>1, <4>2
    <3> QED
      BY <1>14, <3>1, <3>2 DEF Holds
  <2>11. CASE ~Full(f) /\ f # t /\ Full(t)
    <3>1. f \notin D /\ ~known
      BY <2>5, <2>9, <2>11
    <3>2. InTurn(AllMoved, ToTell, D, id, t, known)
      <4>1. \A q \in Region: Full(q) /\ q # t =>
              ~Arrival(AllMoved[q], D, id) /\ ~Departure(AllMoved[q], D, id)
        BY <2>7, <2>11
      <4>2. /\ Arrival(AllMoved[t], D, id) => ~known
            /\ ~Departure(AllMoved[t], D, id)
        BY <2>2, <2>7, <2>11, <3>1
      <4> QED
        BY <1>13, <4>1, <4>2
    <3>3. Holds(t)
      <4>1. Arrival(AllMoved[t], D, id) /\ ~Departure(AllMoved[t], D, id)
        BY <2>2, <2>7, <2>11, <3>1
      <4> QED
        BY <1>15, <2>2, <2>11, <4>1 DEF Holds
    <3> QED
      BY <1>14, <2>3, <2>11, <3>2, <3>3 DEF Holds
  <2> QED
    BY <2>10, <2>11
<1> QED
  BY <1>16, <1>17

\* Whatever updates a client in game gets, it stays in game or ends.
LEMMA DeliveredSome ==
  ASSUME IsGame(mirror), NEW to \in SUBSET Region, IsFiniteSet(to),
         NEW order \in SetToSeqs(to), NEW ups, \A r \in to: ups[r] \in Seq(UpdateSet)
  PROVE Delivered(ups, order) = Panic \/ IsGame(Delivered(ups, order))
<1> DEFINE n == Len(order)
<1>1. order \in Seq(to) /\ n \in Nat /\ \A k \in 1 .. n: order[k] \in to
  BY Listed, LenProperties
<1>2. PICK f: /\ f[0] = mirror
              /\ \A k \in 1 .. n: f[k] = DynamicUpdates(f[k - 1], order[k], ups[order[k]])
              /\ Delivered(ups, order) = f[n]
  <2>1. InGame(mirror)
    BY InGames
  <2> QED
    BY <1>1, <2>1, RegionSteps
<1> HIDE DEF n
<1> DEFINE Claim(k) == f[k] = Panic \/ IsGame(f[k])
           S == {k \in Nat : k \in 0 .. n => Claim(k)}
<1>3. 0 \in S
  BY <1>2
<1>4. ASSUME NEW k \in Nat, k \in S PROVE k + 1 \in S
  <2> SUFFICES ASSUME k + 1 \in 0 .. n PROVE Claim(k + 1)
    OBVIOUS
  <2> DEFINE r == order[k + 1]
             a == f[k]
  <2>1. k \in 0 .. n /\ k + 1 \in 1 .. n /\ (k + 1) - 1 = k
    BY <1>1
  <2>2. a = Panic \/ IsGame(a)
    BY <1>4, <2>1
  <2>3. f[k + 1] = DynamicUpdates(a, r, ups[r]) /\ ups[r] \in Seq(UpdateSet)
    BY <1>1, <1>2, <2>1
  <2> HIDE DEF a, r
  <2>4. CASE a = Panic \/ r \notin DOMAIN a.regions
    <3>1. /\ a = Panic => a.state = "panic"
          /\ IsGame(a) => a.state # "panic"
      BY InGames
    <3>2. DynamicUpdates(a, r, ups[r]) = Panic
      BY <2>2, <2>4, <3>1 DEF DynamicUpdates
    <3> QED
      BY <2>3, <3>2
  <2>5. CASE IsGame(a) /\ r \in DOMAIN a.regions
    <3>1. DynamicUpdates(a, r, ups[r]) = Panic \/ IsGame(DynamicUpdates(a, r, ups[r]))
      BY <2>3, <2>5, RegionApplied
    <3> QED
      BY <2>3, <3>1
  <2> QED
    BY <2>2, <2>4, <2>5
<1> HIDE DEF S
<1>5. \A k \in Nat: k \in S
  BY <1>3, <1>4, Upwards
<1>6. Claim(n)
  <2>1. n \in S /\ n \in 0 .. n
    BY <1>1, <1>5
  <2> QED
    BY <2>1 DEF S
<1> QED
  BY <1>2, <1>6

\* What the client makes of a tick, when both ends run.
LEMMA Flushed ==
  ASSUME MirrorInv, Sound, ticking = "no", Walk,
         NEW order \in SetToSeqs(ToTell), mirror' = Delivered(AllMoved, order),
         updates' = [r \in Region |-> <<>>], UNCHANGED regions, strays \subseteq strays',
         \A id \in Others \ strays': id \in Users => WalksInSight(id)
  PROVE /\ mirror' = Panic \/ IsGame(mirror')
        /\ mirror' = Panic => strays' # {}
        /\ mirror' # Panic => Agrees' /\ \A id \in Others \ strays': Alone(id)'
<1> DEFINE D == DOMAIN mirror.regions
<1>1. panicked = "no" /\ InGame(mirror)
  BY DEF Sound
<1>2. Types /\ Waits /\ Forms
  BY <1>1 DEF MirrorInv, RegionsInv
<1>3. IsGame(mirror) /\ Agrees /\ \A id \in Others \ strays: Alone(id)
  BY <1>1, <1>2, InGames DEF MirrorInv, Forms
<1>4. /\ ToTell \in SUBSET D /\ ToTell \in SUBSET Region /\ IsFiniteSet(ToTell)
      /\ \A r \in ToTell: Full(r)
  <2>1. ToTell \subseteq Region /\ ToTell \subseteq D /\ \A r \in ToTell: Full(r)
    BY <1>3 DEF ToTell, Agrees, Full
  <2>2. IsFiniteSet(Region)
    BY DistanceAssumption, FS_Interval DEF Region
  <2>3. IsFiniteSet(ToTell)
    BY <2>1, <2>2, FS_Subset
  <2> QED
    BY <2>1, <2>3
<1>5. \A r \in Region: AllMoved[r] \in Seq(UpdateSet)
  BY <1>2, Walks
<1>6. /\ \/ mirror' = Panic
         \/ /\ IsGame(mirror') /\ DOMAIN mirror'.regions = D
            /\ \A q \in D: mirror'.regions[q] = IF q \in ToTell THEN Told(mirror.regions[q], AllMoved[q])
                                                ELSE mirror.regions[q]
      /\ \A id \in Others: \A a: InTurn(AllMoved, ToTell, D, id, a, id \in mirror.known) /\ mirror' # Panic =>
           /\ id \in mirror'.known <=> /\ id \in mirror.known \/ (a \in ToTell /\ Arrival(AllMoved[a], D, id))
                                       /\ ~(a \in ToTell /\ Departure(AllMoved[a], D, id))
           /\ mirror.bodies[id] = Bit(id \in mirror.known) => mirror'.bodies[id] = Bit(id \in mirror'.known)
      /\ InTurns(AllMoved, ToTell) => mirror' # Panic
  <2>1. \A r \in ToTell: AllMoved[r] \in Seq(UpdateSet)
    BY <1>4, <1>5
  <2> DEFINE Shows(n, to, ups) ==
        \/ n = Panic
        \/ /\ IsGame(n) /\ DOMAIN n.regions = D
           /\ \A q \in D: n.regions[q] = IF q \in to THEN Told(mirror.regions[q], ups[q])
                                         ELSE mirror.regions[q]
             Knows(n, to, ups) ==
        \A id \in Others: \A a: InTurn(ups, to, D, id, a, id \in mirror.known) /\ n # Panic =>
          /\ id \in n.known <=> /\ id \in mirror.known \/ (a \in to /\ Arrival(ups[a], D, id))
                                /\ ~(a \in to /\ Departure(ups[a], D, id))
          /\ mirror.bodies[id] = Bit(id \in mirror.known) => n.bodies[id] = Bit(id \in n.known)
             Follows(n, to, ups) ==
        Shows(n, to, ups) /\ Knows(n, to, ups) /\ (InTurns(ups, to) => n # Panic)
  <2>2. ASSUME NEW to \in SUBSET D, IsFiniteSet(to), NEW o \in SetToSeqs(to), NEW ups,
               \A r \in to: ups[r] \in Seq(UpdateSet)
        PROVE Follows(Delivered(ups, o), to, ups)
    <3>1. Shows(Delivered(ups, o), to, ups)
      BY <1>3, <2>2, AllDelivered
    <3>2. Knows(Delivered(ups, o), to, ups)
      BY <1>3, <2>2, AllDelivered
    <3>3. InTurns(ups, to) => Delivered(ups, o) # Panic
      BY <1>3, <2>2, AllDelivered
    <3> QED
      BY <3>1, <3>2, <3>3
  <2> HIDE DEF Follows, Shows, Knows
  <2>3. Follows(mirror', ToTell, AllMoved)
    BY <1>4, <2>1, <2>2
  <2> QED
    BY <2>3 DEF Follows, Shows, Knows
<1>7. \A id \in Others \ strays': Alone(id) /\ HasTurn(id)
  <2> TAKE id \in Others \ strays'
  <2>1. Alone(id)
    BY <1>3
  <2>2. id \in Users \/ id \in Npcs
    BY Names
  <2> QED
    BY <1>2, <1>3, <2>1, <2>2, NpcsTurn, UsersTurn
<1>8. mirror' = Panic => strays' # {}
  <2> SUFFICES ASSUME strays' = {} PROVE mirror' # Panic
    OBVIOUS
  <2>1. InTurns(AllMoved, ToTell)
    BY <1>7 DEF HasTurn, InTurns
  <2> QED
    BY <1>6, <2>1
<1>9. \A r: LevelOf(Self, r)' = LevelOf(Self, r)
  BY DEF LevelOf
<1>10. \A r: Full(r)' <=> Full(r)
  BY <1>9 DEF Full
<1>11. \A r \in Region: /\ Present(r)' \subseteq Others
                        /\ updates'[r] = <<>>
  BY <1>2, Walking
<1>12. ASSUME mirror' # Panic PROVE Agrees' /\ \A id \in Others \ strays': Alone(id)'
  <2>1. /\ IsGame(mirror') /\ DOMAIN mirror'.regions = D
        /\ \A q \in D: mirror'.regions[q] = IF q \in ToTell THEN Told(mirror.regions[q], AllMoved[q])
                                            ELSE mirror.regions[q]
    BY <1>6, <1>12
  <2>2. \A r \in Region: Full(r) => r \in D
    BY <1>3 DEF Agrees, Full
  <2>3. ASSUME NEW r \in Region, Full(r) PROVE mirror'.regions[r] = Present(r)'
    <3>1. Told(mirror.regions[r], AllMoved[r]) = Present(r)'
      BY <1>2, <1>3, <2>3, ShownAfterwards
    <3>2. CASE r \in ToTell
      BY <2>1, <2>2, <2>3, <3>1, <3>2
    <3>3. CASE r \notin ToTell
      <4>1. AllMoved[r] = <<>>
        BY <2>3, <3>3 DEF ToTell
      <4>2. mirror.regions[r] \in SUBSET Others
        BY <1>3, <2>2, <2>3 DEF IsGame
      <4> DEFINE ids == mirror.regions[r]
      <4>3. Told(ids, <<>>) = ids
        <5> HIDE DEF ids
        <5> QED
          BY <4>2, ToldNothing DEF ids
      <4>4. mirror'.regions[r] = ids
        BY <2>1, <2>2, <2>3, <3>3
      <4> QED
        BY <3>1, <4>1, <4>3, <4>4
    <3> QED
      BY <3>2, <3>3
  <2>4. ASSUME NEW r \in Region, Full(r) PROVE Shown(r)' = Present(r)'
    <3> DEFINE ids == Present(r)'
    <3>1. mirror'.regions[r] = ids /\ updates'[r] = <<>> /\ ids \in SUBSET Others
      BY <1>11, <2>3, <2>4
    <3>2. Shown(r)' = Told(mirror'.regions[r], updates'[r])
      BY DEF Shown
    <3> HIDE DEF ids
    <3>3. Shown(r)' = Told(ids, <<>>)
      BY <3>1, <3>2
    <3>4. Shown(r)' = ids
      BY <3>1, <3>3, ToldNothing
    <3> QED
      BY <3>4 DEF ids
  <2>5. \A r \in Region: LevelOf(Self, r) = "static" => mirror'.regions[r] = {}
    <3> TAKE r \in Region
    <3> HAVE LevelOf(Self, r) = "static"
    <3>1. r \in D /\ r \notin ToTell /\ mirror.regions[r] = {}
      BY <1>3 DEF Agrees, ToTell, Full
    <3> QED
      BY <2>1, <3>1
  <2>6. Agrees'
    <3>1. DOMAIN mirror'.regions = {r \in Region : LevelOf(Self, r)' # "none"}
      BY <1>3, <1>9, <2>1 DEF Agrees
    <3>2. \A r \in Region: Full(r)' => Shown(r)' = Present(r)'
      BY <1>10, <2>4
    <3>3. \A r \in Region: LevelOf(Self, r)' = "static" => mirror'.regions[r] = {}
      BY <1>9, <2>5
    <3> QED
      BY <3>1, <3>2, <3>3 DEF Agrees
  <2>7. ASSUME NEW id \in Others \ strays' PROVE Alone(id)'
    <3>1. Alone(id) /\ HasTurn(id)
      BY <1>7
    <3>2. /\ id \in mirror'.known <=> \E r \in Region: Full(r) /\ id \in Present(r)'
          /\ mirror'.bodies[id] = Bit(id \in mirror'.known)
      <4>1. PICK a:
              /\ InTurn(AllMoved, ToTell, D, id, a, id \in mirror.known)
              /\ /\ id \in mirror.known \/ (a \in ToTell /\ Arrival(AllMoved[a], D, id))
                 /\ ~(a \in ToTell /\ Departure(AllMoved[a], D, id))
                 <=> \E r \in Region: Full(r) /\ id \in Present(r)'
        BY <3>1 DEF HasTurn
      <4>2. /\ id \in mirror'.known <=> /\ id \in mirror.known \/ (a \in ToTell /\ Arrival(AllMoved[a], D, id))
                                        /\ ~(a \in ToTell /\ Departure(AllMoved[a], D, id))
            /\ mirror.bodies[id] = Bit(id \in mirror.known) => mirror'.bodies[id] = Bit(id \in mirror'.known)
        BY <1>6, <1>12, <4>1
      <4>3. mirror.bodies[id] = Bit(id \in mirror.known)
        BY <3>1 DEF Alone
      <4> QED
        BY <4>1, <4>2, <4>3
    <3>3. \A r \in D: r \in Region /\ (id \in mirror'.regions[r] <=> Full(r) /\ id \in Present(r)')
      <4> TAKE r \in D
      <4>1. r \in Region /\ LevelOf(Self, r) # "none"
        BY <1>3 DEF Agrees
      <4>2. LevelOf(Self, r) \in Levels
        BY <1>2, <4>1, SelfAssumption, LevelType
      <4>3. Full(r) \/ LevelOf(Self, r) = "static"
        BY <4>1, <4>2 DEF Levels, Full
      <4> QED
        BY <2>3, <2>5, <4>1, <4>3 DEF Full
    <3>4. \A r, q \in Region: id \in Present(r)' /\ id \in Present(q)' => r = q
      <4>1. \A r \in Region: id \in Present(r)' <=> (id \in DOMAIN pc /\ To(id) = r) \/ id = Npc(r)
        BY <1>2, Walking
      <4>2. \A r \in Region: id \in DOMAIN pc => id # Npc(r)
        BY <1>2, Names DEF Types
      <4> QED
        BY <4>1, <4>2, Names
    <3>5. \A r \in Region: ~Enters(updates'[r], id) /\ ~Exits(updates'[r], id)
      BY <1>11, NoneWait
    <3>6. /\ \A r, q \in DOMAIN mirror'.regions:
               id \in mirror'.regions[r] /\ id \in mirror'.regions[q] => r = q
          /\ id \in mirror'.known <=> \E r \in DOMAIN mirror'.regions: id \in mirror'.regions[r]
      BY <2>1, <2>2, <3>2, <3>3, <3>4
    <3> QED
      BY <3>2, <3>5, <3>6 DEF Alone
  <2> QED
    BY <2>6, <2>7
<1> QED
  BY <1>6, <1>8, <1>12

LEMMA MirrorTickStep == ASSUME MirrorInv, MirrorTick PROVE MirrorInv'
<1>1. /\ TickBegin /\ Ready /\ panicked = "no" /\ ticking = "no" /\ ticking' = "first"
      /\ center' = center /\ place' = place /\ queue' = queue /\ regions' = regions
      /\ crossed' = crossed
      /\ \/ Walk /\ panicked' = "no"
         \/ pc' = pc /\ panicked' = "update_pcs"
  BY DEF MirrorTick, TickBegin, Ready, Walk
<1>2. Types /\ Waits /\ Homes /\ Fresh /\ Forms /\ ClientGoesOn /\ RegionsInv
  BY <1>1 DEF MirrorInv, RegionsInv
<1>3. RegionsInv'
  BY <1>1, <1>2, TickBeginStep
<1>4. CASE pc' = pc /\ panicked' = "update_pcs"
  <2>1. mirror' = mirror /\ updates' = updates /\ strays' = strays
    BY <1>4 DEF MirrorTick, mirrorVars
  <2>2. Forms' /\ ClientGoesOn'
    BY <1>1, <1>2, <1>4, <2>1 DEF Forms, ClientGoesOn
  <2> QED
    BY <1>3, <1>4, <2>2 DEF MirrorInv, Sound
<1>5. CASE Walk /\ panicked' = "no"
  <2>1. /\ Flush(AllMoved)
        /\ strays' = strays \cup {u \in Moving \ {Self} : Straddles(u)}
    BY <1>5 DEF MirrorTick
  <2>2. updates' = [r \in Region |-> <<>>] /\ strays \subseteq strays'
    BY <2>1 DEF Flush
  <2>3. PICK order \in SetToSeqs(ToTell): mirror' = Delivered(AllMoved, order)
    BY <2>1 DEF Flush, ToTell, Full
  <2>4. strays' \subseteq Users
    BY <1>2, <2>1 DEF Forms, Moving, Types
  <2>5. \A v, r: LevelOf(v, r)' = LevelOf(v, r)
    BY <1>1 DEF LevelOf
  <2>6. DOMAIN pc' = DOMAIN pc
    BY <1>2, <1>5, Walking
  <2>7. ToTell \in SUBSET Region /\ IsFiniteSet(ToTell)
    <3>1. IsFiniteSet(Region)
      BY DistanceAssumption, FS_Interval DEF Region
    <3>2. ToTell \in SUBSET Region
      BY DEF ToTell
    <3> QED
      BY <3>1, <3>2, FS_Subset
  <2>8. \A r \in Region: AllMoved[r] \in Seq(UpdateSet)
    BY <1>2, Walks
  <2>9. ~InGame(mirror) => mirror' = mirror
    BY <2>3 DEF Delivered
  <2>10. InGame(mirror) => IsGame(mirror) /\ (mirror' = Panic \/ IsGame(mirror'))
    <3> HAVE InGame(mirror)
    <3>1. IsGame(mirror)
      BY <1>2, InGames DEF Forms
    <3>2. \A r \in ToTell: AllMoved[r] \in Seq(UpdateSet)
      BY <2>7, <2>8
    <3>3. Delivered(AllMoved, order) = Panic \/ IsGame(Delivered(AllMoved, order))
      <4> DEFINE ups == AllMoved
      <4> HIDE DEF ups
      <4>1. \A r \in ToTell: ups[r] \in Seq(UpdateSet)
        BY <3>2 DEF ups
      <4>2. Delivered(ups, order) = Panic \/ IsGame(Delivered(ups, order))
        BY <2>7, <3>1, <4>1, DeliveredSome
      <4> QED
        BY <4>2 DEF ups
    <3> QED
      BY <2>3, <3>1, <3>3
  <2>11. Forms'
    <3>1. <<>> \in Seq(UpdateSet)
      OBVIOUS
    <3>2. updates' \in [Region -> Seq(UpdateSet)]
      BY <2>2, <3>1
    <3>3. mirror' \in {Lobby, Gone, Panic} \/ IsGame(mirror')
      BY <1>2, <2>9, <2>10 DEF Forms
    <3> QED
      BY <1>2, <2>4, <2>6, <3>2, <3>3 DEF Forms
  <2>12. Waits'
    <3>1. \A r \in Region: updates'[r] = <<>>
      BY <2>2
    <3>2. \A r \in Region: 1 .. Len(updates'[r]) = {}
      BY <3>1
    <3> QED
      BY <3>1, <3>2, NoneWait DEF Waits
  <2>13. Homes'
    BY <1>1, <1>2 DEF Homes
  <2>14. Fresh'
    <3> SUFFICES ASSUME mirror' = Lobby PROVE Fresh'
      BY DEF Fresh
    <3>1. mirror = Lobby
      BY <2>9, <2>10, InGames
    <3> QED
      BY <1>1, <1>2, <2>5, <3>1 DEF Fresh
  <2>15. ASSUME NEW id \in Others \ strays', id \in Users, Sound PROVE WalksInSight(id)
    <3> SUFFICES ASSUME Crosses(id)
                 PROVE /\ Full(From(id)) => Full(To(id)) \/ To(id) \notin DOMAIN mirror.regions
                       /\ Full(To(id)) => Full(From(id)) \/ From(id) \notin DOMAIN mirror.regions
      BY DEF WalksInSight
    <3>1. id \in Moving \ {Self} /\ From(id) # To(id)
      BY DEF Crosses, Moving, From, To, Others
    <3>2. ~Straddles(id)
      BY <2>1, <2>15, <3>1
    <3>3. {LevelOf(Self, From(id)), LevelOf(Self, To(id))} # {"full", "static"}
      BY <2>15, <3>1, <3>2 DEF Straddles, From, To, Sound
    <3>4. /\ LevelOf(Self, From(id)) \in Levels /\ LevelOf(Self, To(id)) \in Levels
      BY <1>2, LevelType
    <3>5. \A r: LevelOf(Self, r) = "none" => r \notin DOMAIN mirror.regions
      BY <2>15 DEF MirrorInv, Agrees
    <3> QED
      BY <3>3, <3>4, <3>5 DEF Levels, Full
  <2>16. ASSUME Sound PROVE /\ mirror' = Panic => strays' # {}
                            /\ mirror' # Panic => Agrees' /\ \A id \in Others \ strays': Alone(id)'
    <3>1. \A id \in Others \ strays': id \in Users => WalksInSight(id)
      BY <2>15, <2>16
    <3> QED
      BY <1>1, <1>5, <2>2, <2>3, <2>16, <3>1, Flushed
  <2>17. ClientGoesOn'
    <3> SUFFICES ASSUME mirror'.state = "panic", \A s \in Region: <<Self, s>> \notin crossed
                 PROVE strays' # {}
      BY <1>1 DEF ClientGoesOn
    <3>1. CASE InGame(mirror)
      <4>1. Sound
        BY <1>1, <3>1 DEF Sound
      <4>2. mirror' = Panic
        BY <2>10, <3>1, InGames
      <4> QED
        BY <2>16, <4>1, <4>2
    <3>2. CASE ~InGame(mirror)
      BY <1>2, <2>2, <2>9, <3>2 DEF ClientGoesOn
    <3> QED
      BY <3>1, <3>2
  <2>18. ASSUME Sound' PROVE Agrees' /\ \A id \in Others \ strays': Alone(id)'
    <3>1. InGame(mirror') /\ mirror' # Panic
      BY <2>18, InGames DEF Sound
    <3>2. InGame(mirror)
      BY <2>9, <3>1
    <3>3. Sound
      BY <1>1, <2>18, <3>2 DEF Sound
    <3> QED
      BY <2>16, <3>1, <3>3
  <2> QED
    BY <1>3, <2>11, <2>12, <2>13, <2>14, <2>17, <2>18 DEF MirrorInv
<1> QED
  BY <1>1, <1>4, <1>5

LEMMA MirrorStep == MirrorInv /\ [MirrorNext]_allVars => MirrorInv'
<1> SUFFICES ASSUME MirrorInv, [MirrorNext]_allVars PROVE MirrorInv'
  OBVIOUS
<1>1. CASE UNCHANGED allVars
  <2>1. UNCHANGED vars /\ UNCHANGED mirrorVars
    BY <1>1 DEF allVars
  <2>2. RegionsInv'
    <3>1. RegionsInv /\ [Next]_vars
      BY <2>1 DEF MirrorInv
    <3> QED
      BY <3>1, RegionsStep
  <2>3. UNCHANGED <<pc, place, queue, regions, panicked, crossed, center>> /\ ticking' = ticking
    BY <2>1 DEF vars
  <2> QED
    BY <2>1, <2>2, <2>3, MirrorStill
<1>2. CASE \E u \in Users : MirrorEnter(u)
  BY <1>2, MirrorEnterStep
<1>3. CASE \E u \in Users : MirrorLeave(u)
  BY <1>3, MirrorLeaveStep
<1>4. CASE \E u \in Users : \E cell \in Cell : MirrorUpdateSelf(u, cell)
  BY <1>4, MirrorUpdateSelfStep
<1>5. CASE MirrorTick
  BY <1>5, MirrorTickStep
<1>6. CASE MirrorTickEnd
  <2>1. TickEnd /\ UNCHANGED mirrorVars
    BY <1>6 DEF MirrorTickEnd
  <2>2. RegionsInv'
    BY <2>1, TickEndStep DEF MirrorInv
  <2>3. /\ UNCHANGED <<pc, place, queue, regions, panicked, crossed, center>> /\ ticking' = "no"
    BY <2>1 DEF TickEnd
  <2> QED
    BY <2>1, <2>2, <2>3, MirrorStill
<1>7. CASE MirrorApply
  BY <1>7, MirrorApplyStep
<1> QED
  BY <1>1, <1>2, <1>3, <1>4, <1>5, <1>6, <1>7 DEF MirrorNext, MirrorServer

\* MirrorInv is inductive: it holds at the start, and every request, every step
\* of a tick and what the client makes of it preserves it (region.rs, world.rs,
\* observer.rs and state.rs apply).
THEOREM MirrorInvariant == MirrorSpec => []MirrorInv
<1>1. MirrorInit => MirrorInv
  BY MirrorInitially
<1>2. MirrorInv /\ [MirrorNext]_allVars => MirrorInv'
  BY MirrorStep
<1> QED
  BY <1>1, <1>2, PTL DEF MirrorSpec

\* A client in game has exactly the regions that its user observes, and those
\* observed in full show, with the updates that wait, the characters that are
\* there: however characters come, go and walk, in whatever order a flush takes
\* the regions, and wherever set-ups and teardowns fall between the ticks, unless
\* opposite changes of the user met in the queue (region.rs, state.rs apply).
THEOREM ClientSeesTheWorld == MirrorSpec => []SameWorld
<1>1. MirrorInv => SameWorld
  <2> SUFFICES ASSUME MirrorInv PROVE SameWorld
    OBVIOUS
  <2>1. Forms
    BY DEF MirrorInv
  <2>2. MirrorTypeOK
    <3>1. ASSUME NEW r \in Region, NEW i \in DOMAIN updates[r]
          PROVE updates[r][i].kind \in {"enter", "exit", "update"} /\ updates[r][i].id \in Characters
      <4>1. updates[r] \in Seq(UpdateSet)
        BY <2>1 DEF Forms
      <4>2. updates[r][i] \in UpdateSet
        BY <4>1, LenProperties
      <4> QED
        BY <4>2 DEF UpdateSet
    <3>2. mirror.state \in {"lobby", "game", "gone", "panic"}
      BY <2>1, InGames DEF Forms
    <3>3. ASSUME InGame(mirror)
          PROVE /\ DOMAIN mirror.regions \subseteq Region
                /\ \A r \in DOMAIN mirror.regions : mirror.regions[r] \subseteq Characters \ {Self}
                /\ mirror.known \subseteq Characters \ {Self}
                /\ mirror.bodies \in [Characters -> Nat]
      <4>1. IsGame(mirror)
        BY <2>1, <3>3, InGames DEF Forms
      <4> QED
        BY <4>1 DEF IsGame, Others
    <3> QED
      BY <2>1, <3>1, <3>2, <3>3 DEF MirrorTypeOK, Forms
  <2>3. Sound => /\ DOMAIN mirror.regions = {r \in Region : LevelOf(Self, r) # "none"}
                 /\ \A r \in Region : LevelOf(Self, r) = "full" => Shown(r) = Present(r)
    BY DEF MirrorInv, Agrees, Full
  <2> QED
    BY <2>2, <2>3 DEF SameWorld
<1> QED
  BY <1>1, MirrorInvariant, PTL

\* A character that the client shows is in one region there and has one body,
\* and what it does not show has none, as long as the character does not walk
\* between a region observed in full and one observed without its characters
\* and is not announced twice (state.rs, region.rs Ord for Entry).
THEOREM BodiesAreSingle == MirrorSpec => []OneBodyEach
<1>1. MirrorInv => OneBodyEach
  <2> SUFFICES ASSUME MirrorInv, Sound, NEW id \in Characters \ strays
               PROVE LET in == {r \in DOMAIN mirror.regions : id \in mirror.regions[r]} IN
                     /\ Cardinality(in) = (IF id \in mirror.known THEN 1 ELSE 0)
                     /\ mirror.bodies[id] = Cardinality(in)
    BY DEF OneBodyEach
  <2> DEFINE in == {r \in DOMAIN mirror.regions : id \in mirror.regions[r]}
  <2>1. IsGame(mirror)
    BY InGames DEF MirrorInv, Forms, Sound
  <2>2. /\ id \in mirror.known <=> in # {}
        /\ \A r, q \in in: r = q
        /\ mirror.bodies[id] = IF id \in mirror.known THEN 1 ELSE 0
    <3>1. CASE id = Self
      BY <2>1, <3>1 DEF IsGame, Others
    <3>2. CASE id # Self
      <4>1. Alone(id)
        BY <3>2 DEF MirrorInv, Others
      <4> QED
        BY <4>1 DEF Alone, Bit
    <3> QED
      BY <3>1, <3>2
  <2> HIDE DEF in
  <2>3. Cardinality(in) = IF id \in mirror.known THEN 1 ELSE 0
    <3>1. CASE in = {}
      BY <2>2, <3>1, FS_EmptySet
    <3>2. CASE in # {}
      <4>1. PICK r \in in: in = {r}
        BY <2>2, <3>2
      <4>2. Cardinality(in) = 1
        BY <4>1, FS_Singleton
      <4> QED
        BY <2>2, <3>2, <4>2
    <3> QED
      BY <3>1, <3>2
  <2> QED
    BY <2>2, <2>3 DEF in
<1> QED
  BY <1>1, MirrorInvariant, PTL

\* The unwraps of the client fail only after opposite changes of its user met in
\* the queue, or after it may have lost track of a character (state.rs apply).
THEOREM ClientKeepsGoing == MirrorSpec => []ClientGoesOn
<1>1. MirrorInv => ClientGoesOn
  BY DEF MirrorInv
<1> QED
  BY <1>1, MirrorInvariant, PTL

=============================================================================
