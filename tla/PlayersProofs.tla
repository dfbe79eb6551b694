---------------------------- MODULE PlayersProofs ----------------------------
(***************************************************************************)
(* Proofs about module Players, for any users, sessions, slots, number of  *)
(* characters and restarts: every character of the file is accounted for,  *)
(* users in game have one body each and their own character, and where a   *)
(* character stands was decided by its player.                             *)
(***************************************************************************)
EXTENDS Players, TLAPS, SequenceTheorems, FiniteSetTheorems

Worlds ==
  [index: [Users -> Int], slots: Seq([Slots -> Int]), used: Seq({0, 1}), free: Seq(Int),
   owner: Seq(Int \X Slots), place: Seq(Users \cup {Start})]

\* What holds of the records of the file even after a panic.
World(w) == w \in Worlds /\ IsWorld(w) /\ OnePlayer(w)

\* Partitioned, the other way round: what a slot holds is not free and owned by
\* the slot, what is not free is held by its slot, and nothing is free twice.
HeldIsOwned(w) ==
  \A p \in 1 .. Len(w.slots), s \in Slots:
    w.slots[p][s] # None =>
      /\ w.slots[p][s] \notin Range(w.free)
      /\ w.owner[w.slots[p][s] + 1] = <<p - 1, s>>

OwnedIsHeld(w) ==
  \A id \in Ids(w): id \notin Range(w.free) =>
    w.slots[w.owner[id + 1][1] + 1][w.owner[id + 1][2]] = id

Accounted(w) == HeldIsOwned(w) /\ OwnedIsHeld(w) /\ IsInjective(w.free)

\* As OwnPlaces.
Placed(w) ==
  \A id \in Ids(w): id \notin Range(w.free) =>
    \/ w.place[id + 1] = Start
    \/ w.place[id + 1] \in Users /\ w.index[w.place[id + 1]] = w.owner[id + 1][1]

\* The records of the file, in memory and saved.
Recorded ==
  /\ World(world) /\ World(saved)
  /\ Accounted(saved) /\ (Running => Accounted(world))
  /\ ~orphaned => Placed(saved) /\ (Running => Placed(world))

Entries == [user: Users, id: Nat, handle: Nat, place: Users \cup {Start}]
LiveBodies == [handle: Nat, at: Users \cup {Start}, target: Users \cup {Start}]

\* The types of everything else.
Typed ==
  /\ session \in [Sessions -> {"none", "open"}]
  /\ observers \in [Users -> Int]
  /\ \A u \in Users: observers[u] # None => observers[u] \in Ids(world)
  /\ waiting \subseteq Entries /\ \A e \in waiting: e.id \in Ids(world)
  /\ live \in [DOMAIN live -> LiveBodies] /\ \A id \in DOMAIN live: id \in Ids(world)
  /\ bodies \subseteq Nat /\ IsFiniteSet(bodies)
  /\ panicked \in {"no", "remove", "free"}
  /\ opens \in 0 .. MaxOpens
  /\ orphaned \in BOOLEAN

\* Whoever has a session has a player.
Known == \A c \in Sessions: session[c] = "open" => world.index[UserOf[c]] # None

\* A handle is in one place only.
Handles ==
  /\ \A e \in waiting: e.handle \in bodies
  /\ \A id \in DOMAIN live: live[id].handle \in bodies
  /\ \A e, f \in waiting: e.handle = f.handle => e = f
  /\ \A i, j \in DOMAIN live: live[i].handle = live[j].handle => i = j
  /\ \A e \in waiting, id \in DOMAIN live: e.handle # live[id].handle

Playing == {u \in Users: observers[u] # None}
Calm == Running /\ ~orphaned

\* Who is in game has a character of his own.
OwnCharacter ==
  Calm => \A u \in Users: observers[u] # None =>
    /\ world.owner[observers[u] + 1][1] = world.index[u]
    /\ observers[u] \notin Range(world.free)

\* Each character in game waits or is live, for the user in game with it.
InGameOnce ==
  Calm =>
    /\ \A e \in waiting: observers[e.user] = e.id /\ e.id \notin DOMAIN live
    /\ \A e, f \in waiting: e.id = f.id => e = f
    /\ \A id \in DOMAIN live: \E u \in Users: observers[u] = id
    /\ \A u \in Users: observers[u] # None =>
         observers[u] \in DOMAIN live \/ \E e \in waiting: e.id = observers[u]

\* ... and there is no other body.
NoOtherBody ==
  Calm =>
    /\ \A h \in bodies:
         (\E e \in waiting: e.handle = h) \/ \E id \in DOMAIN live: live[id].handle = h
    /\ IsFiniteSet(Playing)
    /\ Cardinality(bodies) = Cardinality(Playing)

\* The body of a user is where the user moved it.
MovedByOwner ==
  Calm =>
    /\ \A e \in waiting: e.place \in {Start, e.user}
    /\ \A u \in Users: observers[u] \in DOMAIN live =>
         {live[observers[u]].at, live[observers[u]].target} \subseteq {Start, u}

PlayersInv ==
  /\ Recorded /\ Typed /\ Known /\ Handles
  /\ OwnCharacter /\ InGameOnce /\ NoOtherBody /\ MovedByOwner

-----------------------------------------------------------------------------
(* What the operations on the file do to its records. *)

\* A sequence whose elements are in a set is a sequence over it.
LEMMA SeqOfElements ==
  ASSUME NEW S, NEW T, NEW q \in Seq(S), \A i \in 1 .. Len(q): q[i] \in T
  PROVE q \in Seq(T)
BY LenProperties, IsASeq

\* The columns of a file that World describes.
LEMMA Columns ==
  ASSUME NEW w, World(w)
  PROVE /\ w.index \in [Users -> Int] /\ w.slots \in Seq([Slots -> Int])
        /\ w.used \in Seq({0, 1}) /\ w.free \in Seq(Int)
        /\ w.owner \in Seq(Int \X Slots) /\ w.place \in Seq(Users \cup {Start})
        /\ Len(w.slots) \in Nat /\ Len(w.used) \in Nat /\ Len(w.free) \in Nat
        /\ Len(w.owner) = Len(w.used) /\ Len(w.place) = Len(w.used)
        /\ \A u \in Users: w.index[u] # None => w.index[u] \in 0 .. Len(w.slots) - 1
        /\ \A p \in 1 .. Len(w.slots): w.slots[p] \in [Slots -> Int]
        /\ \A p \in 1 .. Len(w.slots), s \in Slots: w.slots[p][s] # None => w.slots[p][s] \in Ids(w)
        /\ \A id \in Ids(w):
             /\ w.owner[id + 1] \in Int \X Slots
             /\ w.owner[id + 1][1] \in 0 .. Len(w.slots) - 1 /\ w.owner[id + 1][2] \in Slots
             /\ w.place[id + 1] \in Users \cup {Start}
        /\ \A i \in 1 .. Len(w.free): w.free[i] \in Ids(w)
        /\ \A id: id \in Range(w.free) <=> \E i \in 1 .. Len(w.free): w.free[i] = id
<1>1. /\ w.index \in [Users -> Int] /\ w.slots \in Seq([Slots -> Int])
      /\ w.used \in Seq({0, 1}) /\ w.free \in Seq(Int)
      /\ w.owner \in Seq(Int \X Slots) /\ w.place \in Seq(Users \cup {Start})
  BY DEF World, Worlds
<1>2. /\ Len(w.slots) \in Nat /\ Len(w.used) \in Nat /\ Len(w.free) \in Nat
      /\ Len(w.owner) = Len(w.used) /\ Len(w.place) = Len(w.used)
      /\ DOMAIN w.free = 1 .. Len(w.free)
  BY <1>1, LenProperties DEF World, IsWorld
<1>3. \A u \in Users: w.index[u] # None => w.index[u] \in 0 .. Len(w.slots) - 1
  BY DEF World, IsWorld
<1>4. \A p \in 1 .. Len(w.slots): w.slots[p] \in [Slots -> {None} \cup Ids(w)]
  BY ElementOfSeq DEF World, IsWorld
<1>5. \A i \in 1 .. Len(w.owner): w.owner[i] \in (0 .. Len(w.slots) - 1) \X Slots
  BY ElementOfSeq DEF World, IsWorld
<1>6. \A i \in 1 .. Len(w.place): w.place[i] \in Users \cup {Start}
  BY ElementOfSeq DEF World, IsWorld
<1>7. \A i \in 1 .. Len(w.free): w.free[i] \in Ids(w)
  BY ElementOfSeq DEF World, IsWorld
<1>8. \A id: id \in Range(w.free) <=> \E i \in 1 .. Len(w.free): w.free[i] = id
  BY <1>2 DEF Range
<1>9. \A p \in 1 .. Len(w.slots): w.slots[p] \in [Slots -> Int]
  BY <1>1, ElementOfSeq
<1>10. \A p \in 1 .. Len(w.slots), s \in Slots: w.slots[p][s] # None => w.slots[p][s] \in Ids(w)
  BY <1>4
<1>11. ASSUME NEW id \in Ids(w)
       PROVE /\ w.owner[id + 1] \in Int \X Slots
             /\ w.owner[id + 1][1] \in 0 .. Len(w.slots) - 1 /\ w.owner[id + 1][2] \in Slots
             /\ w.place[id + 1] \in Users \cup {Start}
  <2>1. id + 1 \in 1 .. Len(w.used)
    BY <1>2 DEF Ids
  <2>2. w.owner[id + 1] \in (0 .. Len(w.slots) - 1) \X Slots
    BY <2>1, <1>2, <1>5
  <2>3. w.place[id + 1] \in Users \cup {Start}
    BY <2>1, <1>2, <1>6
  <2> QED
    BY <2>2, <2>3
<1> QED
  BY <1>1, <1>2, <1>3, <1>7, <1>8, <1>9, <1>10, <1>11

\* The other way round: what shows that World holds.
LEMMA FromColumns ==
  ASSUME NEW w, w \in Worlds,
         Len(w.owner) = Len(w.used), Len(w.place) = Len(w.used),
         \A u \in Users: w.index[u] # None => w.index[u] \in 0 .. Len(w.slots) - 1,
         \A p \in 1 .. Len(w.slots), s \in Slots: w.slots[p][s] # None => w.slots[p][s] \in Ids(w),
         \A id \in Ids(w): w.owner[id + 1][1] \in 0 .. Len(w.slots) - 1,
         \A i \in 1 .. Len(w.free): w.free[i] \in Ids(w),
         \A u, v \in Users: w.index[u] # None /\ w.index[u] = w.index[v] => u = v,
         \A k \in 0 .. Len(w.slots) - 1: \E u \in Users: w.index[u] = k
  PROVE World(w)
<1>1. /\ w.index \in [Users -> Int] /\ w.slots \in Seq([Slots -> Int])
      /\ w.used \in Seq({0, 1}) /\ w.free \in Seq(Int)
      /\ w.owner \in Seq(Int \X Slots) /\ w.place \in Seq(Users \cup {Start})
  BY DEF Worlds
<1>2. /\ Len(w.slots) \in Nat /\ Len(w.used) \in Nat /\ Len(w.free) \in Nat
  BY <1>1, LenProperties
<1>3. w.index \in [Users -> {None} \cup 0 .. Len(w.slots) - 1]
  BY <1>1
<1>4. w.slots \in Seq([Slots -> {None} \cup Ids(w)])
  <2>1. \A p \in 1 .. Len(w.slots): w.slots[p] \in [Slots -> Int]
    BY <1>1, ElementOfSeq
  <2>2. \A p \in 1 .. Len(w.slots): w.slots[p] \in [Slots -> {None} \cup Ids(w)]
    BY <2>1
  <2> DEFINE T == [Slots -> {None} \cup Ids(w)]
  <2>3. \A p \in 1 .. Len(w.slots): w.slots[p] \in T
    BY <2>2
  <2> HIDE DEF T
  <2>4. w.slots \in Seq(T)
    BY <1>1, <2>3, SeqOfElements
  <2> QED
    BY <2>4 DEF T
<1>5. w.owner \in Seq((0 .. Len(w.slots) - 1) \X Slots)
  <2>1. \A i \in 1 .. Len(w.owner): i - 1 \in Ids(w) /\ i = i - 1 + 1
    BY <1>2 DEF Ids
  <2>2. \A i \in 1 .. Len(w.owner): w.owner[i] \in Int \X Slots
    BY <1>1, ElementOfSeq
  <2>3. \A i \in 1 .. Len(w.owner): w.owner[i] \in (0 .. Len(w.slots) - 1) \X Slots
    BY <2>1, <2>2
  <2> DEFINE T == (0 .. Len(w.slots) - 1) \X Slots
  <2>4. \A i \in 1 .. Len(w.owner): w.owner[i] \in T
    BY <2>3
  <2> HIDE DEF T
  <2>5. w.owner \in Seq(T)
    BY <1>1, <2>4, SeqOfElements
  <2> QED
    BY <2>5 DEF T
<1>6. w.free \in Seq(Ids(w))
  BY <1>1, SeqOfElements
<1>7. OnePlayer(w)
  <2>1. ASSUME NEW k \in {w.index[u]: u \in Users} \ {None} PROVE k \in 0 .. Len(w.slots) - 1
    OBVIOUS
  <2>2. ASSUME NEW k \in 0 .. Len(w.slots) - 1 PROVE k \in {w.index[u]: u \in Users} \ {None}
    BY <1>2 DEF None
  <2> QED
    BY <2>1, <2>2 DEF OnePlayer
<1> QED
  BY <1>1, <1>3, <1>4, <1>5, <1>6, <1>7 DEF World, IsWorld

Bind(w, p, s, x) == [w EXCEPT !.slots[p][s] = x]

LEMMA Binding ==
  ASSUME NEW w \in Worlds, NEW p \in 1 .. Len(w.slots), NEW s \in Slots, NEW x \in Int
  PROVE LET r == Bind(w, p, s, x) IN
        /\ r \in Worlds
        /\ r.index = w.index /\ r.used = w.used /\ r.free = w.free
        /\ r.owner = w.owner /\ r.place = w.place
        /\ Len(r.slots) = Len(w.slots)
        /\ \A q \in 1 .. Len(w.slots), t \in Slots:
             r.slots[q][t] = IF q = p /\ t = s THEN x ELSE w.slots[q][t]
<1> DEFINE column == [w.slots[p] EXCEPT ![s] = x]
           slots == [w.slots EXCEPT ![p] = column]
           r == Bind(w, p, s, x)
<1>1. w.slots \in Seq([Slots -> Int])
  BY DEF Worlds
<1>2. w.slots[p] \in [Slots -> Int]
  BY <1>1, ElementOfSeq
<1>3. column \in [Slots -> Int] /\ \A t \in Slots: column[t] = IF t = s THEN x ELSE w.slots[p][t]
  BY <1>2
<1>4. /\ slots \in Seq([Slots -> Int]) /\ Len(slots) = Len(w.slots)
      /\ \A q \in 1 .. Len(w.slots): slots[q] = IF q = p THEN column ELSE w.slots[q]
  <2> HIDE DEF column
  <2> QED
    BY <1>1, <1>3, ExceptSeq
<1>5. r = [w EXCEPT !.slots = slots]
  BY DEF Bind
<1>6. /\ r \in Worlds /\ r.slots = slots
      /\ r.index = w.index /\ r.used = w.used /\ r.free = w.free
      /\ r.owner = w.owner /\ r.place = w.place
  <2> HIDE DEF slots, r
  <2> QED
    BY <1>4, <1>5 DEF Worlds
<1> HIDE DEF column, slots
<1> QED
  BY <1>3, <1>4, <1>6

LEMMA LastOut ==
  ASSUME NEW S, NEW q \in Seq(S), q # <<>>
  PROVE /\ Len(q) \in Nat \ {0} /\ Last(q) = q[Len(q)]
        /\ Front(q) \in Seq(S) /\ Len(Front(q)) = Len(q) - 1
        /\ \A i \in 1 .. Len(q) - 1: Front(q)[i] = q[i]
<1>1. Len(q) \in Nat \ {0} /\ \A i \in 1 .. Len(q): q[i] \in S
  BY EmptySeq, ElementOfSeq
<1> DEFINE n == Len(q) - 1
<1>2. n \in Nat /\ \A i \in 1 .. n: q[i] \in S
  BY <1>1
<1> HIDE DEF n
<1>3. /\ SubSeq(q, 1, n) \in Seq(S)
      /\ Len(SubSeq(q, 1, n)) = IF 1 <= n THEN n - 1 + 1 ELSE 0
      /\ \A i \in 1 .. n - 1 + 1: SubSeq(q, 1, n)[i] = q[1 + i - 1]
  BY <1>2, SubSeqProperties
<1>4. n - 1 + 1 = n /\ \A i \in 1 .. n: 1 + i - 1 = i
  BY <1>2
<1>5. Len(SubSeq(q, 1, n)) = n /\ \A i \in 1 .. n: SubSeq(q, 1, n)[i] = q[i]
  BY <1>2, <1>3, <1>4
<1>6. Front(q) = SubSeq(q, 1, n)
  BY DEF Front, n
<1>7. n = Len(q) - 1
  BY DEF n
<1> QED
  BY <1>1, <1>3, <1>5, <1>6, <1>7 DEF Last

\* add gives an index that is free or new, and changes no other.
LEMMA Adding ==
  ASSUME NEW w, World(w), IsInjective(w.free), NEW o \in (0 .. Len(w.slots) - 1) \X Slots
  PROVE LET r == Add(w, o).w
            id == Add(w, o).id
        IN /\ r \in Worlds /\ id \in Nat
           /\ r.index = w.index /\ r.slots = w.slots
           /\ Len(r.owner) = Len(r.used) /\ Len(r.place) = Len(r.used)
           /\ \A i: i \in Ids(r) <=> i \in Ids(w) \/ i = id
           /\ id \notin Ids(w) \/ id \in Range(w.free)
           /\ \A i: i \in Range(r.free) <=> i \in Range(w.free) /\ i # id
           /\ IsInjective(r.free)
           /\ r.owner[id + 1] = o /\ r.place[id + 1] = Start
           /\ \A i \in Ids(w): i # id =>
                r.owner[i + 1] = w.owner[i + 1] /\ r.place[i + 1] = w.place[i + 1]
<1> DEFINE r == Add(w, o).w
           id == Add(w, o).id
<1>1. /\ w.index \in [Users -> Int] /\ w.slots \in Seq([Slots -> Int])
      /\ w.used \in Seq({0, 1}) /\ w.free \in Seq(Int)
      /\ w.owner \in Seq(Int \X Slots) /\ w.place \in Seq(Users \cup {Start})
      /\ Len(w.slots) \in Nat /\ Len(w.used) \in Nat /\ Len(w.free) \in Nat
      /\ Len(w.owner) = Len(w.used) /\ Len(w.place) = Len(w.used)
      /\ \A i \in 1 .. Len(w.free): w.free[i] \in Ids(w)
      /\ \A i: i \in Range(w.free) <=> \E k \in 1 .. Len(w.free): w.free[k] = i
  BY Columns
<1>2. o \in Int \X Slots
  OBVIOUS
<1>3. CASE w.free = <<>>
  <2> DEFINE used == Append(w.used, 1)
             owner == Append(w.owner, o)
             place == Append(w.place, Start)
  <2>1. r = [w EXCEPT !.used = used, !.owner = owner, !.place = place] /\ id = Len(w.used)
    BY <1>3 DEF Add
  <2>2. /\ used \in Seq({0, 1}) /\ Len(used) = Len(w.used) + 1
    BY <1>1, AppendProperties
  <2>3. /\ owner \in Seq(Int \X Slots) /\ Len(owner) = Len(w.owner) + 1
        /\ owner[Len(w.owner) + 1] = o /\ \A i \in 1 .. Len(w.owner): owner[i] = w.owner[i]
    <3> DEFINE S == Int \X Slots
    <3>1. w.owner \in Seq(S) /\ o \in S
      BY <1>1, <1>2
    <3> HIDE DEF S
    <3>2. /\ owner \in Seq(S) /\ Len(owner) = Len(w.owner) + 1
          /\ owner[Len(w.owner) + 1] = o /\ \A i \in 1 .. Len(w.owner): owner[i] = w.owner[i]
      BY <3>1, AppendProperties
    <3> QED
      BY <3>2 DEF S
  <2>4. /\ place \in Seq(Users \cup {Start}) /\ Len(place) = Len(w.place) + 1
        /\ place[Len(w.place) + 1] = Start /\ \A i \in 1 .. Len(w.place): place[i] = w.place[i]
    <3> DEFINE S == Users \cup {Start}
    <3>1. w.place \in Seq(S) /\ Start \in S
      BY <1>1
    <3> HIDE DEF S
    <3>2. /\ place \in Seq(S) /\ Len(place) = Len(w.place) + 1
          /\ place[Len(w.place) + 1] = Start /\ \A i \in 1 .. Len(w.place): place[i] = w.place[i]
      BY <3>1, AppendProperties
    <3> QED
      BY <3>2 DEF S
  <2> HIDE DEF used, owner, place
  <2>5. /\ r \in Worlds /\ r.index = w.index /\ r.slots = w.slots /\ r.free = w.free
        /\ r.used = used /\ r.owner = owner /\ r.place = place
    <3> HIDE DEF r
    <3> QED
      BY <2>1, <2>2, <2>3, <2>4 DEF World, Worlds
  <2> HIDE DEF r, id
  <2>6. \A i: i \in Ids(r) <=> i \in Ids(w) \/ i = id
    BY <1>1, <2>1, <2>2, <2>5 DEF Ids
  <2>7. id \notin Ids(w) /\ id \in Nat
    BY <1>1, <2>1 DEF Ids
  <2>8. \A i: i \in Range(r.free) <=> i \in Range(w.free) /\ i # id
    BY <1>1, <2>5, <2>7
  <2>9. \A i \in Ids(w): r.owner[i + 1] = w.owner[i + 1] /\ r.place[i + 1] = w.place[i + 1]
    BY <1>1, <2>3, <2>4, <2>5 DEF Ids
  <2>10. r.owner[id + 1] = o /\ r.place[id + 1] = Start
    BY <1>1, <2>1, <2>3, <2>4, <2>5
  <2> QED
    BY <1>1, <2>1, <2>2, <2>3, <2>4, <2>5, <2>6, <2>7, <2>8, <2>9, <2>10 DEF r, id
<1>4. CASE w.free # <<>>
  <2> DEFINE free == Front(w.free)
             owner == [w.owner EXCEPT ![id + 1] = o]
             place == [w.place EXCEPT ![id + 1] = Start]
  <2>1. r = [w EXCEPT !.free = free, !.owner[id + 1] = o, !.place[id + 1] = Start] /\ id = Last(w.free)
    BY <1>4 DEF Add
  <2> HIDE DEF id
  <2>2. /\ Len(w.free) \in Nat \ {0} /\ id = w.free[Len(w.free)] /\ Len(w.free) \in 1 .. Len(w.free)
        /\ free \in Seq(Int) /\ Len(free) = Len(w.free) - 1
        /\ \A i \in 1 .. Len(w.free) - 1: free[i] = w.free[i]
    <3>1. /\ Len(w.free) \in Nat \ {0} /\ Last(w.free) = w.free[Len(w.free)]
          /\ free \in Seq(Int) /\ Len(free) = Len(w.free) - 1
          /\ \A i \in 1 .. Len(w.free) - 1: free[i] = w.free[i]
      BY <1>1, <1>4, LastOut
    <3>2. Len(w.free) \in 1 .. Len(w.free)
      BY <3>1
    <3> QED
      BY <2>1, <3>1, <3>2
  <2>3. id \in Ids(w) /\ id \in Range(w.free)
    BY <1>1, <2>2
  <2>4. id \in Nat /\ id + 1 \in 1 .. Len(w.used)
    BY <1>1, <2>3 DEF Ids
  <2>5. /\ owner \in Seq(Int \X Slots) /\ Len(owner) = Len(w.owner)
        /\ \A i \in 1 .. Len(w.owner): owner[i] = IF i = id + 1 THEN o ELSE w.owner[i]
    <3> DEFINE S == Int \X Slots
    <3>1. w.owner \in Seq(S) /\ o \in S
      BY <1>1, <1>2
    <3> HIDE DEF S
    <3>2. /\ owner \in Seq(S) /\ Len(owner) = Len(w.owner)
          /\ \A i \in 1 .. Len(w.owner): owner[i] = IF i = id + 1 THEN o ELSE w.owner[i]
      <4>1. id + 1 \in 1 .. Len(w.owner)
        BY <1>1, <2>4
      <4> QED
        BY <3>1, <4>1, ExceptSeq
    <3> QED
      BY <3>2 DEF S
  <2>6. /\ place \in Seq(Users \cup {Start}) /\ Len(place) = Len(w.place)
        /\ \A i \in 1 .. Len(w.place): place[i] = IF i = id + 1 THEN Start ELSE w.place[i]
    <3> DEFINE S == Users \cup {Start}
    <3>1. w.place \in Seq(S) /\ Start \in S
      BY <1>1
    <3> HIDE DEF S
    <3>2. /\ place \in Seq(S) /\ Len(place) = Len(w.place)
          /\ \A i \in 1 .. Len(w.place): place[i] = IF i = id + 1 THEN Start ELSE w.place[i]
      <4>1. id + 1 \in 1 .. Len(w.place)
        BY <1>1, <2>4
      <4> QED
        BY <3>1, <4>1, ExceptSeq
    <3> QED
      BY <3>2 DEF S
  <2>7. r = [w EXCEPT !.free = free, !.owner = owner, !.place = place]
    <3> HIDE DEF r, free
    <3> QED
      BY <2>1 DEF World, Worlds
  <2> HIDE DEF free, owner, place, r
  <2>8. /\ r \in Worlds /\ r.index = w.index /\ r.slots = w.slots /\ r.used = w.used
        /\ r.free = free /\ r.owner = owner /\ r.place = place
    BY <2>7, <2>2, <2>5, <2>6 DEF World, Worlds
  <2>9. Ids(r) = Ids(w)
    BY <2>8 DEF Ids
  <2>10. \A i, j \in 1 .. Len(w.free): w.free[i] = w.free[j] => i = j
    BY <1>1, LenProperties DEF IsInjective
  <2>11. DOMAIN free = 1 .. Len(w.free) - 1
    BY <2>2, LenProperties
  <2>17. \A i: i \in 1 .. Len(w.free) <=> i \in 1 .. Len(w.free) - 1 \/ i = Len(w.free)
    BY <2>2
  <2>18. \A i \in 1 .. Len(w.free) - 1: i # Len(w.free)
    BY <2>2
  <2>12. \A i: i \in Range(free) <=> \E k \in 1 .. Len(w.free) - 1: w.free[k] = i
    BY <2>2, <2>11 DEF Range
  <2>13. \A i: i \in Range(free) <=> i \in Range(w.free) /\ i # id
    <3>1. ASSUME NEW k \in 1 .. Len(w.free) - 1 PROVE w.free[k] # id
      BY <2>2, <2>10, <2>17, <2>18
    <3>2. \A i: i \in Range(w.free) <=> (\E k \in 1 .. Len(w.free) - 1: w.free[k] = i) \/ i = id
      BY <1>1, <2>2, <2>17
    <3> QED
      BY <2>12, <3>1, <3>2
  <2>14. IsInjective(free)
    BY <2>2, <2>10, <2>11, <2>17 DEF IsInjective
  <2>15. \A i \in Ids(w): i # id =>
           r.owner[i + 1] = w.owner[i + 1] /\ r.place[i + 1] = w.place[i + 1]
    BY <1>1, <2>4, <2>5, <2>6, <2>8 DEF Ids
  <2>16. r.owner[id + 1] = o /\ r.place[id + 1] = Start
    BY <1>1, <2>4, <2>5, <2>6, <2>8
  <2> QED
    BY <1>1, <2>3, <2>4, <2>5, <2>6, <2>8, <2>9, <2>13, <2>14, <2>15, <2>16 DEF r, id
<1> QED
  BY <1>3, <1>4

\* What is kept of every player and of every character that is not free.
Grows(w, r) ==
  /\ \A u \in Users: w.index[u] # None => r.index[u] = w.index[u]
  /\ \A id \in Ids(w):
       /\ id \in Ids(r)
       /\ id \notin Range(w.free) =>
            id \notin Range(r.free) /\ r.owner[id + 1] = w.owner[id + 1]

\* No two users are the same player, and every player is somebody's.
LEMMA Players ==
  ASSUME NEW w, World(w)
  PROVE /\ \A u, v \in Users: w.index[u] # None /\ w.index[u] = w.index[v] => u = v
        /\ \A k \in 0 .. Len(w.slots) - 1: \E u \in Users: w.index[u] = k
<1>1. OnePlayer(w)
  BY DEF World
<1>2. \A k \in 0 .. Len(w.slots) - 1: k \in {w.index[u]: u \in Users}
  BY <1>1 DEF OnePlayer
<1> QED
  BY <1>1, <1>2 DEF OnePlayer

\* spawn_pc in an empty slot leaves every character accounted for.
LEMMA Spawning ==
  ASSUME NEW w, World(w), Accounted(w), NEW u \in Users, NEW s \in Slots,
         w.index[u] # None, SlotAt(w, u, s) = None
  PROVE LET r == SpawnPc(w, u, s) IN
        World(r) /\ Accounted(r) /\ Grows(w, r) /\ (Placed(w) => Placed(r))
<1> DEFINE o == <<w.index[u], s>>
           p == w.index[u] + 1
           a == Add(w, o).w
           id == Add(w, o).id
           r == SpawnPc(w, u, s)
<1>1. /\ Len(w.slots) \in Nat /\ Len(w.used) \in Nat
      /\ \A v \in Users: w.index[v] # None => w.index[v] \in 0 .. Len(w.slots) - 1
      /\ \A q \in 1 .. Len(w.slots), t \in Slots: w.slots[q][t] # None => w.slots[q][t] \in Ids(w)
      /\ \A i \in Ids(w):
           /\ w.owner[i + 1] \in Int \X Slots
           /\ w.owner[i + 1][1] \in 0 .. Len(w.slots) - 1 /\ w.owner[i + 1][2] \in Slots
  BY Columns
<1>2. o \in (0 .. Len(w.slots) - 1) \X Slots /\ p \in 1 .. Len(w.slots) /\ w.slots[p][s] = None
  BY <1>1 DEF SlotAt
<1>3. /\ a \in Worlds /\ id \in Nat
      /\ a.index = w.index /\ a.slots = w.slots
      /\ Len(a.owner) = Len(a.used) /\ Len(a.place) = Len(a.used)
      /\ \A i: i \in Ids(a) <=> i \in Ids(w) \/ i = id
      /\ id \notin Ids(w) \/ id \in Range(w.free)
      /\ \A i: i \in Range(a.free) <=> i \in Range(w.free) /\ i # id
      /\ IsInjective(a.free)
      /\ a.owner[id + 1] = o /\ a.place[id + 1] = Start
      /\ \A i \in Ids(w): i # id =>
           a.owner[i + 1] = w.owner[i + 1] /\ a.place[i + 1] = w.place[i + 1]
  <2> HIDE DEF o
  <2>1. IsInjective(w.free)
    BY DEF Accounted
  <2> QED
    BY <1>2, <2>1, Adding
<1>4. r = Bind(a, p, s, id)
  BY DEF SpawnPc, Bind
<1> HIDE DEF o, a, id, r
<1>5. /\ r \in Worlds
      /\ r.index = a.index /\ r.used = a.used /\ r.free = a.free
      /\ r.owner = a.owner /\ r.place = a.place
      /\ Len(r.slots) = Len(a.slots)
      /\ \A q \in 1 .. Len(a.slots), t \in Slots:
           r.slots[q][t] = IF q = p /\ t = s THEN id ELSE a.slots[q][t]
  <2>1. p \in 1 .. Len(a.slots) /\ a \in Worlds /\ id \in Int
    BY <1>2, <1>3
  <2> HIDE DEF p
  <2> QED
    BY <1>4, <2>1, Binding
<1>6. Ids(r) = Ids(a) /\ Ids(w) \subseteq Ids(r) /\ id \in Ids(r) /\ id # None
  <2>1. Ids(r) = Ids(a)
    BY <1>5 DEF Ids
  <2>2. id \in Nat /\ \A i: i \in Ids(a) <=> i \in Ids(w) \/ i = id
    BY <1>3
  <2>3. id # None
    BY <2>2 DEF None
  <2> QED
    BY <2>1, <2>2, <2>3
<1>7. id \notin Range(r.free) /\ \A i \in Range(r.free): i \in Range(w.free) /\ i # id
  BY <1>3, <1>5
<1>8. \A q \in 1 .. Len(w.slots), t \in Slots: w.slots[q][t] # id
  <2> TAKE q \in 1 .. Len(w.slots), t \in Slots
  <2> QED
    BY <1>1, <1>3, <1>6 DEF Accounted, HeldIsOwned
<1>9. \A q \in 1 .. Len(w.slots), t \in Slots:
        r.slots[q][t] = IF q = p /\ t = s THEN id ELSE w.slots[q][t]
  BY <1>3, <1>5
<1>10. \A i \in Ids(r): i # id => i \in Ids(w) /\ r.owner[i + 1] = w.owner[i + 1] /\ r.place[i + 1] = w.place[i + 1]
  BY <1>3, <1>5, <1>6
<1>11. r.owner[id + 1] = <<p - 1, s>> /\ r.place[id + 1] = Start
  BY <1>1, <1>3, <1>5 DEF o
<1>12. World(r)
  <2>1. \A i \in 1 .. Len(r.free): r.free[i] \in Ids(r)
    <3>1. \A i \in 1 .. Len(r.free): r.free[i] \in Range(r.free)
      BY <1>5, LenProperties DEF Worlds, Range
    <3>2. \A i \in Range(w.free): i \in Ids(w)
      <4>1. /\ \A k \in 1 .. Len(w.free): w.free[k] \in Ids(w)
            /\ \A i: i \in Range(w.free) <=> \E k \in 1 .. Len(w.free): w.free[k] = i
        BY Columns
      <4> QED
        BY <4>1
    <3> QED
      BY <1>6, <1>7, <3>1, <3>2
  <2>2. \A i \in Ids(r): r.owner[i + 1][1] \in 0 .. Len(r.slots) - 1
    BY <1>1, <1>2, <1>3, <1>5, <1>10, <1>11
  <2>3. \A q \in 1 .. Len(r.slots), t \in Slots: r.slots[q][t] # None => r.slots[q][t] \in Ids(r)
    <3>1. Len(r.slots) = Len(w.slots) /\ id \in Ids(r) /\ Ids(w) \subseteq Ids(r)
      BY <1>3, <1>5, <1>6
    <3>2. \A q \in 1 .. Len(w.slots), t \in Slots: w.slots[q][t] # None => w.slots[q][t] \in Ids(w)
      BY <1>1
    <3> QED
      BY <1>9, <3>1, <3>2
  <2>4. \A v \in Users: r.index[v] # None => r.index[v] \in 0 .. Len(r.slots) - 1
    BY <1>1, <1>3, <1>5
  <2>5. /\ \A v, x \in Users: r.index[v] # None /\ r.index[v] = r.index[x] => v = x
        /\ \A k \in 0 .. Len(r.slots) - 1: \E v \in Users: r.index[v] = k
    BY <1>3, <1>5, Players
  <2> QED
    BY <1>3, <1>5, <2>1, <2>2, <2>3, <2>4, <2>5, FromColumns
<1>13. Accounted(r)
  <2>1. HeldIsOwned(r)
    <3> SUFFICES ASSUME NEW q \in 1 .. Len(w.slots), NEW t \in Slots, r.slots[q][t] # None
                 PROVE r.slots[q][t] \notin Range(r.free) /\ r.owner[r.slots[q][t] + 1] = <<q - 1, t>>
      BY <1>3, <1>5 DEF HeldIsOwned
    <3>1. CASE q = p /\ t = s
      BY <1>7, <1>9, <1>11, <3>1
    <3>2. CASE ~(q = p /\ t = s)
      <4>1. r.slots[q][t] = w.slots[q][t]
        BY <1>9, <3>2
      <4>2. w.slots[q][t] \in Ids(w) /\ w.slots[q][t] # id
        BY <1>1, <1>8, <4>1
      <4>3. w.slots[q][t] \notin Range(w.free) /\ w.owner[w.slots[q][t] + 1] = <<q - 1, t>>
        BY <4>1 DEF Accounted, HeldIsOwned
      <4> QED
        BY <1>6, <1>7, <1>10, <4>1, <4>2, <4>3
    <3> QED
      BY <3>1, <3>2
  <2>2. OwnedIsHeld(r)
    <3> SUFFICES ASSUME NEW i \in Ids(r), i \notin Range(r.free)
                 PROVE r.slots[r.owner[i + 1][1] + 1][r.owner[i + 1][2]] = i
      BY DEF OwnedIsHeld
    <3>1. CASE i = id
      <4>1. p \in 1 .. Len(w.slots) /\ p - 1 + 1 = p
        BY <1>1, <1>2
      <4>2. r.slots[p][s] = id
        BY <1>9, <4>1
      <4>3. r.owner[i + 1][1] + 1 = p /\ r.owner[i + 1][2] = s
        BY <1>11, <3>1, <4>1
      <4> QED
        BY <3>1, <4>2, <4>3
    <3>2. CASE i # id
      <4>1. i \in Ids(w) /\ r.owner[i + 1] = w.owner[i + 1] /\ i \notin Range(w.free)
        BY <1>3, <1>5, <1>10, <3>2
      <4>2. w.slots[w.owner[i + 1][1] + 1][w.owner[i + 1][2]] = i
        BY <4>1 DEF Accounted, OwnedIsHeld
      <4>3. w.owner[i + 1][1] + 1 \in 1 .. Len(w.slots) /\ w.owner[i + 1][2] \in Slots /\ i # None
        <5>1. /\ w.owner[i + 1][1] \in 0 .. Len(w.slots) - 1 /\ w.owner[i + 1][2] \in Slots
              /\ Len(w.slots) \in Nat
          BY <1>1, <4>1
        <5>2. i # None
          BY <4>1 DEF Ids, None
        <5> QED
          BY <5>1, <5>2
      <4> QED
        <5> DEFINE q == w.owner[i + 1][1] + 1
                   t == w.owner[i + 1][2]
        <5>1. w.slots[q][t] = i /\ q \in 1 .. Len(w.slots) /\ t \in Slots /\ i # None
          BY <4>2, <4>3
        <5>2. r.slots[r.owner[i + 1][1] + 1][r.owner[i + 1][2]] = r.slots[q][t]
          BY <4>1
        <5> HIDE DEF q, t
        <5>3. ~(q = p /\ t = s)
          BY <1>2, <5>1
        <5>4. r.slots[q][t] = i
          BY <1>9, <5>1, <5>3
        <5> QED
          BY <5>2, <5>4
    <3> QED
      BY <3>1, <3>2
  <2> QED
    BY <1>3, <1>5, <2>1, <2>2 DEF Accounted
<1>14. Grows(w, r)
  BY <1>3, <1>5, <1>6, <1>7, <1>10 DEF Grows
<1>15. ASSUME Placed(w) PROVE Placed(r)
  <2> SUFFICES ASSUME NEW i \in Ids(r), i \notin Range(r.free), r.place[i + 1] # Start
               PROVE r.place[i + 1] \in Users /\ r.index[r.place[i + 1]] = r.owner[i + 1][1]
    BY DEF Placed
  <2>1. i # id
    BY <1>11
  <2>2. i \in Ids(w) /\ i \notin Range(w.free)
    BY <1>3, <1>5, <1>10, <2>1
  <2> QED
    BY <1>3, <1>5, <1>10, <1>15, <2>1, <2>2 DEF Placed
<1> QED
  BY <1>12, <1>13, <1>14, <1>15 DEF r

\* initialize_player for a user without a player.
Registered(w, u) ==
  [w EXCEPT !.index[u] = Len(w.slots), !.slots = Append(@, EmptySlots)]

LEMMA Registering ==
  ASSUME NEW w, World(w), NEW u \in Users, w.index[u] = None
  PROVE LET r == Registered(w, u) IN
        /\ World(r) /\ Grows(w, r) /\ r.index[u] # None
        /\ Accounted(w) => Accounted(r)
        /\ Accounted(w) /\ Placed(w) => Placed(r)
<1> DEFINE index == [w.index EXCEPT ![u] = Len(w.slots)]
           slots == Append(w.slots, EmptySlots)
           r == Registered(w, u)
<1>1. /\ w.index \in [Users -> Int] /\ w.slots \in Seq([Slots -> Int])
      /\ w.free \in Seq(Int)
      /\ Len(w.slots) \in Nat /\ Len(w.used) \in Nat
      /\ Len(w.owner) = Len(w.used) /\ Len(w.place) = Len(w.used)
      /\ \A v \in Users: w.index[v] # None => w.index[v] \in 0 .. Len(w.slots) - 1
      /\ \A q \in 1 .. Len(w.slots), t \in Slots: w.slots[q][t] # None => w.slots[q][t] \in Ids(w)
      /\ \A i \in Ids(w):
           /\ w.owner[i + 1] \in Int \X Slots
           /\ w.owner[i + 1][1] \in 0 .. Len(w.slots) - 1 /\ w.owner[i + 1][2] \in Slots
           /\ w.place[i + 1] \in Users \cup {Start}
      /\ \A i \in 1 .. Len(w.free): w.free[i] \in Ids(w)
  BY Columns
<1>2. r = [w EXCEPT !.index = index, !.slots = slots]
  BY DEF Registered
<1>3. /\ slots \in Seq([Slots -> Int]) /\ Len(slots) = Len(w.slots) + 1
      /\ slots[Len(w.slots) + 1] = EmptySlots
      /\ \A q \in 1 .. Len(w.slots): slots[q] = w.slots[q]
  <2> DEFINE S == [Slots -> Int]
  <2>1. w.slots \in Seq(S) /\ EmptySlots \in S
    BY <1>1 DEF EmptySlots, None
  <2> HIDE DEF S
  <2>2. /\ slots \in Seq(S) /\ Len(slots) = Len(w.slots) + 1
        /\ slots[Len(w.slots) + 1] = EmptySlots
        /\ \A q \in 1 .. Len(w.slots): slots[q] = w.slots[q]
    BY <2>1, AppendProperties
  <2> QED
    BY <2>2 DEF S
<1>4. index \in [Users -> Int] /\ \A v \in Users: index[v] = IF v = u THEN Len(w.slots) ELSE w.index[v]
  BY <1>1
<1> HIDE DEF index, slots, r
<1>5. /\ r \in Worlds /\ r.index = index /\ r.slots = slots
      /\ r.used = w.used /\ r.free = w.free /\ r.owner = w.owner /\ r.place = w.place
  BY <1>2, <1>3, <1>4 DEF World, Worlds
<1>6. Ids(r) = Ids(w)
  BY <1>5 DEF Ids
<1>7. \A q \in 1 .. Len(r.slots), t \in Slots:
        IF q = Len(w.slots) + 1 THEN r.slots[q][t] = None
        ELSE q \in 1 .. Len(w.slots) /\ r.slots[q][t] = w.slots[q][t]
  <2>3. Len(w.slots) \in Nat
    BY <1>1
  <2>1. \A q \in 1 .. Len(w.slots) + 1: q = Len(w.slots) + 1 \/ (q \in 1 .. Len(w.slots) /\ q # Len(w.slots) + 1)
    BY <2>3
  <2>2. \A t \in Slots: EmptySlots[t] = None
    BY DEF EmptySlots
  <2> QED
    BY <1>3, <1>5, <2>1, <2>2
<1>8. \A v \in Users: r.index[v] = IF v = u THEN Len(w.slots) ELSE w.index[v]
  BY <1>4, <1>5
<1>9. World(r)
  <2>1. \A q \in 1 .. Len(r.slots), t \in Slots: r.slots[q][t] # None => r.slots[q][t] \in Ids(r)
    <3>1. \A q \in 1 .. Len(w.slots), t \in Slots: w.slots[q][t] # None => w.slots[q][t] \in Ids(w)
      BY <1>1
    <3> QED
      BY <1>6, <1>7, <3>1
  <2>2. \A i \in Ids(r): r.owner[i + 1][1] \in 0 .. Len(r.slots) - 1
    <3>1. /\ Len(w.slots) \in Nat /\ Len(r.slots) = Len(w.slots) + 1
          /\ \A i \in Ids(w): w.owner[i + 1][1] \in 0 .. Len(w.slots) - 1
      BY <1>1, <1>3, <1>5
    <3> QED
      BY <1>5, <1>6, <3>1
  <2>3. \A v \in Users: r.index[v] # None => r.index[v] \in 0 .. Len(r.slots) - 1
    BY <1>1, <1>3, <1>5, <1>8
  <2>4. \A v, x \in Users: r.index[v] # None /\ r.index[v] = r.index[x] => v = x
    <3>1. \A v \in Users: w.index[v] # Len(w.slots)
      BY <1>1 DEF None
    <3> QED
      BY <1>8, <3>1, Players
  <2>5. ASSUME NEW k \in 0 .. Len(r.slots) - 1 PROVE \E v \in Users: r.index[v] = k
    <3>1. CASE k = Len(w.slots)
      BY <1>8, <3>1
    <3>2. CASE k # Len(w.slots)
      <4>1. k \in 0 .. Len(w.slots) - 1 /\ k # None
        BY <1>1, <1>3, <1>5, <3>2 DEF None
      <4>2. PICK v \in Users: w.index[v] = k
        BY <4>1, Players
      <4> QED
        BY <1>8, <4>1, <4>2
    <3> QED
      BY <3>1, <3>2
  <2>6. /\ Len(r.owner) = Len(r.used) /\ Len(r.place) = Len(r.used)
        /\ \A i \in 1 .. Len(r.free): r.free[i] \in Ids(r)
    BY <1>1, <1>5, <1>6
  <2> QED
    BY <1>5, <2>1, <2>2, <2>3, <2>4, <2>5, <2>6, FromColumns
<1>10. Grows(w, r)
  BY <1>5, <1>6, <1>8 DEF Grows
<1>11. r.index[u] # None
  BY <1>1, <1>8 DEF None
<1>12. ASSUME Accounted(w) PROVE Accounted(r)
  <2>1. HeldIsOwned(r)
    <3> SUFFICES ASSUME NEW q \in 1 .. Len(r.slots), NEW t \in Slots, r.slots[q][t] # None
                 PROVE r.slots[q][t] \notin Range(r.free) /\ r.owner[r.slots[q][t] + 1] = <<q - 1, t>>
      BY DEF HeldIsOwned
    <3>1. q \in 1 .. Len(w.slots) /\ r.slots[q][t] = w.slots[q][t]
      BY <1>7
    <3>2. w.slots[q][t] \notin Range(w.free) /\ w.owner[w.slots[q][t] + 1] = <<q - 1, t>>
      BY <1>12, <3>1 DEF Accounted, HeldIsOwned
    <3> QED
      BY <1>5, <3>1, <3>2
  <2>2. ASSUME NEW i \in Ids(r), i \notin Range(r.free)
        PROVE r.slots[r.owner[i + 1][1] + 1][r.owner[i + 1][2]] = i
    <3>1. w.slots[w.owner[i + 1][1] + 1][w.owner[i + 1][2]] = i
      BY <1>5, <1>6, <1>12, <2>2 DEF Accounted, OwnedIsHeld
    <3>2. w.owner[i + 1][1] + 1 \in 1 .. Len(w.slots)
      <4>1. w.owner[i + 1][1] \in 0 .. Len(w.slots) - 1 /\ Len(w.slots) \in Nat
        BY <1>1, <1>6, <2>2
      <4> QED
        BY <4>1
    <3> QED
      BY <1>3, <1>5, <3>1, <3>2
  <2> QED
    BY <1>5, <1>12, <2>1, <2>2 DEF Accounted, OwnedIsHeld
<1>13. ASSUME Placed(w) PROVE Placed(r)
  <2> SUFFICES ASSUME NEW i \in Ids(r), i \notin Range(r.free), r.place[i + 1] # Start
               PROVE r.place[i + 1] \in Users /\ r.index[r.place[i + 1]] = r.owner[i + 1][1]
    BY DEF Placed
  <2>1. w.place[i + 1] \in Users /\ w.index[w.place[i + 1]] = w.owner[i + 1][1]
    BY <1>5, <1>6, <1>13 DEF Placed
  <2>2. w.owner[i + 1][1] # None
    BY <1>1, <1>6 DEF None
  <2> QED
    BY <1>5, <1>8, <2>1, <2>2
<1> QED
  BY <1>9, <1>10, <1>11, <1>12, <1>13 DEF r

\* The place of a character that leaves the game.
Moved(w, id, x) == [w EXCEPT !.place[id + 1] = x]

LEMMA Moving ==
  ASSUME NEW w, World(w), NEW id \in Ids(w), NEW x \in Users \cup {Start}
  PROVE LET r == Moved(w, id, x) IN
        /\ World(r) /\ Grows(w, r)
        /\ Ids(r) = Ids(w) /\ r.index = w.index /\ r.owner = w.owner /\ r.free = w.free
        /\ Accounted(w) => Accounted(r)
        /\ Placed(w) /\ (x = Start \/ (x \in Users /\ w.index[x] = w.owner[id + 1][1])) => Placed(r)
<1> DEFINE place == [w.place EXCEPT ![id + 1] = x]
           r == Moved(w, id, x)
<1>1. /\ w.place \in Seq(Users \cup {Start})
      /\ Len(w.used) \in Nat /\ Len(w.owner) = Len(w.used) /\ Len(w.place) = Len(w.used)
      /\ \A v \in Users: w.index[v] # None => w.index[v] \in 0 .. Len(w.slots) - 1
      /\ \A q \in 1 .. Len(w.slots), t \in Slots: w.slots[q][t] # None => w.slots[q][t] \in Ids(w)
      /\ \A i \in Ids(w): w.owner[i + 1][1] \in 0 .. Len(w.slots) - 1
      /\ \A i \in 1 .. Len(w.free): w.free[i] \in Ids(w)
  BY Columns
<1>2. r = [w EXCEPT !.place = place]
  BY DEF Moved
<1>3. /\ place \in Seq(Users \cup {Start}) /\ Len(place) = Len(w.place)
      /\ \A i \in 1 .. Len(w.place): place[i] = IF i = id + 1 THEN x ELSE w.place[i]
  <2> DEFINE S == Users \cup {Start}
  <2>1. w.place \in Seq(S) /\ x \in S /\ id + 1 \in 1 .. Len(w.place)
    BY <1>1 DEF Ids
  <2> HIDE DEF S
  <2>2. /\ place \in Seq(S) /\ Len(place) = Len(w.place)
        /\ \A i \in 1 .. Len(w.place): place[i] = IF i = id + 1 THEN x ELSE w.place[i]
    BY <2>1, ExceptSeq
  <2> QED
    BY <2>2 DEF S
<1> HIDE DEF place, r
<1>4. /\ r \in Worlds /\ r.place = place /\ r.index = w.index /\ r.slots = w.slots
      /\ r.used = w.used /\ r.free = w.free /\ r.owner = w.owner
  BY <1>2, <1>3 DEF World, Worlds
<1>5. Ids(r) = Ids(w)
  BY <1>4 DEF Ids
<1>6. World(r)
  <2>1. /\ \A v, y \in Users: r.index[v] # None /\ r.index[v] = r.index[y] => v = y
        /\ \A k \in 0 .. Len(r.slots) - 1: \E v \in Users: r.index[v] = k
    BY <1>4, Players
  <2> QED
    BY <1>1, <1>3, <1>4, <1>5, <2>1, FromColumns
<1>7. Grows(w, r)
  BY <1>4, <1>5 DEF Grows
<1>8. Accounted(w) => Accounted(r)
  BY <1>4, <1>5 DEF Accounted, HeldIsOwned, OwnedIsHeld
<1>9. ASSUME Placed(w), x = Start \/ (x \in Users /\ w.index[x] = w.owner[id + 1][1]) PROVE Placed(r)
  <2> SUFFICES ASSUME NEW i \in Ids(w), i \notin Range(w.free), r.place[i + 1] # Start
               PROVE r.place[i + 1] \in Users /\ w.index[r.place[i + 1]] = w.owner[i + 1][1]
    BY <1>4, <1>5 DEF Placed
  <2>1. i + 1 \in 1 .. Len(w.place) /\ (i + 1 = id + 1 => i = id)
    BY <1>1 DEF Ids
  <2>2. r.place[i + 1] = IF i = id THEN x ELSE w.place[i + 1]
    BY <1>3, <1>4, <2>1
  <2> QED
    BY <1>9, <2>2 DEF Placed
<1> QED
  BY <1>4, <1>5, <1>6, <1>7, <1>8, <1>9 DEF r

\* delete_pc: an emptied slot alone leaves the file readable, with the character
\* freed every other one is still accounted for.
LEMMA Deleting ==
  ASSUME NEW w, World(w), NEW u \in Users, NEW s \in Slots, SlotAt(w, u, s) # None, w.index[u] # None
  PROVE LET id == SlotAt(w, u, s)
            e == Bind(w, w.index[u] + 1, s, None)
            r == Free(e, id)
        IN /\ World(e) /\ e.index = w.index /\ Ids(e) = Ids(w) /\ id \in Ids(w)
           /\ World(r) /\ r.index = w.index /\ Ids(r) = Ids(w) /\ r.owner = w.owner
           /\ \A i \in Range(r.free): i \in Range(w.free) \/ i = id
           /\ Accounted(w) => Accounted(r) /\ w.owner[id + 1][1] = w.index[u]
           /\ Placed(w) => Placed(r)
<1> DEFINE id == SlotAt(w, u, s)
           p == w.index[u] + 1
           e == Bind(w, p, s, None)
           r == Free(e, id)
           used == [e.used EXCEPT ![id + 1] = 0]
           free == Append(e.free, id)
<1>1. /\ w.used \in Seq({0, 1}) /\ w.free \in Seq(Int)
      /\ Len(w.slots) \in Nat /\ Len(w.used) \in Nat /\ Len(w.free) \in Nat
      /\ Len(w.owner) = Len(w.used) /\ Len(w.place) = Len(w.used)
      /\ \A v \in Users: w.index[v] # None => w.index[v] \in 0 .. Len(w.slots) - 1
      /\ \A q \in 1 .. Len(w.slots), t \in Slots: w.slots[q][t] # None => w.slots[q][t] \in Ids(w)
      /\ \A i \in Ids(w): w.owner[i + 1][1] \in 0 .. Len(w.slots) - 1 /\ w.owner[i + 1][2] \in Slots
      /\ \A i \in 1 .. Len(w.free): w.free[i] \in Ids(w)
      /\ \A i: i \in Range(w.free) <=> \E k \in 1 .. Len(w.free): w.free[k] = i
  BY Columns
<1>2. /\ p \in 1 .. Len(w.slots) /\ id = w.slots[p][s] /\ None \in Int
      /\ id # None /\ id \in Ids(w) /\ id \in Nat /\ id + 1 \in 1 .. Len(w.used)
  <2>1. p \in 1 .. Len(w.slots) /\ id = w.slots[p][s] /\ id # None /\ id \in Ids(w) /\ None \in Int
    <3>1. w.index[u] \in 0 .. Len(w.slots) - 1 /\ Len(w.slots) \in Nat
      BY <1>1
    <3>2. p \in 1 .. Len(w.slots) /\ id = w.slots[p][s] /\ id # None /\ None \in Int
      BY <3>1 DEF SlotAt, None
    <3> QED
      BY <1>1, <3>2
  <2>2. Len(w.used) \in Nat /\ id \in Ids(w)
    BY <1>1, <2>1
  <2>3. id \in Nat /\ id + 1 \in 1 .. Len(w.used)
    BY <2>2 DEF Ids
  <2> QED
    BY <2>1, <2>3
<1> HIDE DEF p, id
<1>3. /\ e \in Worlds
      /\ e.index = w.index /\ e.used = w.used /\ e.free = w.free
      /\ e.owner = w.owner /\ e.place = w.place
      /\ Len(e.slots) = Len(w.slots)
      /\ \A q \in 1 .. Len(w.slots), t \in Slots:
           e.slots[q][t] = IF q = p /\ t = s THEN None ELSE w.slots[q][t]
  BY <1>2, Binding DEF World
<1>4. r = [e EXCEPT !.used = used, !.free = free]
  BY DEF Free
<1> HIDE DEF e, r
<1>5. used \in Seq({0, 1}) /\ Len(used) = Len(w.used)
  <2>1. e.used \in Seq({0, 1}) /\ id + 1 \in 1 .. Len(e.used) /\ Len(e.used) = Len(w.used)
    BY <1>1, <1>2, <1>3
  <2> QED
    BY <2>1, ExceptSeq
<1>6. /\ free \in Seq(Int) /\ Len(free) = Len(w.free) + 1
      /\ free[Len(w.free) + 1] = id /\ \A i \in 1 .. Len(w.free): free[i] = w.free[i]
  BY <1>1, <1>2, <1>3, AppendProperties
<1> HIDE DEF used, free
<1>7. /\ r \in Worlds /\ r.used = used /\ r.free = free
      /\ r.index = w.index /\ r.slots = e.slots /\ r.owner = w.owner /\ r.place = w.place
  BY <1>3, <1>4, <1>5, <1>6 DEF Worlds
<1>8. Ids(e) = Ids(w) /\ Ids(r) = Ids(w)
  BY <1>3, <1>5, <1>7 DEF Ids
<1>9. /\ \A v, y \in Users: w.index[v] # None /\ w.index[v] = w.index[y] => v = y
      /\ \A k \in 0 .. Len(w.slots) - 1: \E v \in Users: w.index[v] = k
  BY Players
<1>10. \A q \in 1 .. Len(e.slots), t \in Slots: e.slots[q][t] # None => e.slots[q][t] \in Ids(w)
  <2>1. \A q \in 1 .. Len(w.slots), t \in Slots: w.slots[q][t] # None => w.slots[q][t] \in Ids(w)
    BY <1>1
  <2> TAKE q \in 1 .. Len(e.slots), t \in Slots
  <2>2. q \in 1 .. Len(w.slots) /\ e.slots[q][t] = IF q = p /\ t = s THEN None ELSE w.slots[q][t]
    BY <1>3
  <2> QED
    BY <2>1, <2>2
<1>11. World(e)
  <2>1. /\ Len(e.owner) = Len(e.used) /\ Len(e.place) = Len(e.used)
        /\ \A i \in Ids(e): e.owner[i + 1][1] \in 0 .. Len(e.slots) - 1
        /\ \A i \in 1 .. Len(e.free): e.free[i] \in Ids(e)
    BY <1>1, <1>3, <1>8
  <2>2. /\ \A v \in Users: e.index[v] # None => e.index[v] \in 0 .. Len(e.slots) - 1
        /\ \A v, y \in Users: e.index[v] # None /\ e.index[v] = e.index[y] => v = y
        /\ \A k \in 0 .. Len(e.slots) - 1: \E v \in Users: e.index[v] = k
    BY <1>1, <1>3, <1>9
  <2> QED
    BY <1>3, <1>8, <1>10, <2>1, <2>2, FromColumns
<1>12. \A i: i \in 1 .. Len(w.free) + 1 <=> i \in 1 .. Len(w.free) \/ i = Len(w.free) + 1
  <2>1. Len(w.free) \in Nat
    BY <1>1
  <2> QED
    BY <2>1
<1>13. \A i \in 1 .. Len(r.free): r.free[i] \in Ids(w)
  BY <1>1, <1>2, <1>6, <1>7, <1>12
<1>14. World(r)
  <2>1. /\ Len(r.owner) = Len(r.used) /\ Len(r.place) = Len(r.used)
        /\ \A i \in Ids(r): r.owner[i + 1][1] \in 0 .. Len(r.slots) - 1
        /\ \A v \in Users: r.index[v] # None => r.index[v] \in 0 .. Len(r.slots) - 1
    BY <1>1, <1>3, <1>5, <1>7, <1>8
  <2>2. /\ \A v, y \in Users: r.index[v] # None /\ r.index[v] = r.index[y] => v = y
        /\ \A k \in 0 .. Len(r.slots) - 1: \E v \in Users: r.index[v] = k
    BY <1>3, <1>7, <1>9
  <2>3. \A q \in 1 .. Len(r.slots), t \in Slots: r.slots[q][t] # None => r.slots[q][t] \in Ids(r)
    BY <1>7, <1>8, <1>10
  <2> QED
    BY <1>7, <1>8, <1>13, <2>1, <2>2, <2>3, FromColumns
<1>15. \A i: i \in Range(r.free) <=> i \in Range(w.free) \/ i = id
  <2>1. DOMAIN r.free = 1 .. Len(w.free) + 1
    BY <1>6, <1>7, LenProperties
  <2>2. \A i: i \in Range(r.free) <=> \E k \in 1 .. Len(w.free) + 1: r.free[k] = i
    BY <2>1 DEF Range
  <2>3. \A i: i \in Range(w.free) <=> \E k \in 1 .. Len(w.free): w.free[k] = i
    BY <1>1
  <2>4. \A k \in 1 .. Len(w.free): k \in 1 .. Len(w.free) + 1 /\ r.free[k] = w.free[k]
    BY <1>6, <1>7, <1>12
  <2>5. Len(w.free) + 1 \in 1 .. Len(w.free) + 1 /\ r.free[Len(w.free) + 1] = id
    BY <1>6, <1>7, <1>12
  <2>6. \A k \in 1 .. Len(w.free) + 1: k \in 1 .. Len(w.free) \/ r.free[k] = id
    BY <1>12, <2>5
  <2> QED
    BY <2>2, <2>3, <2>4, <2>5, <2>6
<1>16. ASSUME Accounted(w) PROVE Accounted(r) /\ w.owner[id + 1][1] = w.index[u]
  <2>1. id \notin Range(w.free) /\ w.owner[id + 1] = <<p - 1, s>>
    BY <1>2, <1>16 DEF Accounted, HeldIsOwned
  <2>2. HeldIsOwned(r)
    <3> SUFFICES ASSUME NEW q \in 1 .. Len(w.slots), NEW t \in Slots, e.slots[q][t] # None
                 PROVE e.slots[q][t] \notin Range(r.free) /\ w.owner[e.slots[q][t] + 1] = <<q - 1, t>>
      <4>1. r.slots = e.slots /\ r.owner = w.owner /\ Len(e.slots) = Len(w.slots)
        BY <1>3, <1>7
      <4> QED
        BY <4>1 DEF HeldIsOwned
    <3>1. ~(q = p /\ t = s) /\ e.slots[q][t] = w.slots[q][t]
      BY <1>3
    <3>2. w.slots[q][t] \notin Range(w.free) /\ w.owner[w.slots[q][t] + 1] = <<q - 1, t>>
      BY <1>16, <3>1 DEF Accounted, HeldIsOwned
    <3>3. w.slots[q][t] # id
      <4> SUFFICES ASSUME w.slots[q][t] = id PROVE FALSE
        OBVIOUS
      <4>1. <<q - 1, t>> = <<p - 1, s>>
        BY <2>1, <3>2
      <4> QED
        BY <1>1, <1>2, <3>1, <4>1
    <3> QED
      BY <1>15, <3>1, <3>2, <3>3
  <2>3. OwnedIsHeld(r)
    <3> SUFFICES ASSUME NEW i \in Ids(w), i \notin Range(r.free)
                 PROVE e.slots[w.owner[i + 1][1] + 1][w.owner[i + 1][2]] = i
      BY <1>7, <1>8 DEF OwnedIsHeld
    <3>1. i # id /\ w.slots[w.owner[i + 1][1] + 1][w.owner[i + 1][2]] = i
      BY <1>15, <1>16 DEF Accounted, OwnedIsHeld
    <3>2. w.owner[i + 1][1] + 1 \in 1 .. Len(w.slots) /\ w.owner[i + 1][2] \in Slots
      BY <1>1
    <3> QED
      BY <1>2, <1>3, <3>1, <3>2
  <2>4. IsInjective(r.free)
    <3>1. DOMAIN r.free = 1 .. Len(w.free) + 1 /\ DOMAIN w.free = 1 .. Len(w.free)
      BY <1>1, <1>6, <1>7, LenProperties
    <3>2. \A i, k \in 1 .. Len(w.free): w.free[i] = w.free[k] => i = k
      BY <1>16, <3>1 DEF Accounted, IsInjective
    <3>3. \A i \in 1 .. Len(w.free): w.free[i] # id
      BY <1>1, <2>1
    <3> QED
      BY <1>6, <1>7, <1>12, <3>1, <3>2, <3>3 DEF IsInjective
  <2>5. w.owner[id + 1][1] = w.index[u]
    <3>1. w.index[u] \in Int /\ p = w.index[u] + 1
      BY DEF p, World, Worlds
    <3> QED
      BY <2>1, <3>1
  <2> QED
    BY <2>2, <2>3, <2>4, <2>5 DEF Accounted
<1>17. Placed(w) => Placed(r)
  BY <1>7, <1>8, <1>15 DEF Placed
<1> QED
  BY <1>2, <1>3, <1>7, <1>8, <1>11, <1>14, <1>15, <1>16, <1>17 DEF id, p, e, r

-----------------------------------------------------------------------------
(* The inductive invariant. *)

\* add_body gives a handle no body has.
LEMMA FreshBody ==
  ASSUME bodies \subseteq Nat, IsFiniteSet(bodies)
  PROVE NewBody \in Nat /\ NewBody \notin bodies
<1> DEFINE n == Cardinality(bodies)
<1>1. n \in Nat
  BY FS_CardinalityType
<1>2. \E h \in 1 .. n + 1: h \notin bodies
  <2> SUFFICES ASSUME \A h \in 1 .. n + 1: h \in bodies PROVE FALSE
    OBVIOUS
  <2> DEFINE S == 1 .. n + 1
  <2>1. Cardinality(S) = n + 1
    BY <1>1, FS_Interval
  <2>2. S \in SUBSET bodies
    OBVIOUS
  <2> HIDE DEF S
  <2>3. Cardinality(S) <= Cardinality(bodies)
    BY <2>2, FS_Subset
  <2> QED
    BY <1>1, <2>1, <2>3
<1>3. NewBody \in 1 .. n + 1 /\ NewBody \notin bodies
  BY <1>2 DEF NewBody
<1> QED
  BY <1>1, <1>3

LEMMA InitInv == Init => PlayersInv
<1> SUFFICES ASSUME Init PROVE PlayersInv
  OBVIOUS
<1>1. EmptyWorld \in Worlds
  <2>1. \A S: <<>> \in Seq(S)
    BY EmptySeq
  <2>2. [u \in Users |-> None] \in [Users -> Int]
    BY DEF None
  <2> QED
    BY <2>1, <2>2 DEF EmptyWorld, Worlds
<1>2. /\ Len(EmptyWorld.slots) = 0 /\ Len(EmptyWorld.used) = 0 /\ Len(EmptyWorld.free) = 0
      /\ Len(EmptyWorld.owner) = 0 /\ Len(EmptyWorld.place) = 0 /\ DOMAIN EmptyWorld.free = {}
      /\ \A u \in Users: EmptyWorld.index[u] = None
  BY EmptySeq DEF EmptyWorld
<1>3. Ids(EmptyWorld) = {} /\ 1 .. Len(EmptyWorld.slots) = {} /\ 0 .. Len(EmptyWorld.slots) - 1 = {}
      /\ 1 .. Len(EmptyWorld.free) = {}
  BY <1>2 DEF Ids
<1>4. World(EmptyWorld)
  BY <1>1, <1>2, <1>3, FromColumns
<1>5. Accounted(EmptyWorld) /\ Placed(EmptyWorld)
  BY <1>2, <1>3 DEF Accounted, HeldIsOwned, OwnedIsHeld, IsInjective, Placed
<1>6. DOMAIN live = {}
  BY EmptySeq DEF Init
<1>7. Recorded
  BY <1>4, <1>5 DEF Recorded, Init
<1>8. Typed
  <2>1. live \in [DOMAIN live -> LiveBodies]
    BY <1>6 DEF Init
  <2>2. observers \in [Users -> Int] /\ \A u \in Users: observers[u] = None
    BY DEF Init, None
  <2>3. IsFiniteSet(bodies)
    BY FS_EmptySet DEF Init
  <2>4. session \in [Sessions -> {"none", "open"}]
    BY DEF Init
  <2>5. opens \in 0 .. MaxOpens
    BY OpensAssumption DEF Init
  <2> QED
    BY <1>6, <2>1, <2>2, <2>3, <2>4, <2>5 DEF Typed, Init
<1>9. Known /\ Handles /\ OwnCharacter /\ InGameOnce /\ MovedByOwner
  BY <1>6 DEF Known, Handles, OwnCharacter, InGameOnce, MovedByOwner, Init
<1>10. NoOtherBody
  <2>1. Playing = {} /\ bodies = {}
    BY DEF Playing, Init
  <2> QED
    BY <2>1, FS_EmptySet DEF NoOtherBody
<1> QED
  BY <1>7, <1>8, <1>9, <1>10 DEF PlayersInv

\* Only the records of players and of free characters change.
LEMMA Growing ==
  ASSUME PlayersInv, Running, World(world'), Grows(world, world'), Accounted(world'),
         ~orphaned => Placed(world'),
         UNCHANGED <<saved, gameVars, panicked, opens, orphaned>>,
         session' \in [Sessions -> {"none", "open"}],
         \A c \in Sessions: session'[c] = "open" => world'.index[UserOf[c]] # None
  PROVE PlayersInv'
<1>1. Ids(world) \subseteq Ids(world)'
  BY DEF Grows, Ids
<1>2. Recorded'
  BY DEF PlayersInv, Recorded, Running
<1>3. Typed'
  <2>1. UNCHANGED <<observers, waiting, live, bodies>>
    BY DEF gameVars
  <2> QED
    BY <1>1, <2>1 DEF PlayersInv, Typed
<1>4. Known'
  BY DEF Known
<1>5. Handles'
  BY DEF PlayersInv, Handles, gameVars
<1>6. OwnCharacter'
  <2> SUFFICES ASSUME Calm, NEW u \in Users, observers[u] # None
               PROVE /\ world'.owner[observers[u] + 1][1] = world'.index[u]
                     /\ observers[u] \notin Range(world'.free)
    BY DEF OwnCharacter, Calm, Running, gameVars
  <2>1. /\ world.owner[observers[u] + 1][1] = world.index[u]
        /\ observers[u] \notin Range(world.free) /\ observers[u] \in Ids(world)
    BY DEF PlayersInv, OwnCharacter, Typed
  <2>2. world.index[u] # None
    <3>1. world.owner[observers[u] + 1][1] \in 0 .. Len(world.slots) - 1 /\ Len(world.slots) \in Nat
      BY <2>1, Columns DEF PlayersInv, Recorded
    <3> QED
      BY <2>1, <3>1 DEF None
  <2> QED
    BY <2>1, <2>2 DEF Grows
<1>7. InGameOnce'
  BY DEF PlayersInv, InGameOnce, Calm, Running, gameVars
<1>8. NoOtherBody'
  BY DEF PlayersInv, NoOtherBody, Calm, Running, gameVars, Playing
<1>9. MovedByOwner'
  BY DEF PlayersInv, MovedByOwner, Calm, Running, gameVars
<1> QED
  BY <1>2, <1>3, <1>4, <1>5, <1>6, <1>7, <1>8, <1>9 DEF PlayersInv

LEMMA ConnectedInv ==
  ASSUME PlayersInv, NEW c \in Sessions, Connected(c)
  PROVE PlayersInv'
<1> DEFINE u == UserOf[c]
<1>1. u \in Users /\ \A d \in Sessions: UserOf[d] \in Users
  BY UserOfAssumption
<1>2. World(world) /\ Accounted(world) /\ (~orphaned => Placed(world)) /\ Running
  BY DEF PlayersInv, Recorded, Connected
<1>3. /\ session \in [Sessions -> {"none", "open"}] /\ session' = [session EXCEPT ![c] = "open"]
      /\ \A d \in Sessions: session[d] = "open" => world.index[UserOf[d]] # None
      /\ UNCHANGED <<saved, gameVars, panicked, opens, orphaned>>
  BY DEF PlayersInv, Typed, Known, Connected
<1>4. session' \in [Sessions -> {"none", "open"}]
  BY <1>3
<1>5. /\ World(world') /\ Grows(world, world') /\ Accounted(world')
      /\ ~orphaned => Placed(world')
      /\ world'.index[u] # None
  <2>1. CASE world.index[u] # None
    <3>1. world' = world
      BY <2>1 DEF Connected
    <3> QED
      BY <1>2, <2>1, <3>1 DEF Grows
  <2>2. CASE world.index[u] = None
    <3>1. world' = Registered(world, u)
      BY <2>2 DEF Connected, Registered
    <3> HIDE DEF u
    <3> QED
      BY <1>1, <1>2, <2>2, <3>1, Registering
  <2> QED
    BY <2>1, <2>2
<1>6. \A d \in Sessions: session'[d] = "open" => world'.index[UserOf[d]] # None
  BY <1>1, <1>3, <1>5 DEF Grows
<1> QED
  BY <1>2, <1>3, <1>4, <1>5, <1>6, Growing

LEMMA CreateInv ==
  ASSUME PlayersInv, NEW c \in Sessions, NEW s \in Slots, Create(c, s)
  PROVE PlayersInv'
<1> DEFINE u == UserOf[c]
<1>1. u \in Users /\ \A d \in Sessions: UserOf[d] \in Users
  BY UserOfAssumption
<1>2. /\ World(world) /\ Accounted(world) /\ (~orphaned => Placed(world)) /\ Running
      /\ SlotAt(world, u, s) = None /\ session[c] = "open" /\ world' = SpawnPc(world, u, s)
      /\ UNCHANGED <<saved, session, gameVars, panicked, opens, orphaned>>
  BY DEF PlayersInv, Recorded, Create, Open
<1>3. /\ session \in [Sessions -> {"none", "open"}]
      /\ \A d \in Sessions: session[d] = "open" => world.index[UserOf[d]] # None
  BY DEF PlayersInv, Typed, Known
<1>4. world.index[u] # None
  BY <1>2, <1>3
<1> HIDE DEF u
<1>5. /\ World(world') /\ Grows(world, world') /\ Accounted(world')
      /\ ~orphaned => Placed(world')
  BY <1>1, <1>2, <1>4, Spawning
<1>6. \A d \in Sessions: session'[d] = "open" => world'.index[UserOf[d]] # None
  BY <1>1, <1>2, <1>3, <1>5 DEF Grows
<1> QED
  BY <1>2, <1>3, <1>5, <1>6, Growing

LEMMA DeleteInv ==
  ASSUME PlayersInv, NEW c \in Sessions, NEW s \in Slots, Delete(c, s)
  PROVE PlayersInv'
<1> DEFINE u == UserOf[c]
           id == SlotAt(world, u, s)
           e == Bind(world, world.index[u] + 1, s, None)
           r == Free(e, id)
<1>1. u \in Users
  BY UserOfAssumption
<1>2. /\ World(world) /\ Accounted(world) /\ Running /\ (~orphaned => Placed(world))
      /\ World(saved) /\ Accounted(saved) /\ (~orphaned => Placed(saved))
  BY DEF PlayersInv, Recorded, Delete, Open
<1>3. /\ id # None /\ session[c] = "open"
      /\ orphaned' = (orphaned \/ observers[u] = id)
      /\ UNCHANGED <<saved, session, gameVars, opens>>
  BY DEF Delete, Open
<1>4. \/ world' = r /\ UNCHANGED panicked
      \/ world' = e /\ panicked' = "free"
  BY DEF Delete, Bind
<1>5. world.index[u] # None
  BY <1>3 DEF PlayersInv, Known
<1> HIDE DEF u
<1>6. /\ World(e) /\ e.index = world.index /\ Ids(e) = Ids(world) /\ id \in Ids(world)
      /\ World(r) /\ r.index = world.index /\ Ids(r) = Ids(world) /\ r.owner = world.owner
      /\ \A i \in Range(r.free): i \in Range(world.free) \/ i = id
      /\ Accounted(world) => Accounted(r) /\ world.owner[id + 1][1] = world.index[u]
      /\ Placed(world) => Placed(r)
  BY <1>1, <1>2, <1>3, <1>5, Deleting
<1> HIDE DEF id, e, r
<1>7. World(world') /\ world'.index = world.index /\ Ids(world') = Ids(world)
  BY <1>4, <1>6
<1>8. Running' => /\ panicked' = panicked /\ Accounted(world') /\ world'.owner = world.owner
                  /\ \A i \in Range(world'.free): i \in Range(world.free) \/ i = id
                  /\ Placed(world) => Placed(world')
  BY <1>2, <1>4, <1>6 DEF Running
<1>9. orphaned \in BOOLEAN /\ panicked \in {"no", "remove", "free"}
  BY DEF PlayersInv, Typed
<1>10. Recorded'
  BY <1>2, <1>3, <1>7, <1>8, <1>9 DEF Recorded, Running
<1>11. Typed'
  <2>1. UNCHANGED <<observers, waiting, live, bodies>>
    BY <1>3 DEF gameVars
  <2>2. panicked' \in {"no", "remove", "free"} /\ orphaned' \in BOOLEAN
    BY <1>3, <1>4, <1>9
  <2>3. Ids(world)' = Ids(world)
    BY <1>7 DEF Ids
  <2> QED
    BY <1>3, <2>1, <2>2, <2>3 DEF PlayersInv, Typed
<1>12. Known'
  BY <1>3, <1>7 DEF PlayersInv, Known
<1>13. Handles'
  BY <1>3 DEF PlayersInv, Handles, gameVars
<1>14. Calm' => Calm /\ observers[u] # id /\ observers' = observers
  BY <1>2, <1>3, <1>9 DEF Calm, gameVars
<1>15. OwnCharacter'
  <2> SUFFICES ASSUME Calm', NEW v \in Users, observers[v] # None
               PROVE /\ world'.owner[observers[v] + 1][1] = world'.index[v]
                     /\ observers[v] \notin Range(world'.free)
    BY <1>14 DEF OwnCharacter
  <2>1. /\ world.owner[observers[v] + 1][1] = world.index[v]
        /\ observers[v] \notin Range(world.free) /\ observers[v] \in Ids(world)
    BY <1>14 DEF PlayersInv, OwnCharacter, Typed
  <2>2. observers[v] # id
    <3> SUFFICES ASSUME observers[v] = id PROVE FALSE
      OBVIOUS
    <3>1. world.index[v] = world.index[u]
      BY <1>2, <1>6, <2>1
    <3>2. v = u
      BY <1>1, <1>2, <1>5, <3>1, Players
    <3> QED
      BY <1>14, <3>2
  <2>3. Running'
    BY DEF Calm
  <2> QED
    BY <1>7, <1>8, <2>1, <2>2, <2>3
<1>16. InGameOnce'
  BY <1>3, <1>14 DEF PlayersInv, InGameOnce, gameVars
<1>17. NoOtherBody'
  BY <1>3, <1>14 DEF PlayersInv, NoOtherBody, gameVars, Playing
<1>18. MovedByOwner'
  BY <1>3, <1>14 DEF PlayersInv, MovedByOwner, gameVars
<1> QED
  BY <1>10, <1>11, <1>12, <1>13, <1>15, <1>16, <1>17, <1>18 DEF PlayersInv

LEMMA EnterInv ==
  ASSUME PlayersInv, NEW c \in Sessions, NEW s \in Slots, Enter(c, s)
  PROVE PlayersInv'
<1> DEFINE u == UserOf[c]
           id == SlotAt(world, u, s)
           h == NewBody
           e == [user |-> u, id |-> id, handle |-> h, place |-> world.place[id + 1]]
<1>1. u \in Users
  BY UserOfAssumption
<1>2. /\ World(world) /\ Accounted(world) /\ Running /\ (~orphaned => Placed(world))
  BY DEF PlayersInv, Recorded, Enter, Open
<1>3. /\ session[c] = "open" /\ observers[u] = None /\ id # None
      /\ observers' = [observers EXCEPT ![u] = id]
      /\ bodies' = bodies \cup {h}
      /\ waiting' = waiting \cup {e}
      /\ UNCHANGED <<world, saved, session, live, panicked, opens, orphaned>>
  BY DEF Enter, Open
<1>4. world.index[u] # None
  BY <1>3 DEF PlayersInv, Known
<1>5. h \in Nat /\ h \notin bodies
  BY FreshBody DEF PlayersInv, Typed
<1>6. /\ id \in Ids(world) /\ id \in Nat /\ id \notin Range(world.free)
      /\ world.owner[id + 1][1] = world.index[u]
      /\ world.place[id + 1] \in Users \cup {Start}
  <2>1. /\ Len(world.slots) \in Nat /\ Len(world.used) \in Nat
        /\ world.index[u] \in 0 .. Len(world.slots) - 1
        /\ \A p \in 1 .. Len(world.slots), t \in Slots:
             world.slots[p][t] # None => world.slots[p][t] \in Ids(world)
        /\ \A i \in Ids(world): world.place[i + 1] \in Users \cup {Start}
    BY <1>1, <1>2, <1>4, Columns
  <2>2. world.index[u] + 1 \in 1 .. Len(world.slots) /\ id = world.slots[world.index[u] + 1][s]
    BY <2>1 DEF SlotAt
  <2>3. id \in Ids(world)
    BY <1>3, <2>1, <2>2
  <2>4. id \in Nat
    BY <2>1, <2>3 DEF Ids
  <2> DEFINE p == world.index[u] + 1
  <2>5. p \in 1 .. Len(world.slots) /\ id = world.slots[p][s] /\ id # None
    BY <1>3, <2>2
  <2> HIDE DEF p, id
  <2>6. id \notin Range(world.free) /\ world.owner[id + 1] = <<p - 1, s>>
    BY <1>2, <2>5 DEF Accounted, HeldIsOwned
  <2>7. p - 1 = world.index[u]
    BY <2>1 DEF p
  <2> QED
    BY <2>1, <2>3, <2>4, <2>6, <2>7 DEF id
<1> HIDE DEF u, id, h
<1>7. e \in Entries /\ e.user = u /\ e.id = id /\ e.handle = h /\ e.place = world.place[id + 1]
  BY <1>1, <1>5, <1>6 DEF Entries
<1> HIDE DEF e
<1>8. observers \in [Users -> Int] /\ \A v \in Users: observers'[v] = IF v = u THEN id ELSE observers[v]
  BY <1>3 DEF PlayersInv, Typed
<1>9. Recorded'
  BY <1>3 DEF PlayersInv, Recorded, Running
<1>10. Typed'
  <2>1. observers' \in [Users -> Int] /\ \A v \in Users: observers'[v] # None => observers'[v] \in Ids(world)
    <3>1. observers' \in [Users -> Int]
      <4>1. observers' = [observers EXCEPT ![u] = id] /\ id \in Int /\ observers \in [Users -> Int]
        BY <1>3, <1>6, <1>8
      <4> QED
        BY <4>1
    <3>2. \A v \in Users: observers[v] # None => observers[v] \in Ids(world)
      BY DEF PlayersInv, Typed
    <3> QED
      BY <1>6, <1>8, <3>1, <3>2
  <2>2. waiting' \subseteq Entries /\ \A f \in waiting': f.id \in Ids(world)
    BY <1>3, <1>6, <1>7 DEF PlayersInv, Typed
  <2>3. bodies' \subseteq Nat /\ IsFiniteSet(bodies')
    BY <1>3, <1>5, FS_AddElement DEF PlayersInv, Typed
  <2>4. Ids(world)' = Ids(world)
    BY <1>3 DEF Ids
  <2> QED
    BY <1>3, <2>1, <2>2, <2>3, <2>4 DEF PlayersInv, Typed
<1>11. Known'
  BY <1>3 DEF PlayersInv, Known
<1>12. Handles'
  BY <1>3, <1>5, <1>7 DEF PlayersInv, Handles
<1>13. Calm' <=> Calm
  BY <1>3 DEF Calm, Running
<1>14. OwnCharacter'
  BY <1>3, <1>6, <1>8, <1>13 DEF PlayersInv, OwnCharacter
\* Nobody is in game with the character yet.
<1>15. ASSUME Calm, NEW v \in Users PROVE observers[v] # id
  <2> SUFFICES ASSUME observers[v] = id PROVE FALSE
    OBVIOUS
  <2>1. id # None
    BY <1>3
  <2>2. world.index[v] = world.index[u]
    BY <1>6, <1>15, <2>1 DEF PlayersInv, OwnCharacter
  <2>3. v = u
    BY <1>1, <1>2, <1>4, <2>2, Players
  <2> QED
    BY <1>3, <2>1, <2>3
<1>16. InGameOnce'
  <2> SUFFICES ASSUME Calm PROVE InGameOnce'
    BY <1>13 DEF InGameOnce
  <2>1. /\ \A f \in waiting: observers[f.user] = f.id /\ f.id \notin DOMAIN live /\ f.user \in Users
        /\ \A f, g \in waiting: f.id = g.id => f = g
        /\ \A i \in DOMAIN live: \E v \in Users: observers[v] = i
        /\ \A v \in Users: observers[v] # None =>
             observers[v] \in DOMAIN live \/ \E f \in waiting: f.id = observers[v]
    BY DEF PlayersInv, InGameOnce, Typed, Entries
  <2>2. \A f \in waiting: f.id \in Ids(world) /\ f.id # None /\ f.id # id
    <3>1. \A f \in waiting: f.id \in Nat /\ f.id \in Ids(world)
      BY DEF PlayersInv, Typed, Entries
    <3> QED
      BY <1>15, <2>1, <3>1 DEF None
  <2>3. \A f \in waiting: f.user # u
    BY <1>3, <2>1, <2>2
  <2>4. id \notin DOMAIN live
    BY <1>15, <2>1
  <2>5. \A f \in waiting': observers'[f.user] = f.id /\ f.id \notin DOMAIN live'
    BY <1>1, <1>3, <1>7, <1>8, <2>1, <2>3, <2>4
  <2>6. \A f, g \in waiting': f.id = g.id => f = g
    BY <1>3, <1>7, <2>1, <2>2
  <2>7. ASSUME NEW i \in DOMAIN live PROVE \E v \in Users: observers'[v] = i
    <3>1. PICK v \in Users: observers[v] = i
      BY <2>1
    <3>2. i # None
      <4>1. i \in Ids(world) /\ Len(world.used) \in Nat
        BY <1>2, Columns DEF PlayersInv, Typed
      <4> QED
        BY <4>1 DEF Ids, None
    <3> QED
      BY <1>3, <1>8, <3>1, <3>2
  <2>8. \A v \in Users: observers'[v] # None =>
          observers'[v] \in DOMAIN live' \/ \E f \in waiting': f.id = observers'[v]
    BY <1>3, <1>7, <1>8, <2>1
  <2> QED
    BY <1>3, <2>5, <2>6, <2>7, <2>8 DEF InGameOnce
<1>17. NoOtherBody'
  <2> SUFFICES ASSUME Calm PROVE NoOtherBody'
    BY <1>13 DEF NoOtherBody
  <2>1. /\ \A b \in bodies: (\E f \in waiting: f.handle = b) \/ \E i \in DOMAIN live: live[i].handle = b
        /\ IsFiniteSet(Playing) /\ IsFiniteSet(bodies) /\ Cardinality(bodies) = Cardinality(Playing)
    BY DEF PlayersInv, NoOtherBody, Typed
  <2>2. Playing' = Playing \cup {u} /\ u \notin Playing
    BY <1>1, <1>3, <1>8 DEF Playing
  <2>3. IsFiniteSet(Playing') /\ Cardinality(Playing') = Cardinality(Playing) + 1
    BY <2>1, <2>2, FS_AddElement
  <2>4. Cardinality(bodies') = Cardinality(bodies) + 1
    BY <1>3, <1>5, <2>1, FS_AddElement
  <2>5. \A b \in bodies': (\E f \in waiting': f.handle = b) \/ \E i \in DOMAIN live': live'[i].handle = b
    BY <1>3, <1>7, <2>1
  <2> QED
    BY <2>1, <2>3, <2>4, <2>5 DEF NoOtherBody
<1>18. MovedByOwner'
  <2> SUFFICES ASSUME Calm PROVE MovedByOwner'
    BY <1>13 DEF MovedByOwner
  <2>1. world.place[id + 1] \in {Start, u}
    <3>1. Placed(world)
      BY <1>2 DEF Calm
    <3> SUFFICES ASSUME world.place[id + 1] # Start PROVE world.place[id + 1] = u
      OBVIOUS
    <3>2. world.place[id + 1] \in Users /\ world.index[world.place[id + 1]] = world.index[u]
      BY <1>6, <3>1 DEF Placed
    <3> QED
      BY <1>1, <1>2, <1>4, <3>2, Players
  <2>2. \A f \in waiting': f.place \in {Start, f.user}
    BY <1>3, <1>7, <2>1 DEF PlayersInv, MovedByOwner
  <2>3. id \notin DOMAIN live
    BY <1>15 DEF PlayersInv, InGameOnce
  <2>4. \A v \in Users: observers'[v] \in DOMAIN live =>
          {live[observers'[v]].at, live[observers'[v]].target} \subseteq {Start, v}
    BY <1>8, <2>3 DEF PlayersInv, MovedByOwner
  <2> QED
    BY <1>3, <2>2, <2>4 DEF MovedByOwner
<1> QED
  BY <1>9, <1>10, <1>11, <1>12, <1>14, <1>16, <1>17, <1>18 DEF PlayersInv

\* In game with a character is one user only.
LEMMA OneUserEach ==
  ASSUME PlayersInv, Calm, NEW u \in Users, NEW v \in Users,
         observers[u] # None, observers[v] = observers[u]
  PROVE u = v
<1>1. World(world)
  BY DEF PlayersInv, Recorded
<1>2. /\ observers[u] \in Ids(world)
      /\ world.owner[observers[u] + 1][1] = world.index[u] /\ world.index[v] = world.index[u]
  BY DEF PlayersInv, OwnCharacter, Typed
<1>3. world.index[u] # None
  <2>1. world.owner[observers[u] + 1][1] \in 0 .. Len(world.slots) - 1 /\ Len(world.slots) \in Nat
    BY <1>1, <1>2, Columns
  <2> QED
    BY <1>2, <2>1 DEF None
<1> QED
  BY <1>1, <1>2, <1>3, Players

LEMMA SetupPlayerInv ==
  ASSUME PlayersInv, NEW e \in waiting, SetupPlayer(e)
  PROVE PlayersInv'
<1> DEFINE b == [handle |-> e.handle, at |-> e.place, target |-> e.place]
<1>1. /\ waiting' = waiting \ {e}
      /\ live' = [id \in DOMAIN live \cup {e.id} |-> IF id = e.id THEN b ELSE live[id]]
      /\ UNCHANGED <<world, saved, session, observers, bodies, panicked, opens, orphaned>>
  BY DEF SetupPlayer
<1>2. e \in Entries /\ e.id \in Ids(world)
  BY DEF PlayersInv, Typed
<1>3. b \in LiveBodies /\ b.handle = e.handle /\ b.at = e.place /\ b.target = e.place
  BY <1>2 DEF Entries, LiveBodies
<1> HIDE DEF b
<1>4. /\ DOMAIN live' = DOMAIN live \cup {e.id} /\ live'[e.id] = b
      /\ \A id \in DOMAIN live: id # e.id => live'[id] = live[id]
  BY <1>1
<1>5. Recorded' /\ Known'
  BY <1>1 DEF PlayersInv, Recorded, Known, Running
<1>6. Typed'
  <2>1. live' \in [DOMAIN live' -> LiveBodies]
    <3>1. live \in [DOMAIN live -> LiveBodies]
      BY DEF PlayersInv, Typed
    <3> QED
      BY <1>1, <1>3, <3>1
  <2>2. \A id \in DOMAIN live': id \in Ids(world)
    BY <1>2, <1>4 DEF PlayersInv, Typed
  <2>3. Ids(world)' = Ids(world)
    BY <1>1 DEF Ids
  <2>4. waiting' \subseteq Entries /\ \A f \in waiting': f.id \in Ids(world)
    BY <1>1 DEF PlayersInv, Typed
  <2> QED
    BY <1>1, <2>1, <2>2, <2>3, <2>4 DEF PlayersInv, Typed
<1>7. Handles'
  <2>1. /\ \A f \in waiting: f.handle \in bodies
        /\ \A id \in DOMAIN live: live[id].handle \in bodies
        /\ \A f, g \in waiting: f.handle = g.handle => f = g
        /\ \A i, j \in DOMAIN live: live[i].handle = live[j].handle => i = j
        /\ \A f \in waiting, id \in DOMAIN live: f.handle # live[id].handle
    BY DEF PlayersInv, Handles
  <2>2. \A i \in DOMAIN live': (i = e.id /\ live'[i].handle = e.handle)
                             \/ (i # e.id /\ i \in DOMAIN live /\ live'[i].handle = live[i].handle)
    BY <1>3, <1>4
  <2>3. \A i, j \in DOMAIN live': live'[i].handle = live'[j].handle => i = j
    BY <2>1, <2>2
  <2>4. ASSUME NEW f \in waiting', NEW i \in DOMAIN live' PROVE f.handle # live'[i].handle
    <3>1. f \in waiting /\ f # e
      BY <1>1
    <3>2. f.handle # e.handle
      BY <2>1, <3>1
    <3> QED
      BY <2>1, <2>2, <3>1, <3>2
  <2>5. \A i \in DOMAIN live': live'[i].handle \in bodies
    BY <2>1, <2>2
  <2>6. waiting' \subseteq waiting /\ bodies' = bodies
    BY <1>1
  <2> QED
    BY <2>1, <2>3, <2>4, <2>5, <2>6 DEF Handles
<1>8. OwnCharacter'
  BY <1>1 DEF PlayersInv, OwnCharacter, Calm, Running
<1>9. Calm' <=> Calm
  BY <1>1 DEF Calm, Running
<1>10. ASSUME Calm
       PROVE /\ \A f \in waiting: observers[f.user] = f.id /\ f.id \notin DOMAIN live
             /\ \A f, g \in waiting: f.id = g.id => f = g
             /\ \A id \in DOMAIN live: \E u \in Users: observers[u] = id
             /\ \A u \in Users: observers[u] # None =>
                  observers[u] \in DOMAIN live \/ \E f \in waiting: f.id = observers[u]
             /\ e.user \in Users /\ observers[e.user] = e.id
  BY <1>2, <1>10 DEF PlayersInv, InGameOnce, Entries
<1>11. InGameOnce'
  <2> SUFFICES ASSUME Calm PROVE InGameOnce'
    BY <1>9 DEF InGameOnce
  <2>1. \A f \in waiting': observers'[f.user] = f.id /\ f.id \notin DOMAIN live'
    BY <1>1, <1>4, <1>10
  <2>2. \A f, g \in waiting': f.id = g.id => f = g
    BY <1>1, <1>10
  <2>3. \A id \in DOMAIN live': \E u \in Users: observers'[u] = id
    BY <1>1, <1>4, <1>10
  <2>4. \A u \in Users: observers'[u] # None =>
          observers'[u] \in DOMAIN live' \/ \E f \in waiting': f.id = observers'[u]
    BY <1>1, <1>4, <1>10
  <2> QED
    BY <2>1, <2>2, <2>3, <2>4 DEF InGameOnce
<1>12. NoOtherBody'
  <2> SUFFICES ASSUME Calm PROVE NoOtherBody'
    BY <1>9 DEF NoOtherBody
  <2>1. /\ \A h \in bodies: (\E f \in waiting: f.handle = h) \/ \E id \in DOMAIN live: live[id].handle = h
        /\ IsFiniteSet(Playing) /\ Cardinality(bodies) = Cardinality(Playing)
    BY DEF PlayersInv, NoOtherBody
  <2>2. \A h \in bodies: (\E f \in waiting': f.handle = h) \/ \E id \in DOMAIN live': live'[id].handle = h
    <3> TAKE h \in bodies
    <3>1. CASE \E f \in waiting: f.handle = h
      BY <1>1, <1>3, <1>4, <3>1
    <3>2. CASE \E id \in DOMAIN live: live[id].handle = h
      <4>1. PICK id \in DOMAIN live: live[id].handle = h
        BY <3>2
      <4>2. id # e.id
        BY <1>10
      <4> QED
        BY <1>4, <4>1, <4>2
    <3> QED
      BY <2>1, <3>1, <3>2
  <2>3. Playing' = Playing
    BY <1>1 DEF Playing
  <2> QED
    BY <1>1, <2>1, <2>2, <2>3 DEF NoOtherBody
<1>13. MovedByOwner'
  <2> SUFFICES ASSUME Calm PROVE MovedByOwner'
    BY <1>9 DEF MovedByOwner
  <2>1. /\ \A f \in waiting: f.place \in {Start, f.user}
        /\ \A u \in Users: observers[u] \in DOMAIN live =>
             {live[observers[u]].at, live[observers[u]].target} \subseteq {Start, u}
    BY DEF PlayersInv, MovedByOwner
  <2>2. ASSUME NEW u \in Users, observers[u] = e.id PROVE u = e.user
    <3>1. e.id # None
      BY <1>2 DEF Entries, None
    <3> QED
      BY <1>10, <2>2, <3>1, OneUserEach
  <2>3. ASSUME NEW u \in Users, observers'[u] \in DOMAIN live'
        PROVE {live'[observers'[u]].at, live'[observers'[u]].target} \subseteq {Start, u}
    <3>1. CASE observers[u] = e.id
      BY <1>1, <1>3, <1>4, <2>1, <2>2, <3>1
    <3>2. CASE observers[u] # e.id
      BY <1>1, <1>4, <2>1, <2>3, <3>2
    <3> QED
      BY <3>1, <3>2
  <2> QED
    BY <1>1, <2>1, <2>3 DEF MovedByOwner
<1> QED
  BY <1>5, <1>6, <1>7, <1>8, <1>11, <1>12, <1>13 DEF PlayersInv

\* Live bodies move and nothing else changes.
LEMMA MovingBodies ==
  ASSUME PlayersInv,
         UNCHANGED <<world, saved, session, observers, waiting, bodies, panicked, opens, orphaned>>,
         live' \in [DOMAIN live -> LiveBodies],
         \A id \in DOMAIN live: live'[id].handle = live[id].handle,
         MovedByOwner'
  PROVE PlayersInv'
<1>1. DOMAIN live' = DOMAIN live
  OBVIOUS
<1>2. Recorded' /\ Known' /\ OwnCharacter'
  BY DEF PlayersInv, Recorded, Known, OwnCharacter, Calm, Running
<1>3. Typed'
  <2>1. Ids(world)' = Ids(world)
    BY DEF Ids
  <2> QED
    BY <1>1, <2>1 DEF PlayersInv, Typed
<1>4. Handles'
  BY <1>1 DEF PlayersInv, Handles
<1>5. InGameOnce'
  BY <1>1 DEF PlayersInv, InGameOnce, Calm, Running
<1>6. NoOtherBody'
  BY <1>1 DEF PlayersInv, NoOtherBody, Calm, Running, Playing
<1> QED
  BY <1>2, <1>3, <1>4, <1>5, <1>6 DEF PlayersInv

LEMMA UpdateSelfInv ==
  ASSUME PlayersInv, NEW c \in Sessions, UpdateSelf(c)
  PROVE PlayersInv'
<1> DEFINE u == UserOf[c]
           i == observers[u]
<1>1. u \in Users
  BY UserOfAssumption
<1>2. /\ i \in DOMAIN live
      /\ live' = [live EXCEPT ![i].target = u]
      /\ UNCHANGED <<world, saved, session, observers, waiting, bodies, panicked, opens, orphaned>>
  BY DEF UpdateSelf
<1> HIDE DEF u
<1>3. live \in [DOMAIN live -> LiveBodies] /\ live[i] \in LiveBodies
  BY <1>2 DEF PlayersInv, Typed
<1>4. i # None
  <2>1. i \in Ids(world) /\ World(world)
    BY <1>2 DEF PlayersInv, Typed, Recorded
  <2>2. Len(world.used) \in Nat
    BY <2>1, Columns
  <2> QED
    BY <2>1, <2>2 DEF Ids, None
<1> HIDE DEF i
<1>5. /\ DOMAIN live' = DOMAIN live
      /\ live'[i] = [live[i] EXCEPT !.target = u]
      /\ \A id \in DOMAIN live: id # i => live'[id] = live[id]
  BY <1>2, <1>3
<1>6. live'[i] \in LiveBodies /\ live'[i].handle = live[i].handle /\ live'[i].at = live[i].at /\ live'[i].target = u
  BY <1>1, <1>3, <1>5 DEF LiveBodies
<1>7. live' \in [DOMAIN live -> LiveBodies]
  BY <1>2, <1>3, <1>6
<1>8. \A id \in DOMAIN live: live'[id].handle = live[id].handle
  BY <1>5, <1>6
<1>9. MovedByOwner'
  <2> SUFFICES ASSUME Calm PROVE MovedByOwner'
    BY <1>2 DEF MovedByOwner, Calm, Running
  <2>1. /\ \A f \in waiting: f.place \in {Start, f.user}
        /\ \A v \in Users: observers[v] \in DOMAIN live =>
             {live[observers[v]].at, live[observers[v]].target} \subseteq {Start, v}
    BY DEF PlayersInv, MovedByOwner
  <2>2. ASSUME NEW v \in Users, observers[v] \in DOMAIN live
        PROVE {live'[observers[v]].at, live'[observers[v]].target} \subseteq {Start, v}
    <3>1. CASE observers[v] = i
      <4>1. v = u
        BY <1>1, <1>4, <3>1, OneUserEach DEF i
      <4> QED
        BY <1>6, <2>1, <2>2, <3>1, <4>1
    <3>2. CASE observers[v] # i
      BY <1>5, <2>1, <2>2, <3>2
    <3> QED
      BY <3>1, <3>2
  <2> QED
    BY <1>2, <1>5, <2>1, <2>2 DEF MovedByOwner
<1> QED
  BY <1>2, <1>7, <1>8, <1>9, MovingBodies

LEMMA UpdatePcsInv ==
  ASSUME PlayersInv, UpdatePcs
  PROVE PlayersInv'
<1>1. /\ live' = [id \in DOMAIN live |-> [live[id] EXCEPT !.at = live[id].target]]
      /\ UNCHANGED <<world, saved, session, observers, waiting, bodies, panicked, opens, orphaned>>
  BY DEF UpdatePcs
<1>2. \A id \in DOMAIN live: live[id] \in LiveBodies
  BY DEF PlayersInv, Typed
<1>3. \A id \in DOMAIN live:
        /\ live'[id] \in LiveBodies /\ live'[id].handle = live[id].handle
        /\ live'[id].at = live[id].target /\ live'[id].target = live[id].target
  BY <1>1, <1>2 DEF LiveBodies
<1>4. live' \in [DOMAIN live -> LiveBodies] /\ DOMAIN live' = DOMAIN live
  BY <1>1, <1>3
<1>5. MovedByOwner'
  <2> SUFFICES ASSUME Calm
               PROVE MovedByOwner'
    BY <1>1 DEF MovedByOwner, Calm, Running
  <2>1. /\ \A e \in waiting: e.place \in {Start, e.user}
        /\ \A u \in Users: observers[u] \in DOMAIN live =>
             {live[observers[u]].at, live[observers[u]].target} \subseteq {Start, u}
    BY DEF PlayersInv, MovedByOwner
  <2>2. ASSUME NEW u \in Users, observers[u] \in DOMAIN live'
        PROVE {live'[observers[u]].at, live'[observers[u]].target} \subseteq {Start, u}
    <3>1. observers[u] \in DOMAIN live
      BY <1>4, <2>2
    <3> QED
      BY <1>3, <2>1, <3>1
  <2> QED
    BY <1>1, <2>1, <2>2 DEF MovedByOwner
<1> QED
  BY <1>1, <1>3, <1>4, <1>5, MovingBodies

LEMMA LeaveGameInv ==
  ASSUME PlayersInv, Running, NEW u \in Users, observers[u] # None, LeaveGame(u),
         UNCHANGED <<saved, waiting, opens, orphaned>>,
         session' \in [Sessions -> {"none", "open"}],
         \A d \in Sessions: session'[d] = "open" => session[d] = "open"
  PROVE PlayersInv'
<1> DEFINE id == observers[u]
           h == live[id].handle
           x == live[id].at
<1>1. observers' = [observers EXCEPT ![u] = None]
  BY DEF LeaveGame
<1>2. /\ id \in DOMAIN live =>
           /\ live' = [i \in DOMAIN live \ {id} |-> live[i]]
           /\ world' = Moved(world, id, x)
           /\ bodies' = bodies \ {h}
           /\ UNCHANGED panicked
      /\ id \notin DOMAIN live => panicked' = "remove" /\ UNCHANGED <<live, world, bodies>>
  BY DEF LeaveGame, Moved
<1>3. /\ World(world) /\ Accounted(world) /\ (~orphaned => Placed(world))
      /\ World(saved) /\ Accounted(saved) /\ (~orphaned => Placed(saved))
  BY DEF PlayersInv, Recorded
<1>4. /\ observers \in [Users -> Int] /\ id \in Ids(world)
      /\ live \in [DOMAIN live -> LiveBodies] /\ \A i \in DOMAIN live: i \in Ids(world)
      /\ bodies \subseteq Nat /\ IsFiniteSet(bodies)
      /\ \A v \in Users: observers[v] # None => observers[v] \in Ids(world)
      /\ orphaned \in BOOLEAN
  BY DEF PlayersInv, Typed
<1>5. id \in DOMAIN live => x \in Users \cup {Start}
  BY <1>4 DEF LiveBodies
<1> HIDE DEF id, h, x
<1>6. /\ observers' \in [Users -> Int] /\ None \in Int
      /\ \A v \in Users: observers'[v] = IF v = u THEN None ELSE observers[v]
  <2>1. None \in Int
    BY DEF None
  <2> QED
    BY <1>1, <1>4, <2>1
<1>7. /\ World(world') /\ Ids(world') = Ids(world) /\ world'.index = world.index
      /\ world'.owner = world.owner /\ world'.free = world.free
      /\ Accounted(world')
      /\ Placed(world) /\ (x = Start \/ (x \in Users /\ world.index[x] = world.owner[id + 1][1])) /\ id \in DOMAIN live
           => Placed(world')
  <2>1. CASE id \in DOMAIN live
    BY <1>2, <1>3, <1>4, <1>5, <2>1, Moving
  <2>2. CASE id \notin DOMAIN live
    BY <1>2, <1>3, <2>2
  <2> QED
    BY <2>1, <2>2
<1>8. Running' => id \in DOMAIN live /\ panicked' = panicked
  BY <1>2 DEF Running
<1>9. Calm' => Calm /\ id \in DOMAIN live
  BY <1>8 DEF Calm, Running
<1>10. Recorded'
  <2>1. ASSUME Running', ~orphaned PROVE Placed(world')
    <3>1. Calm /\ id \in DOMAIN live
      BY <1>8, <2>1 DEF Calm
    <3>2. x \in {Start, u}
      BY <3>1 DEF PlayersInv, MovedByOwner, id, x
    <3>3. world.owner[id + 1][1] = world.index[u]
      BY <3>1 DEF PlayersInv, OwnCharacter, id
    <3> QED
      BY <1>3, <1>7, <2>1, <3>1, <3>2, <3>3
  <2> QED
    BY <1>3, <1>7, <2>1 DEF Recorded, Running
<1>11. Typed'
  <2>1. bodies' \subseteq Nat /\ IsFiniteSet(bodies')
    <3>1. IsFiniteSet(bodies \ {h})
      BY <1>4, FS_RemoveElement
    <3> QED
      BY <1>2, <1>4, <3>1
  <2>2. live' \in [DOMAIN live' -> LiveBodies] /\ \A i \in DOMAIN live': i \in Ids(world)
    <3>1. CASE id \in DOMAIN live
      <4>1. live' = [i \in DOMAIN live \ {id} |-> live[i]]
        BY <1>2, <3>1
      <4>2. \A i \in DOMAIN live: live[i] \in LiveBodies
        BY <1>4
      <4> QED
        BY <1>4, <4>1, <4>2
    <3>2. CASE id \notin DOMAIN live
      BY <1>2, <1>4, <3>2
    <3> QED
      BY <3>1, <3>2
  <2>3. Ids(world)' = Ids(world)
    BY <1>7 DEF Ids
  <2>4. panicked' \in {"no", "remove", "free"}
    BY <1>2 DEF PlayersInv, Typed
  <2>5. \A v \in Users: observers'[v] # None => observers'[v] \in Ids(world)
    BY <1>4, <1>6
  <2> QED
    BY <1>6, <2>1, <2>2, <2>3, <2>4, <2>5 DEF PlayersInv, Typed
<1>12. Known'
  BY <1>7 DEF PlayersInv, Known
<1>13. CASE id \notin DOMAIN live
  <2>1. ~Calm'
    BY <1>9, <1>13
  <2>2. Handles'
    BY <1>2, <1>13 DEF PlayersInv, Handles
  <2>3. OwnCharacter' /\ InGameOnce' /\ NoOtherBody' /\ MovedByOwner'
    BY <2>1 DEF OwnCharacter, InGameOnce, NoOtherBody, MovedByOwner
  <2> QED
    BY <1>10, <1>11, <1>12, <2>2, <2>3 DEF PlayersInv
<1>14. CASE id \in DOMAIN live
  <2>1. /\ bodies' = bodies \ {h} /\ h \in bodies
        /\ DOMAIN live' = DOMAIN live \ {id}
        /\ \A i \in DOMAIN live: i # id => live'[i] = live[i]
    BY <1>2, <1>14 DEF PlayersInv, Handles, h
  <2>2. Handles'
    <3>1. /\ \A f \in waiting: f.handle \in bodies
          /\ \A i \in DOMAIN live: live[i].handle \in bodies
          /\ \A f, g \in waiting: f.handle = g.handle => f = g
          /\ \A i, j \in DOMAIN live: live[i].handle = live[j].handle => i = j
          /\ \A f \in waiting, i \in DOMAIN live: f.handle # live[i].handle
      BY DEF PlayersInv, Handles
    <3>2. \A f \in waiting: f.handle \in bodies'
      BY <1>14, <2>1, <3>1 DEF h
    <3>3. \A i \in DOMAIN live': i \in DOMAIN live /\ i # id /\ live'[i] = live[i]
      BY <2>1
    <3>4. \A i \in DOMAIN live': live'[i].handle \in bodies'
      BY <1>14, <2>1, <3>1, <3>3 DEF h
    <3> QED
      BY <3>1, <3>2, <3>3, <3>4 DEF Handles
  <2>3. OwnCharacter'
    BY <1>6, <1>7, <1>9 DEF PlayersInv, OwnCharacter
  <2>4. ASSUME Calm, NEW v \in Users, v # u PROVE observers[v] # id
    BY <2>4, OneUserEach DEF id
  <2>5. InGameOnce'
    <3> SUFFICES ASSUME Calm PROVE InGameOnce'
      BY <1>9 DEF InGameOnce
    <3>1. /\ \A f \in waiting: observers[f.user] = f.id /\ f.id \notin DOMAIN live /\ f.user \in Users
          /\ \A f, g \in waiting: f.id = g.id => f = g
          /\ \A i \in DOMAIN live: \E v \in Users: observers[v] = i
          /\ \A v \in Users: observers[v] # None =>
               observers[v] \in DOMAIN live \/ \E f \in waiting: f.id = observers[v]
      BY DEF PlayersInv, InGameOnce, Typed, Entries
    <3>2. \A f \in waiting: f.user # u
      BY <1>14, <3>1 DEF id
    <3>3. \A f \in waiting': observers'[f.user] = f.id /\ f.id \notin DOMAIN live'
      BY <1>6, <2>1, <3>1, <3>2
    <3>4. ASSUME NEW i \in DOMAIN live' PROVE \E v \in Users: observers'[v] = i
      <4>1. i \in DOMAIN live /\ i # id
        BY <2>1
      <4>2. PICK v \in Users: observers[v] = i
        BY <3>1, <4>1
      <4>3. v # u
        BY <4>1, <4>2 DEF id
      <4> QED
        BY <1>6, <4>2, <4>3
    <3>5. ASSUME NEW v \in Users, observers'[v] # None
          PROVE observers'[v] \in DOMAIN live' \/ \E f \in waiting': f.id = observers'[v]
      <4>1. v # u /\ observers'[v] = observers[v]
        BY <1>6, <3>5
      <4>2. observers[v] # id
        BY <2>4, <4>1
      <4> QED
        BY <2>1, <3>1, <3>5, <4>1, <4>2
    <3> QED
      BY <3>1, <3>3, <3>4, <3>5 DEF InGameOnce
  <2>6. NoOtherBody'
    <3> SUFFICES ASSUME Calm PROVE NoOtherBody'
      BY <1>9 DEF NoOtherBody
    <3>1. /\ \A b \in bodies: (\E f \in waiting: f.handle = b) \/ \E i \in DOMAIN live: live[i].handle = b
          /\ IsFiniteSet(Playing) /\ Cardinality(bodies) = Cardinality(Playing)
      BY DEF PlayersInv, NoOtherBody
    <3>2. Playing' = Playing \ {u} /\ u \in Playing
      BY <1>6 DEF Playing
    <3>3. IsFiniteSet(Playing') /\ Cardinality(Playing') = Cardinality(Playing) - 1
      BY <3>1, <3>2, FS_RemoveElement
    <3>4. Cardinality(bodies') = Cardinality(bodies) - 1
      BY <1>4, <2>1, FS_RemoveElement
    <3>5. ASSUME NEW b \in bodies', \A f \in waiting': f.handle # b
          PROVE \E i \in DOMAIN live': live'[i].handle = b
      <4>1. PICK i \in DOMAIN live: live[i].handle = b
        BY <2>1, <3>1, <3>5
      <4>2. i # id
        BY <2>1, <4>1 DEF h
      <4> QED
        BY <2>1, <4>1, <4>2
    <3> QED
      BY <3>1, <3>3, <3>4, <3>5 DEF NoOtherBody
  <2>7. MovedByOwner'
    <3> SUFFICES ASSUME Calm PROVE MovedByOwner'
      BY <1>9 DEF MovedByOwner
    <3>1. ASSUME NEW v \in Users, observers'[v] \in DOMAIN live'
          PROVE observers'[v] = observers[v] /\ observers[v] \in DOMAIN live /\ live'[observers[v]] = live[observers[v]]
      <4>1. None \notin DOMAIN live
        <5>1. Len(world.used) \in Nat
          BY <1>3, Columns
        <5> QED
          BY <1>4, <5>1 DEF Ids, None
      <4> QED
        BY <1>6, <2>1, <3>1, <4>1
    <3> QED
      BY <3>1 DEF PlayersInv, MovedByOwner
  <2> QED
    BY <1>10, <1>11, <1>12, <2>2, <2>3, <2>5, <2>6, <2>7 DEF PlayersInv
<1> QED
  BY <1>13, <1>14

LEMMA ExitInv ==
  ASSUME PlayersInv, NEW c \in Sessions, Exit(c)
  PROVE PlayersInv'
<1>1. UserOf[c] \in Users
  BY UserOfAssumption
<1>2. session \in [Sessions -> {"none", "open"}]
  BY DEF PlayersInv, Typed
<1> QED
  BY <1>1, <1>2, LeaveGameInv DEF Exit, Open

LEMMA DisconnectedInv ==
  ASSUME PlayersInv, NEW c \in Sessions, Disconnected(c)
  PROVE PlayersInv'
<1>1. UserOf[c] \in Users
  BY UserOfAssumption
<1>2. session \in [Sessions -> {"none", "open"}] /\ session' = [session EXCEPT ![c] = "none"]
  BY DEF PlayersInv, Typed, Disconnected
<1>3. /\ session' \in [Sessions -> {"none", "open"}]
      /\ \A d \in Sessions: session'[d] = "open" => session[d] = "open"
  BY <1>2
<1>4. CASE observers[UserOf[c]] # None
  BY <1>1, <1>3, <1>4, LeaveGameInv DEF Disconnected, Open
<1>5. CASE observers[UserOf[c]] = None
  <2>1. UNCHANGED <<observers, live, world, bodies, panicked, saved, waiting, opens, orphaned>> /\ Running
    BY <1>5 DEF Disconnected, Open
  <2>2. World(world) /\ Accounted(world) /\ (~orphaned => Placed(world)) /\ Grows(world, world)
    BY <2>1 DEF PlayersInv, Recorded, Grows
  <2>3. \A d \in Sessions: session'[d] = "open" => world'.index[UserOf[d]] # None
    BY <1>3, <2>1 DEF PlayersInv, Known
  <2> QED
    BY <1>3, <2>1, <2>2, <2>3, Growing DEF gameVars
<1> QED
  BY <1>4, <1>5

LEMMA RestartInv ==
  ASSUME PlayersInv, NEW w, Restart(w), World(w), Accounted(w), ~orphaned => Placed(w)
  PROVE PlayersInv'
<1>1. /\ opens < MaxOpens /\ opens' = opens + 1 /\ saved' = w /\ world' = w
      /\ session' = [c \in Sessions |-> "none"] /\ observers' = [u \in Users |-> None]
      /\ waiting' = {} /\ live' = <<>> /\ bodies' = {} /\ panicked' = "no" /\ orphaned' = orphaned
  BY DEF Restart
<1>2. DOMAIN live' = {}
  BY <1>1, EmptySeq
<1>3. Recorded'
  BY <1>1 DEF Recorded, Running
<1>4. Typed'
  <2>1. opens \in 0 .. MaxOpens /\ orphaned \in BOOLEAN
    BY DEF PlayersInv, Typed
  <2>2. opens' \in 0 .. MaxOpens
    BY <1>1, <2>1, OpensAssumption
  <2>3. observers' \in [Users -> Int] /\ \A u \in Users: observers'[u] = None
    BY <1>1 DEF None
  <2>4. live' \in [DOMAIN live' -> LiveBodies]
    BY <1>1, <1>2
  <2>5. IsFiniteSet(bodies')
    BY <1>1, FS_EmptySet
  <2>6. session' \in [Sessions -> {"none", "open"}]
    BY <1>1
  <2> QED
    BY <1>1, <1>2, <2>1, <2>2, <2>3, <2>4, <2>5, <2>6 DEF Typed
<1>5. Known' /\ Handles' /\ OwnCharacter' /\ InGameOnce' /\ MovedByOwner'
  BY <1>1, <1>2 DEF Known, Handles, OwnCharacter, InGameOnce, MovedByOwner
<1>6. NoOtherBody'
  <2>1. Playing' = {} /\ bodies' = {}
    BY <1>1 DEF Playing
  <2> QED
    BY <2>1, FS_EmptySet DEF NoOtherBody
<1> QED
  BY <1>3, <1>4, <1>5, <1>6 DEF PlayersInv

\* The invariant of all states.
THEOREM PlayersInvariant == Spec => []PlayersInv
<1>1. PlayersInv /\ [Next]_vars => PlayersInv'
  <2> SUFFICES ASSUME PlayersInv, [Next]_vars PROVE PlayersInv'
    OBVIOUS
  <2>1. ASSUME NEW c \in Sessions, Connected(c) PROVE PlayersInv'
    BY <2>1, ConnectedInv
  <2>2. ASSUME NEW c \in Sessions, UpdateSelf(c) PROVE PlayersInv'
    BY <2>2, UpdateSelfInv
  <2>3. ASSUME NEW c \in Sessions, Exit(c) PROVE PlayersInv'
    BY <2>3, ExitInv
  <2>4. ASSUME NEW c \in Sessions, Disconnected(c) PROVE PlayersInv'
    BY <2>4, DisconnectedInv
  <2>5. ASSUME NEW c \in Sessions, NEW s \in Slots, Create(c, s) PROVE PlayersInv'
    BY <2>5, CreateInv
  <2>6. ASSUME NEW c \in Sessions, NEW s \in Slots, Delete(c, s) PROVE PlayersInv'
    BY <2>6, DeleteInv
  <2>7. ASSUME NEW c \in Sessions, NEW s \in Slots, Enter(c, s) PROVE PlayersInv'
    BY <2>7, EnterInv
  <2>8. ASSUME NEW e \in waiting, SetupPlayer(e) PROVE PlayersInv'
    BY <2>8, SetupPlayerInv
  <2>9. CASE UpdatePcs
    BY <2>9, UpdatePcsInv
  <2>10. CASE Stop
    BY <2>10, RestartInv DEF Stop, PlayersInv, Recorded
  <2>11. CASE Kill
    BY <2>11, RestartInv DEF Kill, PlayersInv, Recorded
  <2>12. CASE UNCHANGED vars
    <3>1. UNCHANGED <<world, saved, session, observers, waiting, live, bodies, panicked, opens, orphaned>>
      BY <2>12 DEF vars, gameVars
    <3>2. Ids(world)' = Ids(world) /\ Playing' = Playing /\ (Calm' <=> Calm) /\ (Running' <=> Running)
      BY <3>1 DEF Ids, Playing, Calm, Running
    <3>3. Recorded' /\ Typed' /\ Known' /\ Handles'
      BY <3>1, <3>2 DEF PlayersInv, Recorded, Typed, Known, Handles
    <3>4. OwnCharacter' /\ InGameOnce' /\ NoOtherBody' /\ MovedByOwner'
      BY <3>1, <3>2 DEF PlayersInv, OwnCharacter, InGameOnce, NoOtherBody, MovedByOwner
    <3> QED
      BY <3>3, <3>4 DEF PlayersInv
  <2> QED
    BY <2>1, <2>2, <2>3, <2>4, <2>5, <2>6, <2>7, <2>8, <2>9, <2>10, <2>11, <2>12 DEF Next
<1> QED
  BY <1>1, InitInv, PTL DEF Spec

-----------------------------------------------------------------------------
(* What follows from the invariant. *)

LEMMA InWords ==
  ASSUME NEW w, World(w), Accounted(w)
  PROVE Partitioned(w)
<1>1. /\ Len(w.slots) \in Nat
      /\ \A i \in Ids(w):
           /\ w.owner[i + 1] \in Int \X Slots
           /\ w.owner[i + 1][1] \in 0 .. Len(w.slots) - 1 /\ w.owner[i + 1][2] \in Slots
  BY Columns
<1> SUFFICES ASSUME NEW id \in Ids(w)
             PROVE IF id \in Range(w.free) THEN Bound(w, id) = {}
                   ELSE Bound(w, id) = {<<w.owner[id + 1][1] + 1, w.owner[id + 1][2]>>}
  BY DEF Partitioned, Accounted
<1>2. id # None
  <2>1. Len(w.used) \in Nat
    BY Columns
  <2> QED
    BY <2>1 DEF Ids, None
<1>3. ASSUME NEW q \in Bound(w, id)
      PROVE id \notin Range(w.free) /\ q = <<w.owner[id + 1][1] + 1, w.owner[id + 1][2]>>
  <2>1. PICK p \in 1 .. Len(w.slots), s \in Slots: q = <<p, s>> /\ w.slots[p][s] = id
    BY DEF Bound
  <2>2. id \notin Range(w.free) /\ w.owner[id + 1] = <<p - 1, s>>
    BY <1>2, <2>1 DEF Accounted, HeldIsOwned
  <2>3. w.owner[id + 1][1] = p - 1 /\ w.owner[id + 1][2] = s
    BY <2>2
  <2>4. w.owner[id + 1][1] + 1 = p
    BY <2>1, <2>3
  <2> QED
    BY <2>1, <2>2, <2>3, <2>4
<1>4. ASSUME id \notin Range(w.free)
      PROVE <<w.owner[id + 1][1] + 1, w.owner[id + 1][2]>> \in Bound(w, id)
  <2>1. w.slots[w.owner[id + 1][1] + 1][w.owner[id + 1][2]] = id
    BY <1>4 DEF Accounted, OwnedIsHeld
  <2>2. w.owner[id + 1][1] + 1 \in 1 .. Len(w.slots) /\ w.owner[id + 1][2] \in Slots
    BY <1>1
  <2> QED
    BY <2>1, <2>2 DEF Bound
<1> QED
  BY <1>3, <1>4

\* Every character of the file is bound to one slot or free, and a user is one
\* player, in memory and on disk.
THEOREM NoCharacterLost == Spec => []CharactersAccounted
<1>1. PlayersInv => CharactersAccounted
  <2> SUFFICES ASSUME PlayersInv PROVE CharactersAccounted
    OBVIOUS
  <2>1. TypeOK
    <3>1. IsWorld(world) /\ IsWorld(saved)
      BY DEF PlayersInv, Recorded, World
    <3>2. observers \in [Users -> {None} \cup Ids(world)]
      BY DEF PlayersInv, Typed
    <3>3. \A e \in waiting: e.user \in Users /\ e.id \in Ids(world) /\ e.handle \in bodies
      BY DEF PlayersInv, Typed, Handles, Entries
    <3>4. \A id \in DOMAIN live: id \in Ids(world) /\ {live[id].at, live[id].target} \subseteq Users \cup {Start}
      BY DEF PlayersInv, Typed, LiveBodies
    <3> QED
      BY <3>1, <3>2, <3>3, <3>4 DEF TypeOK, PlayersInv, Typed
  <2>2. \A w \in {world, saved}: OnePlayer(w) /\ (Running => Partitioned(w))
    BY InWords DEF PlayersInv, Recorded, World
  <2> QED
    BY <2>1, <2>2 DEF CharactersAccounted
<1> QED
  BY <1>1, PlayersInvariant, PTL

\* While nobody deletes a character in game, those in game are different
\* characters, each with one body.
THEOREM OneBodyEach == Spec => []OneBody
<1>1. PlayersInv => OneBody
  <2> SUFFICES ASSUME PlayersInv, Calm PROVE OneBody
    BY DEF OneBody, Calm
  <2>1. /\ \A e \in waiting: observers[e.user] = e.id /\ e.id \notin DOMAIN live /\ e.user \in Users /\ e.id \in Nat
        /\ \A id \in DOMAIN live: (\E u \in Users: observers[u] = id) /\ id \in Ids(world)
        /\ \A u \in Users: observers[u] # None =>
             observers[u] \in DOMAIN live \/ \E e \in waiting: e.id = observers[u]
    BY DEF PlayersInv, InGameOnce, Typed, Entries
  <2>2. None \notin Nat /\ None \notin Ids(world)
    <3>1. Len(world.used) \in Nat
      BY Columns DEF PlayersInv, Recorded
    <3> QED
      BY <3>1 DEF None, Ids
  <2>3. {e.id : e \in waiting} \cap DOMAIN live = {}
    BY <2>1
  <2>4. {e.id : e \in waiting} \cup DOMAIN live = {observers[u] : u \in Users} \ {None}
    BY <2>1, <2>2
  <2>5. bodies = {e.handle : e \in waiting} \cup {live[id].handle : id \in DOMAIN live}
    BY DEF PlayersInv, Handles, NoOtherBody
  <2>6. Cardinality(bodies) = Cardinality({u \in Users : observers[u] # None})
    BY DEF PlayersInv, NoOtherBody, Playing
  <2>7. \A u \in Users : observers[u] # None =>
          /\ world.owner[observers[u] + 1][1] = world.index[u]
          /\ observers[u] \notin Range(world.free)
    BY DEF PlayersInv, OwnCharacter
  <2> QED
    BY <2>3, <2>4, <2>5, <2>6, <2>7 DEF OneBody
<1> QED
  BY <1>1, PlayersInvariant, PTL

\* ... and a character stands where its own player put it.
THEOREM PlacedByOwner == Spec => []OwnPlaces
<1>1. PlayersInv => OwnPlaces
  <2> SUFFICES ASSUME PlayersInv, Calm PROVE OwnPlaces
    BY DEF OwnPlaces, Calm
  <2>1. Placed(world) /\ Placed(saved)
    BY DEF PlayersInv, Recorded, Calm
  <2>2. ASSUME NEW w \in {world, saved}, NEW id \in Ids(w), id \notin Range(w.free)
        PROVE w.place[id + 1] \in {Start} \cup {u \in Users : w.index[u] = w.owner[id + 1][1]}
    BY <2>1, <2>2 DEF Placed
  <2>3. \A u \in Users : observers[u] \in DOMAIN live => live[observers[u]].at \in {Start, u}
    BY DEF PlayersInv, MovedByOwner
  <2> QED
    BY <2>2, <2>3 DEF OwnPlaces
<1> QED
  BY <1>1, PlayersInvariant, PTL
=============================================================================
