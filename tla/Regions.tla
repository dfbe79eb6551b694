------------------------------ MODULE Regions ------------------------------
(***************************************************************************)
(* Who observes which region of the world: crates/server region.rs and     *)
(* observer.rs, and the part of world.rs and request.rs that drives them.  *)
(*                                                                         *)
(* Entering the game, leaving it and walking out of a region only put      *)
(* changes into a queue, a binary heap ordered by kind and distance. A     *)
(* tick moves the characters, then applies changes until the queue is      *)
(* empty or its time is up; what remains meets the changes that come next. *)
(*                                                                         *)
(* The regions are a row and a position is half a region: distance is the  *)
(* maximum over two axes in the code, and one axis has all its cases.      *)
(***************************************************************************)
EXTENDS Integers, SequencesExt

CONSTANTS
  Users,           \* uuids, ordered
  Size,            \* Configuration.size
  StaticDistance,  \* Configuration.static_distance
  FullDistance,    \* Configuration.full_distance
  Start,           \* where the characters were stored last
  MaxRequests,     \* bound: requests that change the queue
  MaxStep          \* bound: half regions a character moves in one request

ASSUME UsersAssumption == Users \subseteq Nat
ASSUME StartAssumption == Start \subseteq 0 .. 2 * Size - 1
ASSUME DistanceAssumption ==
  /\ Size \in Nat \ {0} /\ MaxRequests \in Nat /\ MaxStep \in Nat
  /\ FullDistance \in Nat /\ StaticDistance \in Nat /\ FullDistance <= StaticDistance

VARIABLES
  center,    \* GlobalObserver.center of the users in game
  pc,        \* transient.pcs: where a character is, and where it goes next
  place,     \* persistent.pcs.position of the user's character
  queue,     \* RegionManager.queue, as BinaryHeap lays it out
  regions,   \* RegionManager.regions
  npcs,      \* regions whose NPCs have bodies (transient.npcs)
  ticking,   \* how far the running tick has come
  panicked,  \* the unwrap that ended the service task
  requests,  \* requests so far (history)
  crossed    \* pairs of user and region whose changes got mixed up (history)

vars == <<center, pc, place, queue, regions, npcs, ticking, panicked, requests, crossed>>

-----------------------------------------------------------------------------
(* Places. *)

None == -1
Region == 0 .. Size - 1
Cell == 0 .. 2 * Size - 1

RegionOf(cell) == cell \div 2
NearRegion(cell, r) == cell \in 2 * r - 1 .. 2 * r + 2
Distance(r, s) == IF r < s THEN s - r ELSE r - s

\* RegionManager::level
LevelAt(distance) ==
  IF distance <= FullDistance THEN "full"
  ELSE IF distance <= StaticDistance THEN "static" ELSE "none"

\* ... of a user with that center, of no user when it is None.
Level(r, c) == IF c = None THEN "none" ELSE LevelAt(Distance(r, c))

\* Mutant: the end of the range is taken for an inclusive one.
AroundShort(c) ==
  LET from == IF c < StaticDistance THEN 0 ELSE c - StaticDistance
      to   == IF c + StaticDistance < Size THEN c + StaticDistance - 1 ELSE Size - 1
  IN [i \in 1 .. to - from + 1 |-> from + i - 1]

\* RegionManager::iterator
Around(c) ==
  LET from == IF c < StaticDistance THEN 0 ELSE c - StaticDistance
      to   == IF c + StaticDistance < Size THEN c + StaticDistance ELSE Size - 1
  IN [i \in 1 .. to - from + 1 |-> from + i - 1]

\* HashMap::insert and remove
With(f, k, v) == [x \in DOMAIN f \cup {k} |-> IF x = k THEN v ELSE f[x]]
Without(f, k) == [x \in DOMAIN f \ {k} |-> f[x]]

-----------------------------------------------------------------------------
(* The queue. *)

Setups == {"SetupStatic", "SetupDynamic", "SetupPlayer"}
Teardowns == {"TeardownDynamic", "TeardownStatic"}

\* Mutant: the order of the enum's teardowns is taken for that of their work.
RankStaticFirst(change) ==
  CASE change = "SetupStatic" -> 5 [] change = "SetupDynamic" -> 4
    [] change = "SetupPlayer" -> 3 [] change = "TeardownStatic" -> 2
    [] change = "TeardownDynamic" -> 1

Rank(change) ==
  CASE change = "SetupStatic" -> 5 [] change = "SetupDynamic" -> 4
    [] change = "SetupPlayer" -> 3 [] change = "TeardownDynamic" -> 2
    [] change = "TeardownStatic" -> 1

\* The keys of entries of one kind, as in the comparison of tuples.
KeyLe(k, l) ==
  \/ k[1] < l[1]
  \/ k[1] = l[1] /\ k[2] < l[2]
  \/ k[1] = l[1] /\ k[2] = l[2] /\ k[3] <= l[3]

Key(e) == <<IF e.change \in Setups THEN -e.distance ELSE e.distance, e.pos, e.user>>

\* Ord for Entry, as "<=": SetupDynamic and TeardownStatic are each less than
\* the other.
Le(e, f) ==
  IF e.change = f.change THEN KeyLe(Key(e), Key(f))
  ELSE Rank(e.change) < Rank(f.change)
       \/ (e.change = "SetupDynamic" /\ f.change = "TeardownStatic")

\* A heap is a sequence: the children of entry i are the entries 2i and 2i + 1.
Ancestors[i \in Nat] == IF i = 0 THEN {} ELSE {i} \cup Ancestors[i \div 2]

\* Entry i moves up past the ancestors it is greater than.
SiftUp(h, i) ==
  LET path == Ancestors[i]
      top  == CHOOSE p \in path :
                /\ p = 1 \/ Le(h[i], h[p \div 2])
                /\ \A q \in path : q > p => ~Le(h[i], h[q \div 2])
  IN [j \in DOMAIN h |-> IF j = top THEN h[i]
                         ELSE IF j \in path /\ j > top THEN h[j \div 2] ELSE h[j]]

\* The first entry moves down to the bottom, along the greater children.
GreaterChild(h, i) == IF 2 * i < Len(h) /\ Le(h[2 * i], h[2 * i + 1]) THEN 2 * i + 1 ELSE 2 * i

Bottom(h) ==
  CHOOSE i \in DOMAIN h :
    2 * i > Len(h) /\ \A p \in Ancestors[i] \ {1} : p = GreaterChild(h, p \div 2)

SiftDown(h, bottom) ==
  [j \in DOMAIN h |-> IF j = bottom THEN h[1]
                      ELSE IF j \in Ancestors[bottom] THEN h[GreaterChild(h, j)] ELSE h[j]]

\* BinaryHeap::push and pop: the last entry replaces the first, goes down to
\* the bottom and up again. (The sets of one element name the steps.)
Push(h, e) == SiftUp(Append(h, e), Len(h) + 1)

Pop ==
  IF Len(queue) = 1 THEN queue' = <<>>
  ELSE \E rest \in {<<Last(queue)>> \o SubSeq(queue, 2, Len(queue) - 1)} :
       \E bottom \in {Bottom(rest)} :
       \E sunk \in {SiftDown(rest, bottom)} : queue' = SiftUp(sunk, bottom)

PushAll(h, es) ==
  LET after[n \in 0 .. Len(es)] == IF n = 0 THEN h ELSE Push(after[n - 1], es[n])
  IN after[Len(es)]

Entry(pos, c, user, change) ==
  [pos |-> pos, distance |-> Distance(pos, c), user |-> user, change |-> change]

\* RegionManager::update: the changes from one level to another, in order.
Update(old, new) ==
  (IF old = "none" /\ new # "none" THEN <<"SetupStatic">> ELSE <<>>) \o
  (IF old # "full" /\ new = "full" THEN <<"SetupDynamic">> ELSE <<>>) \o
  (IF old = "full" /\ new # "full" THEN <<"TeardownDynamic">> ELSE <<>>) \o
  (IF old # "none" /\ new = "none" THEN <<"TeardownStatic">> ELSE <<>>)

\* The entries for the regions rs but those to skip, of a user whose center
\* moves from "from" to "to"; their distance is to "about".
Entries(u, rs, skip, from, to, about) ==
  FlattenSeq([i \in DOMAIN rs |->
    LET changes == IF rs[i] \in skip THEN <<>> ELSE Update(Level(rs[i], from), Level(rs[i], to))
    IN [j \in DOMAIN changes |-> Entry(rs[i], about, u, changes[j])]])

\* Pairs of user and region whose queued changes the heap may bring up in an
\* order they were not meant to have: a setup and a teardown, or both teardowns
\* where SetupDynamic and TeardownStatic may have met. An entry that got above
\* one of a higher rank stays there when the last SetupDynamic is gone.
Queued(q, change) == {<<e.user, e.pos>> : e \in {e \in Range(q) : e.change = change}}

Ranked(q) == \A i \in 2 .. Len(q) : Rank(q[i].change) <= Rank(q[i \div 2].change)

Crossing(q) ==
  ((Queued(q, "SetupStatic") \cup Queued(q, "SetupDynamic"))
    \cap (Queued(q, "TeardownDynamic") \cup Queued(q, "TeardownStatic")))
  \cup (Queued(q, "SetupPlayer") \cap Queued(q, "TeardownStatic"))
  \cup (IF Queued(q, "SetupDynamic") = {} /\ Ranked(q) THEN {}
        ELSE Queued(q, "TeardownDynamic") \cap Queued(q, "TeardownStatic"))

Enqueue(es) ==
  /\ queue' = PushAll(queue, es)
  /\ crossed' = crossed \cup Crossing(queue')

-----------------------------------------------------------------------------
(* The requests. *)

Ready == panicked = "no" /\ ticking = "no"

Request ==
  /\ Ready
  /\ requests < MaxRequests
  /\ requests' = requests + 1
  /\ UNCHANGED <<regions, npcs, ticking>>

\* Request::Enter, GlobalObserver::new
Enter(u) ==
  LET c == RegionOf(place[u]) IN
  /\ center[u] = None
  /\ Request
  /\ center' = [center EXCEPT ![u] = c]
  /\ Enqueue(Append(Entries(u, Around(c), {}, None, c, c), Entry(c, c, u, "SetupPlayer")))
  /\ UNCHANGED <<pc, place, panicked>>

\* Request::Exit and Action::Disconnected, GlobalObserver::remove
Leave(u) ==
  /\ center[u] # None
  /\ Request
  /\ center' = [center EXCEPT ![u] = None]
  /\ IF u \notin DOMAIN pc
     THEN panicked' = "remove" /\ UNCHANGED <<pc, place, queue, crossed>>
     ELSE /\ place' = [place EXCEPT ![u] = pc[u].at]
          /\ pc' = Without(pc, u)
          /\ Enqueue(Entries(u, Around(center[u]), {}, center[u], None, center[u]))
          /\ UNCHANGED panicked

\* Mutant: the regions that only the old center sees are forgotten.
UpdateSelfForward(u, cell) ==
  LET old == center[u]
      new == RegionOf(cell)
      target == IF u \in DOMAIN pc THEN pc[u].target ELSE place[u]
  IN /\ old # None
     /\ Distance(cell, target) \in 1 .. MaxStep
     /\ Request
     /\ pc' = IF u \in DOMAIN pc THEN [pc EXCEPT ![u].target = cell] ELSE pc
     /\ IF NearRegion(cell, old) THEN UNCHANGED <<center, queue, crossed>>
        ELSE /\ center' = [center EXCEPT ![u] = new]
             /\ Enqueue(Entries(u, Around(new), {}, old, new, new))
     /\ UNCHANGED <<place, panicked>>

\* Request::UpdateSelf, GlobalObserver::update
UpdateSelf(u, cell) ==
  LET old == center[u]
      new == RegionOf(cell)
      target == IF u \in DOMAIN pc THEN pc[u].target ELSE place[u]
  IN /\ old # None
     /\ Distance(cell, target) \in 1 .. MaxStep
     /\ Request
     /\ pc' = IF u \in DOMAIN pc THEN [pc EXCEPT ![u].target = cell] ELSE pc
     /\ IF NearRegion(cell, old) THEN UNCHANGED <<center, queue, crossed>>
        ELSE /\ center' = [center EXCEPT ![u] = new]
             /\ Enqueue(Entries(u, Around(new), {}, old, new, new) \o
                        Entries(u, Around(old), {r \in Region : Level(r, new) # "none"},
                                old, new, old))
     /\ UNCHANGED <<place, panicked>>

-----------------------------------------------------------------------------
(* The tick. *)

\* ServerWorld::update_pcs: a character that moves needs the region it is in
\* and the one it comes to.
Moving == {u \in DOMAIN pc : pc[u].at # pc[u].target}

TickBegin ==
  /\ Ready
  /\ IF \A u \in Moving : {RegionOf(pc[u].at), RegionOf(pc[u].target)} \subseteq DOMAIN regions
     THEN /\ pc' = [u \in DOMAIN pc |-> [pc[u] EXCEPT !.at = pc[u].target]]
          /\ UNCHANGED panicked
     ELSE panicked' = "update_pcs" /\ UNCHANGED pc
  /\ ticking' = "first"
  /\ UNCHANGED <<center, place, queue, regions, npcs, requests, crossed>>

\* Mutant: what the time did not suffice for is dropped.
TickEndDropping ==
  /\ panicked = "no"
  /\ ticking = "more" \/ (ticking = "first" /\ queue = <<>>)
  /\ ticking' = "no"
  /\ queue' = <<>>
  /\ UNCHANGED <<center, pc, place, regions, npcs, panicked, requests, crossed>>

\* RegionManager::process ends: nothing is left, or the time is up after the
\* first change.
TickEnd ==
  /\ panicked = "no"
  /\ ticking = "more" \/ (ticking = "first" /\ queue = <<>>)
  /\ ticking' = "no"
  /\ UNCHANGED <<center, pc, place, queue, regions, npcs, panicked, requests, crossed>>

NoRegion == [level |-> <<>>, full |-> 0]

\* RegionManager::apply, one operator per change of user u in region r; what
\* it unwraps is its guard.
SetupStatic(u, r) ==
  LET region == IF r \in DOMAIN regions THEN regions[r] ELSE NoRegion IN
  /\ regions' = With(regions, r, [region EXCEPT !.level = With(@, u, "static")])
  /\ UNCHANGED <<pc, npcs>>

\* Mutant: full observers are a flag.
SetupDynamicFlag(u, r) ==
  /\ regions' = [regions EXCEPT ![r] = [level |-> With(@.level, u, "full"), full |-> 1]]
  /\ npcs' = npcs \cup {r}
  /\ UNCHANGED pc

SetupDynamic(u, r) ==
  /\ regions' = [regions EXCEPT ![r] = [level |-> With(@.level, u, "full"), full |-> @.full + 1]]
  /\ npcs' = npcs \cup {r}
  /\ UNCHANGED pc

SetupPlayer(u, r) ==
  /\ pc' = With(pc, u, [at |-> place[u], target |-> place[u]])
  /\ UNCHANGED <<regions, npcs>>

TeardownDynamic(u, r) ==
  /\ regions' = [regions EXCEPT ![r] = [level |-> With(@.level, u, "static"), full |-> @.full - 1]]
  /\ npcs' = IF regions[r].full = 1 THEN npcs \ {r} ELSE npcs
  /\ UNCHANGED pc

TeardownStatic(u, r) ==
  /\ regions' = IF DOMAIN regions[r].level = {u} THEN Without(regions, r)
                ELSE [regions EXCEPT ![r].level = Without(@, u)]
  /\ UNCHANGED <<pc, npcs>>

Finds(e) ==
  \/ e.change = "SetupStatic"
  \/ e.change = "SetupPlayer" /\ e.pos \in DOMAIN regions
  \/ /\ e.change \in {"SetupDynamic", "TeardownDynamic", "TeardownStatic"}
     /\ e.pos \in DOMAIN regions /\ e.user \in DOMAIN regions[e.pos].level
     /\ e.change = "TeardownDynamic" => regions[e.pos].full > 0

Change(e) ==
  CASE e.change = "SetupStatic"     -> SetupStatic(e.user, e.pos)
    [] e.change = "SetupDynamic"    -> SetupDynamic(e.user, e.pos)
    [] e.change = "SetupPlayer"     -> SetupPlayer(e.user, e.pos)
    [] e.change = "TeardownDynamic" -> TeardownDynamic(e.user, e.pos)
    [] e.change = "TeardownStatic"  -> TeardownStatic(e.user, e.pos)

\* RegionManager::process takes the first entry off the heap.
Apply ==
  LET e == Head(queue) IN
  /\ panicked = "no"
  /\ ticking \in {"first", "more"}
  /\ queue # <<>>
  /\ Pop
  /\ ticking' = "more"
  /\ IF Finds(e) THEN Change(e) /\ UNCHANGED panicked
                 ELSE panicked' = "apply" /\ UNCHANGED <<regions, npcs, pc>>
  /\ UNCHANGED <<center, place, requests, crossed>>

Init ==
  /\ center = [u \in Users |-> None]
  /\ pc = <<>>
  /\ place \in [Users -> Start]
  /\ queue = <<>>
  /\ regions = <<>>
  /\ npcs = {}
  /\ ticking = "no"
  /\ panicked = "no"
  /\ requests = 0
  /\ crossed = {}

Tick == TickBegin \/ TickEnd \/ Apply

Next ==
  \/ \E u \in Users : Enter(u) \/ Leave(u) \/ \E cell \in Cell : UpdateSelf(u, cell)
  \/ Tick

Spec == Init /\ [][Next]_vars

-----------------------------------------------------------------------------

LevelOf(u, r) ==
  IF r \in DOMAIN regions /\ u \in DOMAIN regions[r].level THEN regions[r].level[u] ELSE "none"

TypeOK ==
  /\ center \in [Users -> {None} \cup Region]
  /\ DOMAIN pc \subseteq Users
  /\ \A u \in DOMAIN pc : {pc[u].at, pc[u].target} \subseteq Cell
  /\ place \in [Users -> Cell]
  /\ DOMAIN regions \subseteq Region
  /\ \A r \in DOMAIN regions :
       /\ DOMAIN regions[r].level \subseteq Users
       /\ Range(regions[r].level) \subseteq {"static", "full"}
       /\ regions[r].full \in Nat
  /\ \A i \in DOMAIN queue : queue[i].user \in Users /\ queue[i].pos \in Region
  /\ npcs \subseteq Region
  /\ ticking \in {"no", "first", "more"}
  /\ panicked \in {"no", "remove", "apply", "update_pcs"}
  /\ requests \in 0 .. MaxRequests
  /\ crossed \subseteq Users \X Region

\* The changes of a user that are queued for a region lead from the level the
\* user has there to the level its center asks for: whatever order the heap
\* brings them up in and wherever the time of a tick ran out. The exceptions
\* are the pairs named by Crossing (region.rs update, process and Ord for
\* Entry).
Pending(u, r) == {e.change : e \in {e \in Range(queue) :
                    e.user = u /\ e.pos = r /\ e.change # "SetupPlayer"}}

LeadsToCenter ==
  panicked = "no" => \A u \in Users, r \in Region : <<u, r>> \notin crossed =>
    Pending(u, r) = Range(Update(LevelOf(u, r), Level(r, center[u])))

\* Variables keep their types; a region is there exactly while someone observes
\* it, counts its full observers, and has the bodies of its NPCs while there are
\* any (region.rs apply).
Counted ==
  /\ TypeOK
  /\ panicked = "no" => \A r \in Region : (\A u \in Users : <<u, r>> \notin crossed) =>
       LET full == {u \in Users : LevelOf(u, r) = "full"} IN
       /\ r \in DOMAIN regions <=> \E u \in Users : LevelOf(u, r) # "none"
       /\ r \in DOMAIN regions => regions[r].full = Cardinality(full)
       /\ r \in npcs <=> full # {}

\* A change that finds nothing to apply to is one of a pair that met.
AppliedWhereFound == panicked = "apply" => crossed # {}

\* A character stands in a region that is there, however late changes come and
\* whoever else leaves it; and the one it is to go to is there or has its setup
\* queued.  So update_pcs fails only for a character that is to go to a region before
\* a tick has set it up (world.rs:244, 255), or after changes have crossed.
MovesWhereFound ==
  panicked \in {"no", "update_pcs"} => \A u \in DOMAIN pc :
    LET at == RegionOf(pc[u].at)
        to == RegionOf(pc[u].target)
    IN /\ at \in DOMAIN regions \/ <<u, at>> \in crossed
       /\ to \in DOMAIN regions \/ <<u, to>> \in crossed \/ "SetupStatic" \in Pending(u, to)

\* region.rs:320 unwraps the observer a change is for:
\* region.observers.get_mut(&uuid).unwrap().
ObserverFound == panicked # "apply"

=============================================================================
