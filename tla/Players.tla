------------------------------ MODULE Players ------------------------------
(***************************************************************************)
(* Who plays which character: the players and characters the world file    *)
(* records (crates/persistent, with the vectors that crates/derive         *)
(* generates), the users in game and their bodies (crates/server and       *)
(* crates/transient).                                                      *)
(*                                                                         *)
(* The service handles one action at a time; each session sends Connected, *)
(* then requests in an order of its own, then Disconnected. A body joins   *)
(* the world when the tick comes to it (SetupPlayer of module Regions).    *)
(***************************************************************************)
EXTENDS Integers, SequencesExt

CONSTANTS
  Users,      \* uuids
  Sessions,   \* connections there may be at once
  UserOf,     \* the user that a session authenticates as
  Slots,      \* character slots of a player
  MaxPcs,     \* bound: characters in the file
  MaxOpens    \* bound: times the server is started again

ASSUME UserOfAssumption == UserOf \in [Sessions -> Users]
ASSUME OpensAssumption == MaxOpens \in Nat

VARIABLES
  world,      \* persistent::World
  saved,      \* what opening the file would return
  session,    \* which sessions there are
  observers,  \* ServerWorld.observers: the character a user is in game with
  waiting,    \* SetupPlayer entries of the region queue
  live,       \* transient.pcs, by character
  bodies,     \* physics bodies of characters
  panicked,   \* the assertion that ended the service task
  opens,      \* times the server was started again (history)
  orphaned    \* a character in game was deleted (history)

gameVars == <<observers, waiting, live, bodies>>
vars == <<world, saved, session, gameVars, panicked, opens, orphaned>>

-----------------------------------------------------------------------------

None == -1           \* u32::MAX in a slot, no entry in a map
Start == "start"     \* where a character is created

EmptySlots == [s \in Slots |-> None]

EmptyWorld ==
  [index |-> [u \in Users |-> None],   \* player_index
   slots |-> <<>>,                     \* players.slots
   used  |-> <<>>, free |-> <<>>,      \* of pcs, as the next two
   owner |-> <<>>, place |-> <<>>]     \* the player and slot; who moved it where it is

Ids(w) == 0 .. Len(w.used) - 1
SlotAt(w, u, s) == w.slots[w.index[u] + 1][s]

\* Mutant: a column keeps what the index held before.
AddStale(w, owner) ==
  IF w.free = <<>>
  THEN [id |-> Len(w.used),
        w  |-> [w EXCEPT !.used = Append(@, 1), !.owner = Append(@, owner),
                         !.place = Append(@, Start)]]
  ELSE LET id == Last(w.free) IN
       [id |-> id, w |-> [w EXCEPT !.free = Front(@), !.owner[id + 1] = owner]]

\* DbVec add: an index given back is taken first. The flag in "used" is set
\* only for a new one.
Add(w, owner) ==
  IF w.free = <<>>
  THEN [id |-> Len(w.used),
        w  |-> [w EXCEPT !.used = Append(@, 1), !.owner = Append(@, owner),
                         !.place = Append(@, Start)]]
  ELSE LET id == Last(w.free) IN
       [id |-> id,
        w  |-> [w EXCEPT !.free = Front(@), !.owner[id + 1] = owner, !.place[id + 1] = Start]]

\* DbVec free, behind its assertion.
CanFree(w, id) == w.used[id + 1] = 1

Free(w, id) == [w EXCEPT !.used[id + 1] = 0, !.free = Append(@, id)]

Running == panicked = "no"
Open(c) == Running /\ session[c] = "open"

-----------------------------------------------------------------------------

\* Action::Connected, World::initialize_player
Connected(c) ==
  /\ Running
  /\ session[c] = "none"
  /\ session' = [session EXCEPT ![c] = "open"]
  /\ world' = IF world.index[UserOf[c]] # None THEN world
              ELSE [world EXCEPT !.index[UserOf[c]] = Len(world.slots),
                                 !.slots = Append(@, EmptySlots)]
  /\ UNCHANGED <<saved, gameVars, panicked, opens, orphaned>>

\* World::spawn_pc, for a slot that is empty.
SpawnPc(w, u, s) ==
  LET added == Add(w, <<w.index[u], s>>)
  IN [added.w EXCEPT !.slots[w.index[u] + 1][s] = added.id]

\* Mutant: World::spawn_pc without the test that the slot is empty.
CreateAnyway(c, s) ==
  /\ Open(c)
  /\ world.free # <<>> \/ Len(world.used) < MaxPcs
  /\ world' = SpawnPc(world, UserOf[c], s)
  /\ UNCHANGED <<saved, session, gameVars, panicked, opens, orphaned>>

\* Request::Create. A bound slot is an error and closes the connection, which
\* changes nothing here.
Create(c, s) ==
  /\ Open(c)
  /\ SlotAt(world, UserOf[c], s) = None
  /\ world.free # <<>> \/ Len(world.used) < MaxPcs
  /\ world' = SpawnPc(world, UserOf[c], s)
  /\ UNCHANGED <<saved, session, gameVars, panicked, opens, orphaned>>

\* Request::Delete, World::delete_pc: the slot is emptied before the
\* character is freed. Whether it is in game is not asked.
Delete(c, s) ==
  LET u == UserOf[c]
      id == SlotAt(world, u, s)
      emptied == [world EXCEPT !.slots[world.index[u] + 1][s] = None]
  IN /\ Open(c)
     /\ id # None
     /\ IF CanFree(world, id)
        THEN world' = Free(emptied, id) /\ UNCHANGED panicked
        ELSE world' = emptied /\ panicked' = "free"
     /\ orphaned' = (orphaned \/ observers[u] = id)
     /\ UNCHANGED <<saved, session, gameVars, opens>>

\* physics::World::add_body: a handle no other body has.
NewBody == CHOOSE h \in 1 .. Cardinality(bodies) + 1 : h \notin bodies

\* Request::Enter, GlobalObserver::new
Enter(c, s) ==
  LET u == UserOf[c]
      id == SlotAt(world, u, s)
  IN /\ Open(c)
     /\ observers[u] = None
     /\ id # None
     /\ observers' = [observers EXCEPT ![u] = id]
     /\ bodies' = bodies \cup {NewBody}
     /\ waiting' = waiting \cup
          {[user |-> u, id |-> id, handle |-> NewBody, place |-> world.place[id + 1]]}
     /\ UNCHANGED <<world, saved, session, live, panicked, opens, orphaned>>

\* ObserverChange::SetupPlayer, when a tick comes to the entry: PCVec::insert.
SetupPlayer(e) ==
  /\ Running
  /\ e \in waiting
  /\ waiting' = waiting \ {e}
  /\ live' = [id \in DOMAIN live \cup {e.id} |->
               IF id = e.id THEN [handle |-> e.handle, at |-> e.place, target |-> e.place]
               ELSE live[id]]
  /\ UNCHANGED <<world, saved, session, observers, bodies, panicked, opens, orphaned>>

\* Request::UpdateSelf. What it does to the regions is in module Regions.
UpdateSelf(c) ==
  LET u == UserOf[c] IN
  /\ Open(c)
  /\ observers[u] \in DOMAIN live
  /\ live' = [live EXCEPT ![observers[u]].target = u]
  /\ UNCHANGED <<world, saved, session, observers, waiting, bodies, panicked, opens, orphaned>>

\* ServerWorld::update_pcs
UpdatePcs ==
  /\ Running
  /\ live' = [id \in DOMAIN live |-> [live[id] EXCEPT !.at = live[id].target]]
  /\ UNCHANGED <<world, saved, session, observers, waiting, bodies, panicked, opens, orphaned>>

\* Mutant: the position is stored, the body stays.
LeaveGameBodyless(u) ==
  LET id == observers[u] IN
  /\ observers' = [observers EXCEPT ![u] = None]
  /\ IF id \in DOMAIN live
     THEN /\ live' = [i \in DOMAIN live \ {id} |-> live[i]]
          /\ world' = [world EXCEPT !.place[id + 1] = live[id].at]
          /\ UNCHANGED <<bodies, panicked>>
     ELSE panicked' = "remove" /\ UNCHANGED <<live, world, bodies>>

\* GlobalObserver::remove, after the user was taken out of "observers"; it
\* unwraps what PCVec::remove_by_id returns.
LeaveGame(u) ==
  LET id == observers[u] IN
  /\ observers' = [observers EXCEPT ![u] = None]
  /\ IF id \in DOMAIN live
     THEN /\ live' = [i \in DOMAIN live \ {id} |-> live[i]]
          /\ world' = [world EXCEPT !.place[id + 1] = live[id].at]
          /\ bodies' = bodies \ {live[id].handle}
          /\ UNCHANGED panicked
     ELSE panicked' = "remove" /\ UNCHANGED <<live, world, bodies>>

\* Request::Exit
Exit(c) ==
  /\ Open(c)
  /\ observers[UserOf[c]] # None
  /\ LeaveGame(UserOf[c])
  /\ UNCHANGED <<saved, session, waiting, opens, orphaned>>

\* Action::Disconnected: of the session, whichever session entered.
Disconnected(c) ==
  /\ Open(c)
  /\ session' = [session EXCEPT ![c] = "none"]
  /\ IF observers[UserOf[c]] # None THEN LeaveGame(UserOf[c])
     ELSE UNCHANGED <<observers, live, world, bodies, panicked>>
  /\ UNCHANGED <<saved, waiting, opens, orphaned>>

\* The server is started again and opens the file.
Restart(w) ==
  /\ opens < MaxOpens
  /\ opens' = opens + 1
  /\ saved' = w
  /\ world' = w
  /\ session' = [c \in Sessions |-> "none"]
  /\ observers' = [u \in Users |-> None]
  /\ waiting' = {}
  /\ live' = <<>>
  /\ bodies' = {}
  /\ panicked' = "no"
  /\ UNCHANGED orphaned

\* Action::Stop: the loop ends and a snapshot is taken, with everyone in game.
Stop == Running /\ Restart(world)

\* The process is killed, or the service task has panicked.
Kill == Restart(saved)

Init ==
  /\ world = EmptyWorld
  /\ saved = EmptyWorld
  /\ session = [c \in Sessions |-> "none"]
  /\ observers = [u \in Users |-> None]
  /\ waiting = {}
  /\ live = <<>>
  /\ bodies = {}
  /\ panicked = "no"
  /\ opens = 0
  /\ orphaned = FALSE

Next ==
  \/ \E c \in Sessions :
       \/ Connected(c) \/ UpdateSelf(c) \/ Exit(c) \/ Disconnected(c)
       \/ \E s \in Slots : Create(c, s) \/ Delete(c, s) \/ Enter(c, s)
  \/ \E e \in waiting : SetupPlayer(e)
  \/ UpdatePcs
  \/ Stop
  \/ Kill

Spec == Init /\ [][Next]_vars

-----------------------------------------------------------------------------

IsWorld(w) ==
  /\ w.index \in [Users -> {None} \cup 0 .. Len(w.slots) - 1]
  /\ w.slots \in Seq([Slots -> {None} \cup Ids(w)])
  /\ w.used \in Seq({0, 1}) /\ w.free \in Seq(Ids(w))
  /\ w.owner \in Seq((0 .. Len(w.slots) - 1) \X Slots) /\ Len(w.owner) = Len(w.used)
  /\ w.place \in Seq(Users \cup {Start}) /\ Len(w.place) = Len(w.used)

TypeOK ==
  /\ IsWorld(world) /\ IsWorld(saved)
  /\ session \in [Sessions -> {"none", "open"}]
  /\ observers \in [Users -> {None} \cup Ids(world)]
  /\ \A e \in waiting : e.user \in Users /\ e.id \in Ids(world) /\ e.handle \in bodies
  /\ \A id \in DOMAIN live : id \in Ids(world) /\ {live[id].at, live[id].target} \subseteq Users \cup {Start}
  /\ bodies \subseteq Nat
  /\ panicked \in {"no", "remove", "free"}
  /\ opens \in 0 .. MaxOpens
  /\ orphaned \in BOOLEAN

Bound(w, id) == {q \in (1 .. Len(w.slots)) \X Slots : w.slots[q[1]][q[2]] = id}

Partitioned(w) ==
  /\ \A id \in Ids(w) :
       IF id \in Range(w.free) THEN Bound(w, id) = {}
       ELSE Bound(w, id) = {<<w.owner[id + 1][1] + 1, w.owner[id + 1][2]>>}
  /\ IsInjective(w.free)

\* No two users are the same player, and every player is somebody's.
OnePlayer(w) ==
  /\ \A u, v \in Users : w.index[u] # None /\ w.index[u] = w.index[v] => u = v
  /\ {w.index[u] : u \in Users} \ {None} = 0 .. Len(w.slots) - 1

\* Variables keep their types; every character is bound to one slot, the one its
\* columns name, or waits to be used again, and never both; and a user is one
\* player in all its sessions: for the world in memory and the one in the file,
\* whatever was created, deleted and restored (world.rs, db_vec.rs).
CharactersAccounted ==
  /\ TypeOK
  /\ \A w \in {world, saved} : OnePlayer(w) /\ (Running => Partitioned(w))

\* As long as nobody deletes a character in game, users in game have different
\* characters of their own, each with one body, waiting or live, and nobody
\* else has a body (observer.rs new and remove, region.rs SetupPlayer).
OneBody ==
  Running /\ ~orphaned =>
    /\ \A u \in Users : observers[u] # None =>
         /\ world.owner[observers[u] + 1][1] = world.index[u]
         /\ observers[u] \notin Range(world.free)
    /\ {e.id : e \in waiting} \cap DOMAIN live = {}
    /\ {e.id : e \in waiting} \cup DOMAIN live = {observers[u] : u \in Users} \ {None}
    /\ bodies = {e.handle : e \in waiting} \cup {live[id].handle : id \in DOMAIN live}
    /\ Cardinality(bodies) = Cardinality({u \in Users : observers[u] # None})

\* ... and where a character stands was decided by its own player, in game, in
\* memory and in the file (observer.rs remove, request.rs UpdateSelf).
OwnPlaces ==
  Running /\ ~orphaned =>
    /\ \A w \in {world, saved} : \A id \in Ids(w) : id \notin Range(w.free) =>
         w.place[id + 1] \in {Start} \cup {u \in Users : w.index[u] = w.owner[id + 1][1]}
    /\ \A u \in Users : observers[u] \in DOMAIN live => live[observers[u]].at \in {Start, u}

\* observer.rs:120 unwraps the body of a user that leaves the game:
\* transient.pcs.remove_by_id(self.id).unwrap().
BodyFound == panicked # "remove"

=============================================================================
