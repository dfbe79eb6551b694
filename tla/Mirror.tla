------------------------------- MODULE Mirror -------------------------------
(***************************************************************************)
(* What one client knows of the world: the notifications that              *)
(* crates/server region.rs, observer.rs and world.rs send it, and what     *)
(* RootState::apply (crates/client) makes of them, on top of the regions   *)
(* and the queue of module Regions.                                        *)
(*                                                                         *)
(* All notifications of a client go through one channel, in order, and its *)
(* state depends on nothing else: a notification is applied in the step    *)
(* that sends it. The client never sends Request::Exit; the one mirrored   *)
(* here enters once and then stays until it disconnects.                   *)
(***************************************************************************)
EXTENDS Regions

CONSTANT Self    \* the user whose client it is

ASSUME SelfAssumption == Self \in Users

VARIABLES
  updates,    \* Region.dynamic_updates
  mirror,     \* client::World: regions, npcs, pcs and physics
  strays      \* characters the client may lose track of (history): see
              \* Straddles and Announced

mirrorVars == <<updates, mirror, strays>>

-----------------------------------------------------------------------------
(* Characters. A user's character is the user; each region has one NPC,    *)
(* which falls to the ground and never walks (world.rs update_npcs).       *)

Npc(r) == -1 - r
Npcs == {Npc(r) : r \in Region}
Characters == Users \cup Npcs

Exit(id, to) == [kind |-> "exit", id |-> id, other |-> to]
Entered(id, from) == [kind |-> "enter", id |-> id, other |-> from]
Moved(id) == [kind |-> "update", id |-> id, other |-> None]

-----------------------------------------------------------------------------
(* The client.                                                             *)

Lobby == [state |-> "lobby"]
Gone == [state |-> "gone"]

\* Game::new
Game == [state |-> "game", regions |-> <<>>, known |-> {},
         bodies |-> [id \in Characters |-> 0]]

InGame(m) == m.state = "game"

\* An index or an unwrap of RootState::apply that finds nothing.
Panic == [state |-> "panic"]

\* NPCVec::insert and PCVec::insert replace an entry of the same id; the body
\* is new in any case.
AddCharacter(m, id) == [m EXCEPT !.known = @ \cup {id}, !.bodies[id] = @ + 1]

\* remove_by_id(id).unwrap(), remove_body
RemoveCharacter(m, id) ==
  IF id \in m.known THEN [m EXCEPT !.known = @ \ {id}, !.bodies[id] = @ - 1] ELSE Panic

\* ... for all of some characters.
AddAll(m, ids) ==
  [m EXCEPT !.known = @ \cup ids,
            !.bodies = [id \in Characters |-> IF id \in ids THEN @[id] + 1 ELSE @[id]]]

\* DynamicUpdate::Enter, Exit and Update of a character in region r.
ApplyEnter(m, r, up) ==
  LET in == [m EXCEPT !.regions[r] = @ \cup {up.id}] IN
  IF up.other # None /\ up.other \in DOMAIN m.regions THEN in ELSE AddCharacter(in, up.id)

\* Mutant: a character that walks on to a region the client knows is removed.
ApplyExitAlways(m, r, up) == RemoveCharacter([m EXCEPT !.regions[r] = @ \ {up.id}], up.id)

ApplyExit(m, r, up) ==
  LET out == [m EXCEPT !.regions[r] = @ \ {up.id}] IN
  IF up.other # None /\ up.other \in DOMAIN m.regions THEN out ELSE RemoveCharacter(out, up.id)

ApplyUpdate(m, r, up) == IF up.id \in Npcs /\ up.id \notin m.known THEN Panic ELSE m

ApplyOne(m, r, up) ==
  IF m.state = "panic" \/ up.id = Self THEN m
  ELSE CASE up.kind = "enter"  -> ApplyEnter(m, r, up)
         [] up.kind = "exit"   -> ApplyExit(m, r, up)
         [] up.kind = "update" -> ApplyUpdate(m, r, up)

\* Notification::DynamicUpdates
DynamicUpdates(m, r, ups) ==
  IF m.state = "panic" THEN m
  ELSE IF r \notin DOMAIN m.regions THEN Panic
  ELSE FoldLeft(LAMBDA n, up : ApplyOne(n, r, up), m, ups)

\* Notification::StaticSetup: a new region, or a new one in its place.
StaticSetup(m, r) == [m EXCEPT !.regions = With(@, r, {})]

\* Notification::StaticTeardown
StaticTeardown(m, r) ==
  IF r \in DOMAIN m.regions THEN [m EXCEPT !.regions = Without(@, r)] ELSE Panic

\* Notification::DynamicSetup
DynamicSetup(m, r, ids) ==
  IF r \notin DOMAIN m.regions THEN Panic
  ELSE AddAll([m EXCEPT !.regions[r] = @ \cup (ids \ {Self})], ids \ {Self})

\* Notification::DynamicTeardown
DynamicTeardown(m, r) ==
  IF r \notin DOMAIN m.regions \/ ~(m.regions[r] \subseteq m.known) THEN Panic
  ELSE [m EXCEPT !.known = @ \ m.regions[r],
                 !.bodies = [id \in Characters |->
                              IF id \in m.regions[r] THEN @[id] - 1 ELSE @[id]],
                 !.regions[r] = {}]

-----------------------------------------------------------------------------
(* The server.                                                             *)

Tell(ups, r, up) == [ups EXCEPT ![r] = Append(@, up)]

\* Request::Enter: Notification::Enter is the first on the new channel.
MirrorEnter(u) ==
  /\ u = Self => mirror = Lobby
  /\ Enter(u)
  /\ mirror' = IF u = Self THEN Game ELSE mirror
  /\ UNCHANGED <<updates, strays>>

\* Mutant: nobody is told of a character that leaves the game.
MirrorLeaveSilent(u) ==
  /\ Leave(u)
  /\ mirror' = IF u = Self THEN Gone ELSE mirror
  /\ UNCHANGED <<updates, strays>>

\* GlobalObserver::remove tells the region the character is in.
MirrorLeave(u) ==
  /\ Leave(u)
  /\ mirror' = IF u = Self THEN Gone ELSE mirror
  /\ updates' = IF u \in DOMAIN pc /\ RegionOf(pc[u].at) \in DOMAIN regions
                THEN Tell(updates, RegionOf(pc[u].at), Exit(u, None)) ELSE updates
  /\ UNCHANGED strays

MirrorUpdateSelf(u, cell) == UpdateSelf(u, cell) /\ UNCHANGED mirrorVars

\* What update_pcs pushes for a character that moves, to a region it moves in.
Walked(u, r) ==
  LET from == RegionOf(pc[u].at)
      to   == RegionOf(pc[u].target)
  IN CASE from = to             -> Moved(u)
       [] from # to /\ r = from -> Exit(u, to)
       [] from # to /\ r # from -> Entered(u, from)

\* What a region has to tell once update_npcs and update_pcs are through. (The
\* updates of different characters do not depend on each other's order.)
AllMoved ==
  [r \in Region |->
    LET walkers == SetToSeq({u \in Moving : r \in {RegionOf(pc[u].at), RegionOf(pc[u].target)}})
    IN updates[r] \o (IF r \in npcs THEN <<Moved(Npc(r))>> ELSE <<>>)
                  \o [i \in DOMAIN walkers |-> Walked(walkers[i], r)]]

\* The client gets the updates of some regions, one region after the other.
Delivered(ups, order) ==
  IF InGame(mirror) THEN FoldLeft(LAMBDA m, r : DynamicUpdates(m, r, ups[r]), mirror, order)
                    ELSE mirror

\* Mutant: every observer of a region is sent its updates.
FlushAll(ups) ==
  LET to == {r \in Region : LevelOf(Self, r) # "none" /\ ups[r] # <<>>} IN
  /\ updates' = [r \in Region |-> <<>>]
  /\ \E order \in SetToSeqs(to) : mirror' = Delivered(ups, order)

\* RegionManager::flush, Region::flush: in the order of a hash map; all
\* updates are taken, whether someone observes the region in full or not.
Flush(ups) ==
  LET to == {r \in Region : LevelOf(Self, r) = "full" /\ ups[r] # <<>>} IN
  /\ updates' = [r \in Region |-> <<>>]
  /\ \E order \in SetToSeqs(to) : mirror' = Delivered(ups, order)

\* A character walks between a region that the client observes in full and
\* one that it knows without the characters: it sees one half of the walk.
Straddles(u) ==
  LET from == RegionOf(pc[u].at)
      to   == RegionOf(pc[u].target)
  IN /\ InGame(mirror) /\ from # to
     /\ {LevelOf(Self, from), LevelOf(Self, to)} = {"full", "static"}

MirrorTick ==
  /\ TickBegin
  /\ IF panicked' = "no"
     THEN /\ Flush(AllMoved)
          /\ strays' = strays \cup {u \in Moving \ {Self} : Straddles(u)}
     ELSE UNCHANGED mirrorVars

\* What RegionManager::apply sends for an entry.
Notified(e, r) ==
  IF e.user # Self THEN mirror
  ELSE CASE e.change = "SetupStatic"     -> StaticSetup(mirror, r)
         [] e.change = "SetupDynamic"    ->
              DynamicSetup(mirror, r, {Npc(r)} \cup {u \in DOMAIN pc : RegionOf(pc[u].at) = r})
         [] e.change = "SetupPlayer"     -> mirror
         [] e.change = "TeardownDynamic" -> DynamicTeardown(mirror, r)
         [] e.change = "TeardownStatic"  -> StaticTeardown(mirror, r)

\* The heap brought up SetupPlayer before a SetupDynamic of its region (their
\* order is no order when there are teardowns): what the set-up shows is told
\* again at the next flush.
Announced(r) == {up.id : up \in {up \in Range(updates[r]) : up.kind = "enter"}} \ {Self}

MirrorApply ==
  LET e == Head(queue) IN
  /\ Apply
  /\ IF panicked' = "no"
     THEN /\ mirror' = IF InGame(mirror) THEN Notified(e, e.pos) ELSE mirror
          /\ updates' = [r \in Region |->
                           IF r \notin DOMAIN regions' THEN <<>>
                           ELSE IF e.change = "SetupPlayer" /\ r = e.pos
                                THEN Append(updates[r], Entered(e.user, None)) ELSE updates[r]]
     ELSE UNCHANGED <<mirror, updates>>
  /\ strays' = IF InGame(mirror) /\ e.user = Self /\ e.change = "SetupDynamic"
               THEN strays \cup Announced(e.pos) ELSE strays

MirrorTickEnd == TickEnd /\ UNCHANGED mirrorVars

MirrorInit ==
  /\ Init
  /\ updates = [r \in Region |-> <<>>]
  /\ mirror = Lobby
  /\ strays = {}

MirrorServer == MirrorTick \/ MirrorTickEnd \/ MirrorApply

MirrorNext ==
  \/ \E u \in Users : MirrorEnter(u) \/ MirrorLeave(u) \/ \E cell \in Cell : MirrorUpdateSelf(u, cell)
  \/ MirrorServer

allVars == <<vars, mirrorVars>>

MirrorSpec == MirrorInit /\ [][MirrorNext]_allVars

\* The interval of server.rs keeps ticking, and a tick keeps coming to its queue.
MirrorFairSpec == MirrorSpec /\ WF_allVars(MirrorServer)

-----------------------------------------------------------------------------

MirrorTypeOK ==
  /\ \A r \in Region : \A i \in DOMAIN updates[r] :
       updates[r][i].kind \in {"enter", "exit", "update"} /\ updates[r][i].id \in Characters
  /\ mirror.state \in {"lobby", "game", "gone", "panic"}
  /\ InGame(mirror) =>
       /\ DOMAIN mirror.regions \subseteq Region
       /\ \A r \in DOMAIN mirror.regions : mirror.regions[r] \subseteq Characters \ {Self}
       /\ mirror.known \subseteq Characters \ {Self}
       /\ mirror.bodies \in [Characters -> Nat]
  /\ strays \subseteq Users

\* Both ends run, and no changes of this user's levels got mixed up.
Sound ==
  panicked = "no" /\ InGame(mirror) /\ \A r \in Region : <<Self, r>> \notin crossed

\* Who is in region r, for the server, and for the client once it has the
\* updates that wait for the next flush.
Present(r) == {u \in DOMAIN pc \ {Self} : RegionOf(pc[u].at) = r} \cup {Npc(r)}

Learned(ids, up) ==
  CASE up.kind = "enter"  -> ids \cup ({up.id} \ {Self})
    [] up.kind = "exit"   -> ids \ {up.id}
    [] up.kind = "update" -> ids

Told(ids, ups) == FoldLeft(LAMBDA known, up : Learned(known, up), ids, ups)

Shown(r) == Told(mirror.regions[r], updates[r])

\* Variables keep their types; the client has exactly the regions that the server
\* says it observes, and a region observed in full shows the characters that are
\* in it, whoever entered, left, came and went, and however its set-up fell
\* between the ticks (region.rs flush and apply, state.rs apply).
SameWorld ==
  /\ MirrorTypeOK
  /\ Sound =>
       /\ DOMAIN mirror.regions = {r \in Region : LevelOf(Self, r) # "none"}
       /\ \A r \in Region : LevelOf(Self, r) = "full" => Shown(r) = Present(r)

\* A character that the client shows has one body there and is shown once, and
\* no other has any: as long as it does not walk between a region observed in
\* full and one observed without its characters, and is not told twice
\* (state.rs 269 to 400, region.rs Ord for Entry).
OneBodyEach ==
  Sound => \A id \in Characters \ strays :
    LET in == {r \in DOMAIN mirror.regions : id \in mirror.regions[r]} IN
    /\ Cardinality(in) = (IF id \in mirror.known THEN 1 ELSE 0)
    /\ mirror.bodies[id] = Cardinality(in)

\* What the client unwraps is there, with the same exceptions.
ClientGoesOn == mirror.state = "panic" => strays # {} \/ \E r \in Region : <<Self, r>> \in crossed

\* When requests stop, every user comes to observe what its center asks for, and
\* the client to show it (region.rs process, server.rs tick).
Settles ==
  <>[](\/ panicked # "no"
       \/ /\ \A u \in Users, r \in Region :
               <<u, r>> \in crossed \/ LevelOf(u, r) = Level(r, center[u])
          /\ Sound /\ strays = {} =>
               mirror.known = UNION {Present(r) : r \in {r \in Region :
                                                       Level(r, center[Self]) = "full"}})

=============================================================================
