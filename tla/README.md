# A verification of WoSim

WoSim is a networked world simulation in Rust: a server keeps a persistent
world in a database file of its own making, sessions send it requests, and
clients mirror the part of the world around their character. This directory
holds TLA+ models of that program, TLC runs that check them on small instances
and proofs that TLAPS checks for every size. `PROJECT.json` says which lines
each definition stands for, which properties each run checks, and which
hazards of the code they are aimed at.

    tlc -config MCSnapshots.cfg MCSnapshots.tla      # a run
    tlapm SnapshotsProofs.tla                        # the proofs of a module

Paths below are relative to `src/crates/`.

## 1. Inventory

### Components

| Component | State | Operations | Talks to |
|---|---|---|---|
| `database` raw: `raw.rs`, `header.rs`, `allocator.rs`, `lock.rs`, `page.rs`, `mmap.rs` | mapped file; header page with two snapshot slots; version; allocator state (two free lists, last page); bit per page "writable" | create, open, snapshot; allocate, deallocate, reallocate; page_mut (copy-on-write) | synchronizer, free lists |
| `database` free lists: `free_list.rs` | a tree of pages per list, `front` and `back` | shift_front, pop_back, prepend, append | allocator, in both directions: storing an entry allocates |
| `database` synchronizer: `sync.rs` | a barrier of two, a counter, a thread | sync, drop | raw database |
| `database` containers: `vec.rs`, `cursor.rs`, `file.rs`, `mapping.rs`, `tree/` | page trees and B-trees, guards with a cached lookup | push, set, resize; get, insert, remove; read, write | lock |
| `derive` | generated vectors of structures (`DbVec` on database vectors, `Vec` in memory) | add, free, write; insert, remove_by_id | persistent, transient |
| `persistent` | players, slots, player and non-player characters, regions, heights | initialize_player, spawn_pc, delete_pc, spawn_npc | database; server |
| `transient`, `physics` | bodies and interpolated transforms of what is near a player | insert, remove; step | server, client |
| `server` requests: `request.rs`, `observer.rs` | users in game with their center | Create, Delete, Enter, Exit, UpdateSelf | world, regions |
| `server` regions: `region.rs` | observed regions, observers with a level, a priority queue of changes | enqueue, update, process, apply, flush | observers, transient world |
| `server` world and loop: `world.rs`, `service.rs` | tick counter, everything above | tick; Connected, Disconnected, Request, Stop | all of the above, one action at a time |
| `server` sessions: `server.rs` | one task per connection, the interval that ticks | start, stop, session | network; service loop, through a bounded channel |
| `network`, `protocol` | connections, streams and datagrams | send, send_all, receive tasks | sessions, client |
| `client` state: `root/`, `session/`, `game/`, `terrain/` | application state machine; mirror of regions and characters; slots of terrain buffers | notifications, actions, frames | network, rendering |
| `client` rendering, `client-gpu`, `client-shader`, `gpu-util`, `vulkan`, `headless` | GPU objects | record and submit frames | driver |
| `generator` | a generation in steps with a control | run, pause, unpause, cancel | database, GPU |
| `util` | bit arithmetic, handle allocation, interpolation buffer | insert, get | client, server |

### What is hard about them

* *Crashes.* The file is only consistent at snapshots. A process may be killed
  at any store; the header has two slots so that one is always complete, and
  pages of the last two snapshots must not be written or handed out.
* *Self-reference.* The free lists live in pages that the allocator they serve
  hands out; storing a released page may release another one.
* *Threads.* The synchronization thread meets the program at a barrier, tells a
  sync from a drop by a counter, and is joined by drop.
* *Delay.* Requests only queue changes of what a user observes; ticks apply
  them in an order of their own until their time is up. Between a request and
  its effect there are other requests, other users and broken connections.
* *Identity.* Character indices are used again; several sessions may be the
  same user; what a slot, an observer, a queue entry and a body say about a
  character is stored in four places.
* *Delivery.* Every stream and datagram is read by a task of its own, so
  messages change places; the mirror of a client must follow the server's
  regions anyway.

### What makes each correct

* raw database: no page lost or shared; snapshots immutable and always one to
  go back to; a reopening returns exactly the last snapshot (all of it as long
  as no append of a free list was stale, section 5).
* free lists: the stored lists are the sets of pages the allocator means.
* vectors and the file: a vector is the sequence its callers made it, through
  every level its page tree gains and loses, whatever the other vectors and
  the snapshots do; what its guard remembers stays true; the file of the last
  snapshot stays readable.
* synchronizer: at most one snapshot is not yet on disk when the next begins;
  nothing is lost at drop; no deadlock.
* players and characters: every character belongs to one slot of one player,
  every user in game has one body of its own, and what the file holds is a
  consistent world, whenever the server stops.
* regions: the queue leads every user to the levels its center asks for; a
  region exists exactly while it is observed, and characters stand in regions
  that exist.
* the client's mirror: it has the regions the server says it observes, with the
  characters that are in them, one body each, through every notification.
* trees: a tree is the map its callers made, and a snapshot keeps it.
* sessions: messages come in an order both ends can handle; nobody is forgotten
  in game, in a queue or at a reply; stopping and leaving end.
* the application: what a player did is in the file when leaving succeeds, and
  when it fails the connection was cut or the service had panicked for one of
  the four reasons section 5 names.
* frames: nothing is written or freed that the graphics processor still uses,
  and every frame draws the regions the client holds.
* the generator: pausing, resuming and cancelling neither panic nor hang.

## 2. Plan

Done, in this order:

1. `SnapshotStore`, `Snapshots`, `FreeLists`, `Synchronizer`: the database,
   whose promise everything else rests on; proofs for `Snapshots` and
   `Synchronizer`.
2. `Players`, `Regions`: the server's own logic, apart from each other:
   `Players` leaves the regions out and lets a queued body join at any tick,
   `Regions` leaves the slots out.
3. `Pages`, `PageTree`, `Vectors`: the page tree of vectors and of the file,
   with the lookup that guards cache, against a sequence. `Trees` over `Pages`:
   the ordered maps, against `SnapshotStore`.
4. `Mirror` over `Regions`: the notifications and the client that applies them.
5. `Sessions`: connections, the network's reader tasks and the service loop.
   `Application` composes it with `Generation` under the client's root state.
6. `Frames`: frames in flight, terrain layers, fonts and swapchains.
7. Proofs for every size: `PlayersProofs`, `ApplicationProofs` (sessions, and
   the application on top of them), `TreesProofs`, `FramesProofs`.
8. `RegionsProofs`: the queue as a heap, and what it does to regions.
   `MirrorProofs` on top of it: what a client knows.

Left: the page trees and the stored free lists are recursive operators, so what
they compute stays with TLC (section 6).

There is no module for power loss. The header's checksum covers the header
alone, so nothing tells a snapshot whose pages all reached the disk from one
whose pages did not, and there is no promise of the code to state.

## 3. Modules

### SnapshotStore

The promise of the database to the code above it: a value the program changes
at will, a saved value that only `Save` replaces, `Reopen` that brings it back.

### Snapshots (with MCSnapshots, SnapshotsProofs)

`database` as sets of pages. A free list is three sets: `nodes`, the pages
that store it, `ready`, the entries [front, back), and `kept`, the entries
[0, front). The actions are the operations of `Lock` with everything the guard
does when it is dropped (`Allocator::resolve`): `Allocate`, `Deallocate`,
`CopyOnWrite` (page_mut on a page a snapshot may need), `Write` (in place);
and `RawDatabase::snapshot` in three steps, `SnapshotBegin` (swap, version,
the store into a slot begins and its checksum does not match),
`SnapshotHeader` (the store is complete, pages become read-only) and
`SnapshotSync` (the barrier). `Reopen` is a kill at any point followed by
open: what was stored into the mapping stays in the page cache.

How many pages an operation obtains for the lists is left open within what the
code allows (`Obtainable`, `Resolved`): `FreeLists` has the detail and is
checked to stay within it.

The lists are these sets only as long as every append stores its entry where it
belongs. `FreeList::append` computes the index before it makes room for the
entry, and making room may move the end of the same list. `AppendStale` is that
operation; `AppendMoves` says when it is possible (storing the entry copies a
page of the list while no entry is ready, or adds one, taken from the end,
while some are), `stale` remembers it, and what the file holds from then on is
not followed: an entry is lost, page 0 may be handed out, and neither
accounting nor recovery is promised any more. Every property of the module is
therefore about the time before (`~stale`). `FreeLists` shows that a stale
append happens only where `AppendMoves` allows it.

### FreeLists

The same operations with the lists entry by entry: `GetInPage` and `SetInner`
walk the tree of pages, `AllocateFrom`, `ReallocateFrom`, `DeallocateFrom` and
`Resolve` are the methods of `Allocator`. The pages and the state of the
running operation are one record, `alloc`, that the operators hand on, as the
code hands on `&mut Allocator`. A page of the code has 2048 entries; here it
has `FanOut`. Operators are recursive, so this module holds no theorems.

### Pages, PageTree, Vectors (with MCVectors)

The containers above the allocator, in three layers. `Pages` is `Lock` with the
allocator behind it as operators on a memory record: pages as rows of cells,
the writable bits, the two free lists as sequences (which entry is taken next
matters here: a page given back may come back at once, in another role) and
the assertion that failed. The pages that store the lists are left out; that
they are accounted for is the subject of `FreeLists`. `PageTree` is
`cursor.rs`, function by function. `Vectors` is the state machine: `OpenGuard`
and `CloseGuard`, every method of `VecGuard`, `DropVec`, and
`Database::snapshot` in two steps, `WriteFile` (`content.serialize` and
`set_len`: the headers of all vectors, cell by cell, in the file) and
`SealFile` (the raw snapshot, one step here since `Snapshots` has its
parts). `Reopen` is a kill at any point followed by `Database::open`, also
between the two. The pages after a kill are what was stored into the mapping;
the lists are those of the header page.

A cell is an element of a vector, a page number, or half a vector header in
the file. `items` is history: what the callers put in. Elements are model
values and symmetric in `vectors`, since nothing a vector does depends on
them. `ResizeDown` is `resize` to a smaller length: its loop starts at the old
length, so it always ends in the assertion of `index_mut` (`panicked`), and
nothing in the repository calls it so.

### Trees (with TreesProofs)

The ordered maps of `tree/`, on the same pages. A page is read as a leaf, a
sequence of entries; `Insert`, `RemoveKey` and `Clear` are the operations, each
with its guard. When a full leaf is split, `parent_insert` allocates a branch
without children and panics at its first `branch.set` (cursor.rs:189), so no
tree of the program has a branch, and the model has none: `Grow` is the split
with the two pages it leaves behind and the panic. The module implements
`SnapshotStore`, as `Snapshots` does for pages.

### Synchronizer (with SynchronizerProofs)

Program counters for the program (inside `sync` or `drop`) and for the thread;
the barrier lets the second to arrive pass at once and the first leave later.
`covering` is what a running sync_data will have written when it ends.

### Players (with MCPlayers, PlayersProofs)

`persistent::World` (`player_index`, `players.slots`, the used flags, free list
and columns of `DbVec` for characters), the file it is saved to, the users in
game, the `SetupPlayer` entries that wait in the queue of regions, the bodies
in `transient.pcs` and the physics handles. Actions are the arms of the
service loop and of `handle_request`. A request that is refused closes the
connection and changes nothing else; it is the absence of a step.
`panicked` names the assertion that ended the service task; only a restart
follows, since the runtime of the server ends with it.

### Regions (with RegionsProofs)

Where users are, what they observe and the queue in between. The regions are a
row: distances and levels only depend on the larger of two differences, and the
order on positions is the order of the row. A position is half a region, which
is what `near_region` distinguishes. The queue is laid out as the standard
library's binary heap, because `Ord for Entry` is not an order (`SetupDynamic`
and `TeardownStatic` are each less than the other) and so what `pop` returns
depends on the layout. `TickBegin` is `update_pcs`, `Apply` one turn of the
loop in `process`, and `TickEnd` its end, after the first change or later, as
the time allows. A tick that is skipped because it is late changes nothing
modelled and is a stutter.

`crossed` is history: pairs of user and region for which the queue once held
changes that the heap may bring up in the wrong order (`Crossing`): a setup and
a teardown, or both teardowns while any `SetupDynamic` is there or while some
entry of the heap is above one of a higher rank. Such an entry got there when a
`SetupDynamic` met a `TeardownStatic`, and it stays when the last `SetupDynamic`
is gone.

### Mirror (with MirrorProofs)

`Regions` with what is said about it. `updates` is `Region.dynamic_updates`,
pushed by moving characters (`AllMoved`, `Walked`), by `SetupPlayer` and by
leaving, and sent by `Flush` to whoever observes the region in full, one region
after the other in the order of a hash map (`Delivered`). `mirror` is the
`client::World` of one user, `Self`: the regions it has with who is in them, the
characters it knows, and the bodies it has for each. `StaticSetup`,
`DynamicSetup`, `DynamicTeardown`, `StaticTeardown` and `DynamicUpdates` are the
arms of `RootState::apply`, with the unwraps and indexes that panic. All
notifications of a client go through one ordered channel and the client's state
depends on nothing else, so that a notification is applied in the step that
sends it; that they wait in between is the subject of `Sessions`. Every region
has one NPC, which falls and never walks. Transforms are left out.

`strays` is history: characters that walked between a region the client
observes in full and one it knows without characters, and those that a set-up
shows and the next flush announces again. The client loses or doubles these.

### Sessions (with MCSessions, ApplicationProofs)

The network and everything that turns messages into actions. `streams` are the
requests on their way, each on a stream of its own, so that `Arrive` takes any
of them; `inbox` is the message channel of a session; `Hello`, `Serve`,
`Hangup` and `Bye` are the session task (`server.rs`), which waits for room in
the queue `actions`; `Handle` is one turn of the service loop (`service.rs`,
`handle_request`), whose ticks leave notifications to send (`Notify`) through
bounded channels. An unwrap or assertion that fails ends the service (`Panic`)
with everything that waits in it.

Requests are those of the client: the first one for its slots (`Slots`),
`Creation` and `Deletion` (the buttons of the lobby), `Enter`, `UpdateSelf` and
`Disconnect`, each with its reply, its refusal (`Refuse`, which closes the
connection) and what it unwraps. A user has one slot; `view` is what the lobby
shows of it, so that a button is there only while the client believes it
applies, but may be clicked twice. `slots` tells a character whose index was
given back before (`"reused"`: `DbVec::add` leaves it unmarked) from one whose
was not, for deleting the former is the assertion at db_vec.rs:69; any binding
may be of either kind, since the file may have been used before. A new user may
find the first leaf of the index of players full (`HandleConnected`; `Trees`
has that panic, `Players` has room for everyone).

A connection is closed by an error (`Break`, `Refuse`) or when its last holder
lets go (`Release`). Holders are the session, the queue of actions, the
observer of the user in game, a tick that still sends (`sending`), and the
regions: each keeps a sender for each of its observers, and so do the entries
that wait to set one up. Leaving the game only queues the teardowns;
`lingering` are the connections the regions keep until then, and `backlog` is
the number of ticks it takes to empty their queue, of which `Regions` has the
contents. A tick applies some of it, at least one entry. `astray` are users for
whom the state of regions or bodies may not be what the server takes it for (a
character deleted in game or shared, a user who came back before its teardowns,
one who moved on): `Regions` and `Players` say when exactly, here a tick may
then panic, or not. A tick that is handled too late is skipped by the code and
counts as one that did not come. `stored` and `saved` follow the place of a
player from the world to the file.

### Generation, Application (with MCApplication, ApplicationProofs)

`Generation` is the task of the generator with its `Control`: the task does all
its work and looks only then whether it was paused or cancelled; `Poll` is
`ControlWait::poll`, whose waker is kept while paused. `Application` is
`RootState`: it extends both modules, adds `root`, and lets a state's shutdown
take its steps (`Goodbye`, `Released`, `StopServer`, `Joined`,
`CancelGenerator`) among those of the server, which runs in the same process,
or of the generator. `cut` says that the connection was closed by an error or
lost before its session was over.

### Frames (with FramesProofs)

Drawing: one thread with its window events, and the graphics processor. The
resources of the two frames are the fields of `frame`; a buffer is known by the
frame count at which it was written last, an image by the one at which it was
made. `Render` is `RootFrame::render` with everything it prepares: terrain
changes are drained into layers and uploads, vertices rebuilt when older than
the last change, caches asked by extent, the font replaced or kept, and a
submission put into `queue` that names what its commands use. `Transfer` and
`Finish` are the processor: external, and as fast or slow as the timeline
allows. `RecreateSwapchain` is what follows a resize, a switch of vsync or a
failed present.

## 4. Runs

| Run | Instance | Shows |
|---|---|---|
| `snapshots` | 5 pages, 3 snapshots, 1 reopening, 2 data values, 1 page more per resolution | until an append is stale: page accounting, protection of snapshots, recoverability, refinement of `SnapshotStore` |
| `free_lists` | pages of 2 entries, depth 2 (8 entries), file up to 7 pages and 9 of slack, 3 snapshots | lists as sets, one owner per page, every operation is one of `Snapshots`, up to a stale append, which comes only where `Snapshots` has it |
| `synchronizer` | 8 calls | order of durability, nothing lost, calls return, everything reaches the disk |
| `vectors` | 1 vector of at most 3 elements of two kinds, one per page, pages of 2 numbers, at most page 8 before an operation, 2 snapshots, 1 reopening | a vector is its sequence, what a guard remembers is true, the last snapshot is readable, pages are shared out |
| `trees` | 3 keys, 2 values, leaves of 2, page 6 before an operation, 2 snapshots, 1 reopening | a tree is its map and implements `SnapshotStore`, also up to the panic |
| `players` | 2 users, 3 sessions (two of one user), 1 slot, 2 characters, 1 restart | characters, players, bodies and places |
| `players_remove` | the same | an assertion that fails (finding) |
| `mirror` | 2 users, 3 regions, static distance 1, full distance 0, 4 requests, steps of at most 3 half regions, starts in two regions | the queue leads to the center, regions are counted, changes find what they change, characters stand in regions that are there, the client has the regions and characters the server has, everyone settles |
| `regions_observer` | 1 user, 4 requests, nobody walks | an assertion that fails (finding) |
| `sessions` | 2 connections of one user, every queue of capacity 1, 1 click and a walk, a queue of regions of 1 tick, no index used before | messages in order, nobody forgotten in game, client and server agree on being in game, leaving and stopping end |
| `application` | 1 connection, actions and notifications of capacity 2, 2 clicks and a walk, a queue of regions of at most 2 ticks, 2 pauses | leaving saves, fails for a known reason only, and ends; replies come or fail |
| `frames` | 2 regions, 2 layers, 2 extents, 4 frames, 1 change between frames, 2 swapchains, 2 fonts | nothing in use is written or freed, frames draw what the client holds, waits end |

The bounds are chosen so that the interesting cases happen. Three snapshots
cover both slots twice and the two swaps a page has to wait for. Pages of two
entries put a leaf boundary at every second entry and need all three levels of
the tree. With one element per page and pages of two numbers, each of the first
three elements of a vector adds a level to its page tree, and each that goes
removes one; the tree of the file is a second container over the same
allocator, whose page is copied by every snapshot after the first. With leaves
of two entries, the third key splits the leaf. Two users and three sessions
have a second session of the same user and somebody to take over an index. With
three regions and distances 0 and 1, a center in the middle sees everything,
one at the end sees a border that cuts the window, and moving two regions
replaces all levels; four requests let both users enter and move, or one enter,
leave, come back and leave; the user that is mirrored enters once and stays
until it disconnects, as the client does, and the other one walks in and out of
what it sees. Queues of one place make every sender wait; two connections of
one user are the smallest case in which what one says is done to the other;
with the first request, one click, a walk and Disconnect, one of them enters or
changes its slot while the other asks, leaves or is lost, and every holder of a
connection is in play. What needs more clicks (entering twice, an index used
before that is bound and unbound) is in `application`, and the three invariants
are proved for any number of connections and requests. The application has one
connection, for its server listens to nobody else here, and queues of two
places so that a tick and a stop may wait together. A frame count from 2 to 6
is four frames, each of the two twice, before and after a change, with a
swapchain recreated in between; two layers for two regions let each region be
removed, and its layer be taken again by the other. `CHECK_DEADLOCK FALSE` is
in the runs whose bounds end the behaviour (or whose service task has
panicked).

Each of these runs also checks the types of its variables: the type invariant is
the first conjunct of `OneOwner`, `CharactersAccounted`, `Counted`, `SameWorld`,
`PagesShared` (of `Vectors`), `HoldsEntries`, `InOrder`, `FailsForAReason` and
`DrawsTheRegions`. Those of
`Snapshots` and `Synchronizer` are proved by themselves, and so are those of
`Players`, `Sessions`, `Application`, `Trees`, `Regions` and `Frames`, with the
property they are a part of.

Fairness. In `Synchronizer`, the thread is scheduled, and the program goes on
inside calls it began, since an operating system schedules both; nothing makes
it begin one. In `Mirror`, ticks go on (`WF_allVars(MirrorServer)`): the
interval in `server.rs` keeps sending them and a tick that is not late
processes at least one entry of the queue. In `Sessions`, tasks are scheduled,
streams of an open connection arrive, and a client reads what it is sent, since
its receiver task does nothing else; a session that waits for room in the queue
of actions gets its turn (strong fairness), since a bounded channel of the
runtime serves those that wait in order. Ticks come
(`WF_sessionVars(TickDue)`), which `LeavingEnds` needs: the regions let go of a
connection only in a tick. The interval of `server.rs` keeps sending them, and
`world.rs` skips those that are handled after their time, which a server that
is not overloaded for ever has an end of. The number of requests is bounded, so
that the queue of the regions empties: a server whose ticks run out of time for
ever, under requests without end, is outside these runs. `Application` assumes
the same of the tasks it contains, and that the steps of shutdown follow each
other. In `Frames`, the event loop goes on unless it is blocked, and the
processor finishes what it can. No fairness is assumed of users, of the
network's failures or of windows.

## 5. Findings

Two assertions of the code fail, each in a run of its own:

* `server/src/observer.rs:120` (`players_remove`): leaving the game before the
  first tick after entering unwraps a body that is not there.
* `server/src/region.rs:160` (`regions_observer`): setups overtake teardowns
  that are still queued; a user who leaves and comes back loses the regions
  just set up, or a teardown unwraps what is not there (lines 315, 320, 370,
  371, 383, 384).

Properties are stated outside of these, and outside of the following, each of
which the models contain and name:

* `database/src/free_list.rs:88`: `append` reads the index before `set`, which
  may move the back of the list it appends to. An entry is then overwritten and
  its page lost, and page 0, the header, is read as a list page or handed out
  and zeroed. It takes no more than a few allocations, a snapshot and
  deallocations. Every property and theorem of `FreeLists` and `Snapshots`
  holds until an append met a stale index (`stale`), and none says anything
  about what follows.
* `database/src/vec.rs:130`: `internal_resize` keeps the page the guard
  remembers (`FileGuard::set_len` forgets it). After a `pop` that gives the
  page back and an `append` that takes it as a page of page numbers, the guard
  writes elements over those. No caller in the repository goes on with a guard
  after a `pop` (`DbVec::add` in `derive`, `mapping.rs`), which is what
  `Reused = FALSE` says.
* `derive/src/db_vec.rs:50`: an index that is used again is not marked as used;
  freeing it a second time fails the assertion at line 69, and the service ends
  (`panicked` in `Players`, `"unmarked"` in `Sessions`), so that leaving fails.
  Two rounds of bind and unbind in the lobby are enough. The file is consistent
  all the same.
* `server/src/world.rs:255`: `update_pcs` unwraps the region a character moves
  to. It is not there when the move goes to a region whose setup still waits in
  the queue, for a tick moves characters before it applies changes; and after
  setups and teardowns met (`crossed`) neither may be the one it comes from
  (line 244). `MovesWhereFound` says that there is no third case.
* `persistent/src/world.rs:36`: a new user is inserted into the index of
  players, a tree that cannot grow beyond one leaf (`tree/cursor.rs:189`,
  `"full"`).
* `server/src/region.rs:160`: the disorder outlives the entries that made it.
  An entry that got above one of a higher rank stays there when no
  `SetupDynamic` is queued any more, and the next teardowns may come up in the
  wrong order. The proof of `LeadsToCenter` failed until `Crossing` said so.
* `client/src/root/state.rs:269`: a character that walks between a region seen
  in full and one seen without characters is lost or doubled (`strays`).
* `server/src/service.rs:31`: the end of any connection of a user takes the user
  out of the game; `InGameTogether` is about users with one connection.
* `client/src/root/state.rs:80`: when the connection is already closed, shutdown
  ends without stopping the server, and nothing is saved (`cut`).
* `client/src/root/frame.rs:57`: the fence is reset before
  `acquire_next_image`; if that fails, nobody signals it (`lost`).
* `client/src/depth/image.rs:89`: the depth pyramid and the cull sets are kept
  by extent, and name what belonged to an earlier swapchain when an extent
  comes back (`returned`), be it at once, as when F9 recreates it in the same
  size.
* `database/src/tree/cursor.rs:189`: a tree cannot grow beyond one leaf.
* `server/src/request.rs:88`: a character may be deleted while it is in game,
  and its index be somebody else's then (`orphaned`, for `OneBody` and
  `OwnPlaces`; `astray` in `Sessions`).

So leaving fails, besides for a cut connection, when the service had panicked:
the index of players was full, an unmarked character was deleted, a body was
missing, or something had gone astray (`Panics` of `Application`).
`FailsForAReason` says that there is no other way, in particular none that comes
from the order in which the steps of shutdown meet those of the server.

## 6. Proofs

`SnapshotsProofs` proves, for every number of pages, versions and reopenings
and every set of values, that `IndInv` of `Snapshots` is inductive, and from it
`TypeOK`, `PagesAccounted`, `SnapshotsProtected`, `AlwaysRecoverable` and the
refinement `ImplementsStore`, all until the first stale append. It assumes only
`ZeroAssumption` and `BoundsAssumption`.

Why the invariant is what it is. That a snapshot is protected is not inductive:
the next allocation may take a page of it unless one knows why it is not ready.
`GivenUpPagesKept` says where the pages are that a snapshot needs and the
program gave up: since the last snapshot among the kept pages of the current
list, in the epoch before among those of the previous list. A swap makes the
kept pages of the previous list ready, which is right only because at the same
moment the snapshot that needs them loses its slot: `SlotsOrdered` says which
slot is the base, that the other one is the version just before or not valid,
and that it becomes invalid with the swap. `SlotsAccounted` carries the
accounting through a reopening. The proof takes the operations one by one;
`Deallocate` and `CopyOnWrite` go through lemmas about sets of pages alone.

`SynchronizerProofs` proves `PreviousDurable` and `NothingLost` for any number
of calls. Its `IndInv` counts the meetings at the barrier (`Met`) from where
the two sides stand and says how `pending`, `durable` and `covering` follow
from it.

`PlayersProofs` proves `CharactersAccounted`, `OneBody` and `OwnPlaces` for any
users, sessions, slots and characters, through any number of stops and kills.
It assumes `UserOfAssumption` and `OpensAssumption`. A slot names a character, a
character names its owner, the free list names neither, and the three are
written in different statements: `HeldIsOwned` and `OwnedIsHeld` say that they
agree, in both directions, for the world in memory and for the one in the file
(`Recorded`), which a restart brings back. `Known` is why a request finds its
player: the file never forgets one. Bodies are joined to users by handles:
`Handles` says that one is in one place only, `InGameOnce` that a character in
game waits or is live, for the user in game with it, and `NoOtherBody` counts
bodies and users, so that no body stays behind when its user leaves.
`Calm` (no panic, no character deleted while in game) is the exception the
properties name too; the file needs neither to be accounted for, since a service
that panicked does not save.

`ApplicationProofs` first proves, of `Sessions`, `InOrder`, `NoGhosts` and
`InGameTogether` for any connections, users and capacities
(`SessionsAssumption`). Streams overtake each other, so that the order of
messages is not an invariant of the network; what is invariant is where an
action can still be: `KnownFirst` (what a session asks comes after its
Connected, in the queue or done), `ByeLast` (and before its Disconnected),
`Taken` (who is in game with a session that is over has its Disconnected in the
queue). `EnterFirst` and `SendingObserved` say the same of the notifications on
the way back, and `ToldInGame` relates the two ends, as long as nobody else has
a connection of that user (`Alone`).

It then extends these to the application (`ApplicationAssumption`: its server
has the one connection) and proves `FailsForAReason` and `PlaceSaved`. A
service that ended did so by Stop or for one of the reasons in `Panics`,
`"unknown"` being excluded by `InOrder`. `InStep` says what has happened to the
connection and the server at each step of shutdown, `InPeace` and `StopLast`
that without an error the session ends after the client left and its last
action comes before Stop, so that the place is in the columns when the file is
written (`Kept`). `SleepsPaused` is why a paused generation is never polled
into a panic.

`TreesProofs` begins with what `Trees` needs to know about `Lock` and the
allocator: each lemma says what an operator of `Pages` does to the two lists,
that every page stays in use or free and never both (`Shared`), and that no page
the last snapshot names becomes writable or ready (`Safe`). It proves
`HoldsEntries`, `PagesShared` (which no run checks) and the refinement
`StoreKept` for any keys and values, leaves of any `Order`, and files, snapshots
and reopenings of any number. It assumes that keys are ordered as integers are
(`KeysAssumption`), and that the model's page numbers leave room for the three
pages an operation may obtain (`BoundsAssumption`), which bounds the model and
not the code. `TreesInv` says that the root's leaf is the history map in order
(`Maps`), that pages are shared out between it and the lists, and the same of
the last snapshot, whose root is `Safe`: an operation writes the root in place
or puts another page there, and only the latter may happen to a saved one. After
the panic of `Grow` only the snapshot and the fact that the leaf was full are
kept, for the pages in memory are lost with the process. The lemmas about leaves
(`Prefix`, `Placing`, `Inserting`, `Updating`, `Removing`, `Splitting`) say what
the position of a key is good for.

`FramesProofs` proves `BuffersLeftAlone`, `NamesWhatExists` and
`DrawsTheRegions`, for any regions, extents, layers and changes, and any number
of frames and swapchains (`FramesAssumption`). That buffers are left alone
rests on `Fenced`: a submission has a fence that is reset, and no two have the
same frame. `Sized` follows the two caches that know a size only, as long as no
size comes back, and uses that a swapchain is made anew only when the processor
is idle. `Fonts` says that the font of a submission is there or comes with an
earlier one (`Comes`), `Drawn` that a frame is as new as the last change or
older than it.

The heights need a second invariant, `LayersInv`. Changes wait in a list of any
length and are drained by one frame: `Layers` says that the layers are shared
out (`SharedOut`) and that the list is one the server can have sent (`Legal`),
which draining it keeps, change by change (`Draining`). A layer is written by a
later submission while an earlier one may still draw from it. `Heights`
therefore says two things, unless a frame was lost: the regions held today have
their heights when the queue is worked off (`Painted`: they are there, or the
last upload into the layer is theirs), and a submission that is not the last
finds the heights of each of its regions (`Kept`), or those of a later frame in
a layer that this region has no more. That nothing else can have overwritten
them uses that at most two submissions wait (`QueueShort`, from `Fenced`): with
a third one a region could get its layer back while another one's heights are
on their way. What a `FoldLeft` over changes or uploads does is followed step
by step (`DrainSteps`, `HoldSteps`, `TransferSteps`).

`RegionsProofs` proves `LeadsToCenter`, `Counted`, `AppliedWhereFound` and
`MovesWhereFound` for any users, distances, size of the world, starts, steps
and number of requests (`UsersAssumption`, `StartAssumption`,
`DistanceAssumption`). The heap is that of the standard library, and its order
is no order, so that the entry `pop` returns is in general not the greatest.
What is true nevertheless: a push and a pop keep the entries (`Shuffle`), and
they keep the heap ordered by any weight the comparison agrees with (`Ordered`,
`Fits`; lemmas `GoingUp`, `GoingDown`, `Pushing`, `Popping`). `First` is such a
weight for every queue, so that a `SetupStatic` is always taken first; the rank
is one as long as there is no `SetupDynamic`. The inductive invariant
`RegionsInv` states, for the pairs that never crossed, `LeadsToCenter` change
by change (`Leading`), that none is queued twice (`Once`), that whoever's
player is to come is in game, without a character, and sees the region
(`Arriving`), and that regions count (`Counting`). A request then adds the
moves from its old center to its new one to those that are queued, and the two
compose to the moves from the level to the new center exactly when no setup met
a teardown (`Composed`); `FirstLevel` says that the change a tick takes first
finds the level it is for, although others of that pair may be behind it.

`MovesWhereFound` needs that a player is seen some way off, `StaticDistance >
0` (the generator writes 15; with 0 a player half a step across a border would
be in a region nobody asked for). `Standing` strengthens it: the region a
character goes to is one its user is to see, since moving keeps the center near
(`NearIsSeen`); the one it stands in is there, and its user has a level in it
or its setup queued (`Held`), so that it stays; and while a tick applies
changes nobody is between two regions.

The lemmas on `Ancestors`, `PushAll` and `FlattenSeq`, which are recursive
functions, need induction. The theorems of the library that have a property as
a parameter cannot be instantiated here; a set can, so these proofs take the
set of numbers that have the property, and a least or greatest one that does
not (`Least`, `Upwards`, `Downwards`).

`MirrorProofs` proves `SameWorld`, `OneBodyEach` and `ClientGoesOn` from the
assumptions of `RegionsProofs` and `SelfAssumption`. That the client shows what
the server has (`Agrees`) is not inductive, for a region also has updates that
are not sent yet, and what a set-up or a teardown does to the client depends on
them. `Waits` says which these can be: between two ticks, players that came, who
are there, and users that left, who are not; while a tick applies its changes,
only the former; each at most once and in one region. `Homes` says that a player
comes to the region its entry was queued for, and `Fresh` that nothing is queued
for a user before it enters. `Alone` is what `OneBodyEach` and the unwraps need:
a character is known exactly when one region shows it, it has a body then, and
one that is announced is not there yet. It holds of every character that did not
become a stray.

The hard step is a flush. A character that walks is taken from one region and
brought to another, and the regions are flushed in any order, so that the
client may see it come before it goes. `InTurn` says that among the updates of
all regions at most those of one region bring or take a body (in the others the
character walks to or from a region the client knows, or only moves), and that
they bring it at most once and take it at most once, later. Then the order does
not matter (`RegionApplied`, `AllDelivered`). `HasTurn` finds that region for
each character: where it walked from or to, where it was announced, or where it
left (`Walks`, `Journeys`, `UsersTurn`, `Flushed`). The folds over updates and
regions are followed step by step (`TellSteps`, `OneSteps`, `RegionSteps`).

Only model-checked: `FreeLists`, `PageTree` and `Vectors`, whose operators are
declared recursive (a module that reaches one has no proofs); and all liveness
(`CallsReturn`, `EventuallyDurable`, `Settles`, `AskAnswered`, `LeavingEnds`,
`StopEnds`, `LeavingDone`, `WaitsEnd`), since the prover reasons neither about
ENABLED nor about fairness.

## 7. Not modelled

* Branches of trees (`tree/branch.rs` and the rebalancing in `cursor.rs`), which
  no execution reaches, and mappings (`mapping.rs`), which nothing uses.
* Failing system calls: a `sync_data` or `mmap` that fails is logged or ends
  the program, and power loss (see the plan). A guard that keeps a mapping the
  file has outgrown (`page.rs:105`) sees the same pages through the kernel; the
  models have one memory.
* Shaders, pipelines, barriers and everything else whose state is the driver's;
  the numerics of terrain, physics, interpolation and the camera.
* Serialization formats, authentication, certificates, mDNS and configuration.
  Datagrams and mixed messages in a channel, which no caller sends
  (`connection.rs:33` and `incoming.rs:96` disagree about their tags), and the
  empty `GlobalSetup`, whose sending is never awaited (`world.rs:93`).
* Some differences of detail. `Mirror` takes the region of a character from
  where it stands; the code reads the column `region`, which is the same while
  the server runs (region.rs:338, observer.rs:125). A submission of `Frames`
  names the depth view through all sets that hold one, also the depth pyramid's
  own, which no command binds. `Players` has no limit to the index of players;
  `Trees` and `Sessions` have the panic there.
* Illegal slots and `Request::Exit`, which the client never sends (their effect
  on the world is that of a refusal and of `LeaveGame` in `Players`), and ticks
  that are skipped because they are handled too late.
* NPCs that walk: `update_npcs` lets them fall only.
* The layout of menus, the mouse, and joining a remote server from the client,
  whose connection is one of `Sessions`.
