------------------------------- MODULE Frames -------------------------------
(***************************************************************************)
(* How the client draws (src/crates/client: root/frame.rs, root/mod.rs,    *)
(* terrain, cull, depth, egui).  One thread handles the window's events    *)
(* and records a frame when they are used up; the graphics processor       *)
(* executes what was submitted at its own pace.  FRAMES_IN_FLIGHT frames   *)
(* own a command buffer, vertices, a staging buffer and descriptor sets    *)
(* each; the terrain image, the depth pyramid, the font and the swapchain  *)
(* are shared.  A fence tells when a frame's own resources may be written  *)
(* again, a timeline semaphore orders the frames on the processor.         *)
(*                                                                         *)
(* The model begins when the game is entered, after two frames of menus.   *)
(* The processor is external: it may run the transfers of a submission at  *)
(* once, and its compute and draw work when the timeline has come to the   *)
(* value the submission waits for.                                         *)
(***************************************************************************)
EXTENDS Integers, Sequences, FiniteSets, SequencesExt

CONSTANTS Regions,        \* positions of regions the server may announce
          Slots,          \* World::max_active_regions, layers of the image
          Extents,        \* 1..Extents: sizes the window may have
          MaxFrames,      \* bound on frame_count
          MaxChanges,     \* bound on terrain changes between two frames
          MaxSwapchains,  \* bound on the swapchains created
          MaxTexture      \* bound on the versions of egui's font texture

ASSUME FramesAssumption ==
  /\ Slots \in Nat \ {0} /\ Extents \in Nat \ {0}
  /\ MaxFrames \in Nat \ {0, 1} /\ MaxChanges \in Nat
  /\ MaxSwapchains \in Nat \ {0} /\ MaxTexture \in Nat

FRAMES_IN_FLIGHT == 2

VARIABLES
  frameCount,   \* RootContext::frame_count
  pc,           \* the event loop: "events", "frame" (in RootFrame::render),
                \* "recreate" (in recreate_swapchain)
  frame,        \* PerFrame: what every frame owns, see New...Frame below
  terrain,      \* TerrainContext: changes, unused, used, lastUpdate
  font,         \* EguiContext::font, by the texture's version; 0 is None
  texture,      \* version of the texture egui's fonts have come to
  swapchain,    \* the current swapchain: id and extent
  surface,      \* RootSurface, by the swapchain it was made for
  depth,        \* DepthImage: id, extent, and the depth view its set reads
  queue,        \* submissions the processor has not finished
  timeline,     \* value of RootContext::semaphore
  image,        \* layer of the terrain image -> region and frame that wrote it
  fonts,        \* versions of the font whose image has its contents
  seen,         \* history: the extents swapchains have had
  returned,     \* history: a swapchain got an extent an earlier one had
  lost          \* history: acquire_next_image failed, the frame was dropped

cpu == <<frameCount, pc, frame, terrain, font, texture, swapchain, surface,
         depth, seen, returned, lost>>
gpu == <<queue, timeline, image, fonts>>
vars == <<cpu, gpu>>

Frame == 0..FRAMES_IN_FLIGHT - 1
Index == frameCount % FRAMES_IN_FLIGHT
None == 0

-----------------------------------------------------------------------------
\* What is made when the game is entered.  A buffer is known by the frame count at
\* which it was written last, an image or a view by the one at which it was made.

NewRootFrame == [fence |-> TRUE]
NewSceneFrame == [objects |-> None]
NewTerrainFrame == [staging |-> None, vertices |-> <<>>, lastUpdate |-> 0]
NewCullFrame == [setup |-> None, set |-> None]
NewEguiFrame == [pixels |-> None, text |-> None, font |-> None]

NewFrame ==
  [fence |-> NewRootFrame.fence, objects |-> NewSceneFrame.objects,
   staging |-> NewTerrainFrame.staging, vertices |-> NewTerrainFrame.vertices,
   lastUpdate |-> NewTerrainFrame.lastUpdate,
   setup |-> NewCullFrame.setup, set |-> NewCullFrame.set,
   pixels |-> NewEguiFrame.pixels, text |-> NewEguiFrame.text, font |-> NewEguiFrame.font]

\* The layers of the terrain image are all unused.
NewTerrain ==
  [changes |-> <<>>, used |-> <<>>, lastUpdate |-> 0,
   unused |-> [i \in 1..Slots |-> Slots - i]]

\* The depth pyramid of an extent; its first level is read from the depth view of
\* the surface.
NewDepth(extent) == [id |-> frameCount, extent |-> extent, view |-> surface]

\* The framebuffers of the swapchain, and their depth view.
NewSurface == swapchain.id

\* A swapchain in the size the window has by now.
NewSwapchain(extent) == [id |-> swapchain.id + 1, extent |-> extent]

\* Cache: the value is kept as long as it is asked for with the same key.
Cached(key, asked, value, new) == IF key = asked THEN value ELSE new

Init ==
  /\ frameCount = 2 /\ timeline = 2 /\ pc = "events" /\ queue = <<>>
  /\ frame = [i \in Frame |-> NewFrame]
  /\ terrain = NewTerrain
  /\ font = None /\ texture = 1
  /\ swapchain = [id |-> 1, extent |-> 1] /\ surface = 1
  /\ depth = [id |-> None, extent |-> None, view |-> None]
  /\ image = [l \in 0..Slots - 1 |-> [pos |-> None, by |-> 0]] /\ fonts = {}
  /\ seen = {1} /\ returned = FALSE /\ lost = FALSE

-----------------------------------------------------------------------------
\* The event loop.

\* A change as TerrainContext keeps it until the next frame is prepared.
AddChange(pos) == [add |-> TRUE, pos |-> pos]
RemoveChange(pos) == [add |-> FALSE, pos |-> pos]

\* The regions the client holds: those with a layer, and the changes queued.
Held == FoldLeft(LAMBDA s, c: IF c.add THEN s \union {c.pos} ELSE s \ {c.pos},
                 DOMAIN terrain.used, terrain.changes)

\* RegionStaticSetup and RegionStaticTeardown.  The server keeps a client at
\* Slots regions at most.
ChangeTerrain ==
  /\ pc = "events" /\ Len(terrain.changes) < MaxChanges
  /\ \E pos \in Regions, add \in BOOLEAN:
       /\ IF add THEN pos \notin Held /\ Cardinality(Held) < Slots ELSE pos \in Held
       /\ terrain' = [terrain EXCEPT !.changes =
                        Append(@, IF add THEN AddChange(pos) ELSE RemoveChange(pos))]
  /\ UNCHANGED <<frameCount, pc, frame, font, texture, swapchain, surface, depth,
                 seen, returned, lost, gpu>>

\* WindowEvent::Resized, and F9, which switches vsync: both recreate the
\* swapchain.
AskRecreate ==
  /\ pc = "events" /\ swapchain.id < MaxSwapchains /\ pc' = "recreate"
  /\ UNCHANGED <<frameCount, frame, terrain, font, texture, swapchain, surface, depth,
                 seen, returned, lost, gpu>>

\* Device::wait_idle
WaitIdle == queue = <<>>

RecreateSwapchain ==
  /\ pc = "recreate" /\ WaitIdle /\ pc' = "events"
  /\ \E extent \in 1..Extents:
       /\ swapchain' = NewSwapchain(extent)
       /\ seen' = seen \union {extent}
       /\ returned' = (returned \/ extent \in seen)
  /\ UNCHANGED <<frameCount, frame, terrain, font, texture, surface, depth, lost, gpu>>

\* MainEventsCleared: Root::render makes the framebuffers of a new swapchain
\* before the frame.
BeginFrame ==
  /\ pc = "events" /\ frameCount < MaxFrames /\ pc' = "frame"
  /\ surface' = Cached(surface, swapchain.id, surface, NewSurface)
  /\ UNCHANGED <<frameCount, frame, terrain, font, texture, swapchain, depth, seen,
                 returned, lost, gpu>>

-----------------------------------------------------------------------------
\* RootFrame::render.  The swapchain may be found suboptimal or out of date
\* whenever it is used, for the window may have changed since.

\* Mutant: the fence of the frame is not waited for.
FenceWaitNone == TRUE

\* main_queue_fence.wait
FenceWait == frame[Index].fence

\* One change drained by TerrainContext::prepare_render.
Drain(t, c) ==
  IF c.add
  THEN LET layer == Last(t.unused)
       IN  [used |-> [p \in DOMAIN t.used \union {c.pos} |->
                        IF p = c.pos THEN layer ELSE t.used[p]],
            unused |-> Front(t.unused),
            uploads |-> Append(t.uploads, [layer |-> layer, pos |-> c.pos])]
  ELSE [used |-> [p \in DOMAIN t.used \ {c.pos} |-> t.used[p]],
        unused |-> Append(t.unused, t.used[c.pos]),
        uploads |-> t.uploads]

Drained == FoldLeft(Drain, [used |-> terrain.used, unused |-> terrain.unused,
                            uploads |-> <<>>], terrain.changes)

PreparedTerrain(d) ==
  [changes |-> <<>>, used |-> d.used, unused |-> d.unused,
   lastUpdate |-> IF terrain.changes = <<>> THEN terrain.lastUpdate ELSE frameCount]

\* Mutant: only the frame that drained the changes rebuilds its vertices.
RebuildsHere(f, t) == t.lastUpdate = frameCount

\* TerrainFrame::prepare_render: the vertices, rebuilt when they are older than
\* the last change.
Rebuilds(f, t) == f.lastUpdate < t.lastUpdate

\* The depth pyramid is made anew for another extent.
PreparedDepth ==
  Cached(depth.extent, swapchain.extent, depth, NewDepth(swapchain.extent))

\* Mutant: the set is written once and for all.
CullSetOnce(f, d) == IF f.setup # None THEN f.set ELSE d.id

\* CullFrame::prepare_render: the pyramid the frame's descriptor set names.
CullSet(f, d) == Cached(f.setup, swapchain.extent, f.set, d.id)

\* What egui laid out before the frame: meshes or none, and the texture with the
\* glyphs they need.
LaidOut == [meshes: BOOLEAN, texture: texture..MaxTexture]

\* EguiFrame::prepare: the font the context has, then the font the frame holds.
NewFont(e) == e.meshes /\ font # e.texture
PreparedFont(e) == IF e.meshes THEN e.texture ELSE font

HeldFont(f, e) == IF e.meshes THEN PreparedFont(e) ELSE f.font

\* Buffers a frame writes when it has something for them: the heights and pixels to
\* be uploaded, for which the buffer is made anew; and, in place, the objects of
\* the scene, and the text.
StagedHeights(d) == IF d.uploads = <<>> THEN None ELSE frameCount
StagedPixels(e) == IF NewFont(e) THEN frameCount ELSE None
UpdatedScene == frameCount
WrittenText(f, e) == IF e.meshes THEN frameCount ELSE f.text

RebuiltVertices(f, d) ==
  IF Rebuilds(f, PreparedTerrain(d))
  THEN [vertices |-> d.used, lastUpdate |-> PreparedTerrain(d).lastUpdate]
  ELSE [vertices |-> f.vertices, lastUpdate |-> f.lastUpdate]

\* The frame after everything was prepared, its fence reset.
Prepared(f, d, e) ==
  [fence |-> FALSE, objects |-> UpdatedScene, staging |-> StagedHeights(d),
   vertices |-> RebuiltVertices(f, d).vertices, lastUpdate |-> RebuiltVertices(f, d).lastUpdate,
   setup |-> swapchain.extent, set |-> CullSet(f, PreparedDepth),
   pixels |-> StagedPixels(e), text |-> WrittenText(f, e), font |-> HeldFont(f, e)]

\* What the commands name; and, for the properties, which regions the client holds.
Culling(f) == [set |-> f.set, view |-> PreparedDepth.view]
DrawTerrain(f, d) == [vertices |-> f.vertices, used |-> d.used]
DrawScene(f) == [objects |-> f.objects]
DrawText(f, e) ==
  [text |-> IF e.meshes THEN f.text ELSE None, font |-> IF e.meshes THEN f.font ELSE None]
Uploads(d, e) ==
  [uploads |-> d.uploads, upfont |-> NewFont(e),
   uploaded |-> d.uploads = <<>> /\ ~NewFont(e)]

\* Mutant: the timeline is off by one.
TimelineEarly == [waits |-> frameCount + 1, signals |-> frameCount + 2]

Timeline == [waits |-> frameCount, signals |-> frameCount + 1]

Submission(f, d, e) ==
  [number |-> frameCount, index |-> Index, waits |-> Timeline.waits, signals |-> Timeline.signals,
   uploads |-> Uploads(d, e).uploads, upfont |-> Uploads(d, e).upfont,
   uploaded |-> Uploads(d, e).uploaded,
   set |-> Culling(f).set, view |-> Culling(f).view,
   vertices |-> DrawTerrain(f, d).vertices, used |-> DrawTerrain(f, d).used,
   objects |-> DrawScene(f).objects, text |-> DrawText(f, e).text, font |-> DrawText(f, e).font]

\* Acquire, submit and present.  A suboptimal image, or an out of date swapchain
\* found when presenting, has the swapchain recreated after the frame.
Submit(d, e) ==
  /\ queue' = Append(queue, Submission(Prepared(frame[Index], d, e), d, e))
  /\ \/ pc' = "events"
     \/ swapchain.id < MaxSwapchains /\ pc' = "recreate"
  /\ UNCHANGED lost

\* acquire_next_image finds the swapchain out of date: the commands are dropped,
\* the fence stays reset, the timeline value is never signalled.
OutOfDate ==
  /\ swapchain.id < MaxSwapchains /\ pc' = "recreate" /\ lost' = TRUE
  /\ UNCHANGED queue

Render ==
  /\ pc = "frame" /\ FenceWait
  /\ LET d == Drained IN
       \E e \in LaidOut:
         /\ Submit(d, e) \/ OutOfDate
         /\ frame' = [frame EXCEPT ![Index] = Prepared(@, d, e)]
         /\ terrain' = PreparedTerrain(d)
         /\ font' = PreparedFont(e) /\ texture' = e.texture
  /\ depth' = PreparedDepth
  /\ frameCount' = frameCount + 1
  /\ UNCHANGED <<swapchain, surface, seen, returned, timeline, image,
                 fonts>>

-----------------------------------------------------------------------------
\* The graphics processor.

\* The heights of a region are copied into its layer, those of a submission in the
\* order of the changes.
TransferHeights(m, u, number) == [m EXCEPT ![u.layer] = [pos |-> u.pos, by |-> number]]

TransferAllHeights(s) ==
  FoldLeft(LAMBDA m, u: TransferHeights(m, u, s.number), image, s.uploads)

TransferFont(s) == IF s.upfont THEN fonts \union {s.font} ELSE fonts

\* Transfers wait for nothing but the transfers submitted before.
Transfer ==
  \E i \in DOMAIN queue:
    /\ ~queue[i].uploaded /\ \A j \in 1..i - 1: queue[j].uploaded
    /\ queue' = [queue EXCEPT ![i].uploaded = TRUE]
    /\ image' = TransferAllHeights(queue[i])
    /\ fonts' = TransferFont(queue[i])
    /\ UNCHANGED <<cpu, timeline>>

\* The rest waits for the timeline, then signals it and the frame's fence.
Finish ==
  /\ queue # <<>> /\ Head(queue).uploaded /\ timeline >= Head(queue).waits
  /\ timeline' = Head(queue).signals
  /\ frame' = [frame EXCEPT ![Head(queue).index].fence = TRUE]
  /\ queue' = Tail(queue)
  /\ UNCHANGED <<frameCount, pc, terrain, font, texture, swapchain, surface, depth, seen,
                 returned, lost, image, fonts>>

Next ==
  \/ ChangeTerrain \/ AskRecreate \/ RecreateSwapchain
  \/ BeginFrame \/ Render \/ Transfer \/ Finish

Spec == Init /\ [][Next]_vars

\* The event loop goes on as long as it is not blocked, the processor works.
FairSpec == Spec /\ WF_vars(RecreateSwapchain) /\ WF_vars(Render)
                 /\ WF_vars(Transfer) /\ WF_vars(Finish)

-----------------------------------------------------------------------------
Submitted == {queue[i] : i \in DOMAIN queue}

\* Those whose draws may have begun: a barrier after each transfer holds back the
\* draws of later submissions too.
Drawing == {queue[i] : i \in {i \in DOMAIN queue : \A j \in 1..i: queue[j].uploaded}}

\* Every variable is of its type, and the layers of the terrain image are each
\* unused or used by one region (TerrainContext::unused and used).
FramesTypeOK ==
  /\ frameCount \in 2..MaxFrames /\ timeline \in 2..MaxFrames
  /\ pc \in {"events", "frame", "recreate"}
  /\ \A i \in Frame:
       /\ frame[i].fence \in BOOLEAN /\ frame[i].staging \in 0..MaxFrames
       /\ frame[i].lastUpdate \in 0..MaxFrames /\ frame[i].setup \in 0..Extents
       /\ frame[i].set \in 0..MaxFrames /\ frame[i].font \in 0..MaxTexture
       /\ {frame[i].objects, frame[i].text, frame[i].pixels} \subseteq 0..MaxFrames
  /\ DOMAIN terrain.used \subseteq Regions
  /\ Range(terrain.unused) \union {terrain.used[p] : p \in DOMAIN terrain.used}
       = 0..Slots - 1
  /\ Len(terrain.unused) + Cardinality(DOMAIN terrain.used) = Slots
  /\ swapchain.id \in 1..MaxSwapchains /\ surface \in 1..swapchain.id

\* What a frame owns is not written while the processor may still read it: the
\* vertices, the objects, the text, the descriptor set and, while transfers are
\* to come, the staging buffers of a submission are as they were when it was
\* recorded, though the frame after the next is prepared in the same memory
\* (root/frame.rs, frame.rs).
BuffersLeftAlone ==
  \A s \in Submitted:
    /\ frame[s.index].vertices = s.vertices /\ frame[s.index].set = s.set
    /\ frame[s.index].objects = s.objects /\ s.text \in {None, frame[s.index].text}
    /\ ~s.uploaded /\ s.uploads # <<>> => frame[s.index].staging = s.number
    /\ ~s.uploaded /\ s.upfont => frame[s.index].pixels = s.number

\* The vertices of a submission are those of the regions the client holds, whichever
\* of the two frames the changes were drained in (TerrainFrame::prepare_render).
DrawsWhatIsHeld == \A s \in Submitted: s.vertices = s.used

\* Variables keep their types, the layers are shared out among the regions, and
\* every frame draws the regions the client holds, each from a layer that has
\* its heights: whichever of the two frames the change was drained in, and
\* though layers are used again.  A later frame may have overwritten the layer
\* of a region it removed (TerrainContext and TerrainFrame::prepare_render).
DrawsTheRegions ==
  /\ FramesTypeOK
  /\ DrawsWhatIsHeld
  /\ lost \/ \A s \in Drawing: \A p \in DOMAIN s.used:
       \/ image[s.used[p]].pos = p
       \/ /\ image[s.used[p]].by > s.number
          /\ p \notin DOMAIN terrain.used \/ terrain.used[p] # s.used[p]

\* What a frame is drawn with exists.  The cull set names the depth pyramid of
\* today, and the pyramid the depth view of the framebuffers of today, as long as
\* no swapchain gets an extent an earlier one had: both caches know a size, not
\* the image made for it (Cache, CullFrame::prepare_render,
\* GameContext::prepare_render).  And a font is not freed while a submission draws
\* text with it, and filled by then (EguiFrame::prepare, the Arc each frame keeps).
NamesWhatExists ==
  /\ returned \/ \A s \in Submitted: s.set = depth.id /\ s.view = surface
  /\ \A s \in Submitted: s.font \in {None, font} \union {frame[i].font : i \in Frame}
  /\ lost \/ \A s \in Drawing: s.font \in {None} \union fonts

\* A frame that was begun ends, and recreating the swapchain ends: the waits for
\* the fence, for the timeline and for an idle device are all answered, unless
\* acquire_next_image once failed after the fence was reset (root/frame.rs).
WaitsEnd == pc # "events" ~> (pc = "events" \/ lost)

=============================================================================
