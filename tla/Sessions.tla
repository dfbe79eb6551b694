------------------------------ MODULE Sessions ------------------------------
(***************************************************************************)
(* Connections, sessions and the service loop: src/crates/network and      *)
(* src/crates/server (server.rs, service.rs, request.rs, observer.rs).     *)
(*                                                                         *)
(* A client sends every request on a stream of its own; on the server each *)
(* stream is read by a task of its own, which puts the request into the    *)
(* inbox of the connection's session.  The session task forwards Connected,*)
(* then the requests, then Disconnected to the one queue of actions that   *)
(* the service handles one at a time.  Notifications go the other way,     *)
(* through one ordered channel for each user in game.  All queues are      *)
(* bounded, and whoever finds one full waits.                              *)
(*                                                                         *)
(* Module Players has the characters, Regions the queue of the regions and *)
(* Mirror what notifications say.  Here a user has one slot, the queue is  *)
(* the number of ticks it takes to empty it, a notification is Enter or    *)
(* another, and of a player's place only counts whether it has been        *)
(* written since the player entered.                                       *)
(***************************************************************************)
EXTENDS Integers, Sequences, FiniteSets, SequencesExt

CONSTANTS
  Connections,   \* connections clients may make
  Users,         \* uuids
  UserOf,        \* the uuid a connection's token names
  ActionBuffer, RequestBuffer, NotifyBuffer,   \* capacities of the queues
  MaxSent,       \* bound on the clicks of all connections, and, with one more, on
                 \* clicks and new places together
  MaxBacklog     \* bound on the ticks the regions' queue may take to empty

ASSUME SessionsAssumption ==
  /\ Connections \subseteq Nat /\ UserOf \in [Connections -> Users]
  /\ {ActionBuffer, RequestBuffer, NotifyBuffer} \subseteq Nat \ {0}
  /\ MaxSent \in Nat /\ MaxBacklog \in Nat \ {0}

VARIABLES
  link,       \* the QUIC connection: "none", "open" or "closed"
  streams,    \* requests on their way, each on its own stream
  inbox,      \* the session's message channel
  session,    \* the session task: "none", "hello", "serving", "bye", "over"
  client,     \* "away", "lobby", "game", "left", or "panicked"
  view,       \* the slot as the lobby shows it, "bound" or "unbound"; else "none"
  sent,       \* requests sent so far
  actions,    \* the queue of the service
  service,    \* "up", "stopped", or the unwrap that ended it
  known,      \* users initialize_player was called for
  slots,      \* of each user: "unbound", "bound", or "reused": bound to an index
              \* that was given back before, which DbVec::add leaves unmarked
  observer,   \* ServerWorld::observers: connection, and whether its body is there
  backlog,    \* ticks it takes to empty RegionManager::queue
  lingering,  \* open connections whose sender a region or an entry of the queue
              \* holds, though the user was taken out of the game
  astray,     \* users whose body or regions may not be what the server takes
              \* them for
  sending,    \* connections a tick still has a notification for
  channel,    \* notifications in the observer's channel
  stored,     \* users whose place, since they entered, is in the database's columns
  saved,      \* users whose place is in the last snapshot
  stop        \* Server::stop was called

clientVars == <<client, view, sent>>
netVars == <<link, streams, inbox, session>>
placeVars == <<stored, saved>>
regionVars == <<backlog, lingering, astray>>
worldVars == <<known, slots, observer, regionVars, placeVars>>
serviceVars == <<actions, service, sending, stop>>
sessionVars == <<clientVars, netVars, worldVars, serviceVars, channel>>

None == "none"
Slots == [kind |-> "slots"]          \* and WorldInfo
Creation == [kind |-> "create"]
Deletion == [kind |-> "delete"]
Replied == {Slots, Creation, Deletion}
Enter == [kind |-> "enter"]
UpdateSelf == [kind |-> "update"]
Disconnect == [kind |-> "disconnect"]

Connected(c) == [kind |-> "connected", conn |-> c]
Disconnected(c) == [kind |-> "disconnected", conn |-> c]
Request(c, r) == [kind |-> "request", conn |-> c, request |-> r]
Tick == [kind |-> "tick"]
Stop == [kind |-> "stop"]

Of(c) == {i \in DOMAIN actions : actions[i].kind \notin {"tick", "stop"} /\ actions[i].conn = c}
Waiting(kind) == \E i \in DOMAIN actions: actions[i].kind = kind

Room == Len(actions) < ActionBuffer

\* The service has yet to answer a request of c.
ToAnswer(c) == \E i \in Of(c), r \in Replied: actions[i] = Request(c, r)

\* A request of c waits for its reply.  When the connection is closed, or the
\* request is dropped, the reply fails.
Asked(c) ==
  /\ link[c] = "open"
  /\ ToAnswer(c) \/ (Range(streams[c]) \union Range(inbox[c])) \intersect Replied # {}

SessionsInit ==
  /\ link = [c \in Connections |-> None] /\ session = [c \in Connections |-> None]
  /\ streams = [c \in Connections |-> <<>>] /\ inbox = [c \in Connections |-> <<>>]
  /\ client = [c \in Connections |-> "away"]
  /\ view = [c \in Connections |-> None] /\ sent = 0 /\ channel = [c \in Connections |-> <<>>]
  /\ actions = <<>> /\ service = "up" /\ sending = {} /\ stop = FALSE
  /\ known = {} /\ observer = <<>>
  /\ slots \in [Users -> {"unbound", "bound", "reused"}]
  /\ backlog = 0 /\ lingering = {} /\ astray = {}
  /\ stored = Users /\ saved = Users

-----------------------------------------------------------------------------
\* Connections.

\* What a closed connection means at once: the client's replies fail, and the
\* task that sends the notifications.
Close(S) ==
  /\ link' = [c \in Connections |-> IF c \in S THEN "closed" ELSE link[c]]
  /\ channel' = [c \in Connections |-> IF c \in S THEN <<>> ELSE channel[c]]

\* accept: the token is authenticated, then a session is spawned and the client,
\* connected, asks for its slots.  (A connection refused leaves nothing.)
\* Connections are numbered in the order they are accepted.
Accept(c) ==
  /\ link[c] = None /\ \A d \in Connections: d < c => link[d] # None
  /\ link' = [link EXCEPT ![c] = "open"]
  /\ session' = [session EXCEPT ![c] = "hello"]
  /\ client' = [client EXCEPT ![c] = "lobby"]
  /\ streams' = [streams EXCEPT ![c] = <<Slots>>]
  /\ UNCHANGED <<inbox, view, sent, worldVars, serviceVars, channel>>

\* The connection is lost, or times out.
Break(c) ==
  /\ link[c] = "open" /\ Close({c})
  /\ UNCHANGED <<streams, inbox, session, clientVars, worldVars, serviceVars>>

\* The connection's user is in game, by this connection.
InGame(c) == UserOf[c] \in DOMAIN observer /\ observer[UserOf[c]].conn = c

\* The last Arc of the connection is dropped: by the session, the actions, and
\* the task that sends its notifications, which ends when its channel is empty and
\* all senders are gone: of the observer, of the regions, and of the entries that
\* wait to set up a region (region.rs:27, 382).
Release(c) ==
  /\ link[c] = "open" /\ session[c] = "over" /\ Of(c) = {} /\ channel[c] = <<>>
  /\ service = "up" => ~InGame(c) /\ c \notin lingering \union sending
  /\ Close({c})
  /\ UNCHANGED <<streams, inbox, session, clientVars, worldVars, serviceVars>>

-----------------------------------------------------------------------------
\* The client.

Send(c, r) ==
  /\ link[c] = "open" /\ streams' = [streams EXCEPT ![c] = Append(@, r)]
  /\ UNCHANGED <<link, inbox, session, worldVars, serviceVars, channel>>

\* A button of the lobby, which is there while the slot is shown so.  Nothing
\* prevents a second click before the reply, or the slot's other button.
Click(c, shown, r) ==
  /\ client[c] = "lobby" /\ view[c] = shown /\ sent < MaxSent /\ Send(c, r)
  /\ sent' = sent + 1 /\ UNCHANGED <<client, view>>

Bind(c) == Click(c, "unbound", Creation)
Unbind(c) == Click(c, "bound", Deletion)
Play(c) == Click(c, "bound", Enter)

\* GameContext::update: a new place is sent.
Walk(c) ==
  /\ client[c] = "game" /\ sent <= MaxSent /\ Send(c, UpdateSelf)
  /\ sent' = sent + 1 /\ UNCHANGED <<client, view>>

\* RootState::shutdown sends Disconnect; its receiver task goes on.
Quit(c) ==
  /\ client[c] \in {"lobby", "game"} /\ Send(c, Disconnect)
  /\ client' = [client EXCEPT ![c] = "left"] /\ view' = [view EXCEPT ![c] = None]
  /\ UNCHANGED sent

\* The next notification is applied: Enter, and then all others, which make a
\* client in the lobby panic.
Receive(c) ==
  /\ link[c] = "open" /\ channel[c] # <<>>
  /\ channel' = [channel EXCEPT ![c] = Tail(@)]
  /\ client' = [client EXCEPT ![c] =
       IF @ = "left" THEN @ ELSE IF Head(channel[c]) = "enter" THEN "game"
       ELSE IF @ = "game" THEN @ ELSE "panicked"]
  /\ view' = [view EXCEPT ![c] = None]
  /\ UNCHANGED <<sent, netVars, worldVars, serviceVars>>

-----------------------------------------------------------------------------
\* The tasks of a connection on the server.

Dropped(c, i) == [streams EXCEPT ![c] = RemoveAt(@, i)]

\* A stream's task has read its request and puts it into the inbox; streams may
\* overtake each other.  After the end of the session it fails.
Arrive(c) ==
  /\ \E i \in DOMAIN streams[c]:
       /\ streams' = Dropped(c, i)
       /\ \/ /\ session[c] \in {"hello", "serving", "bye"}
             /\ Len(inbox[c]) < RequestBuffer
             /\ inbox' = [inbox EXCEPT ![c] = Append(@, streams[c][i])]
          \/ session[c] = "over" /\ UNCHANGED inbox
  /\ UNCHANGED <<link, session, clientVars, worldVars, serviceVars, channel>>

\* The streams that have not arrived are lost with their connection.
Lose(c) ==
  /\ link[c] = "closed" /\ streams[c] # <<>> /\ streams' = [streams EXCEPT ![c] = <<>>]
  /\ UNCHANGED <<link, inbox, session, clientVars, worldVars, serviceVars, channel>>

\* The session sends an action and goes on, the rest of its messages waiting; or
\* it ends because the service did, and drops them.
Forward(c, action, rest, next) ==
  \/ /\ service = "up" /\ Room /\ actions' = Append(actions, action)
     /\ session' = [session EXCEPT ![c] = next]
     /\ inbox' = [inbox EXCEPT ![c] = rest]
     /\ UNCHANGED <<service, sending, stop>>
  \/ /\ service # "up" /\ session' = [session EXCEPT ![c] = "over"]
     /\ inbox' = [inbox EXCEPT ![c] = <<>>]
     /\ UNCHANGED serviceVars

\* Mutant: the session serves at once and says Connected with its Disconnected.
HelloLate(c) ==
  /\ session[c] = "hello" /\ session' = [session EXCEPT ![c] = "serving"]
  /\ UNCHANGED <<link, streams, inbox, clientVars, worldVars, serviceVars, channel>>

Hello(c) ==
  /\ session[c] = "hello" /\ Forward(c, Connected(c), inbox[c], "serving")
  /\ UNCHANGED <<link, streams, clientVars, worldVars, channel>>

\* One message of the inbox: Disconnect ends the loop, a request is forwarded.
Serve(c) ==
  /\ session[c] = "serving" /\ inbox[c] # <<>>
  /\ IF Head(inbox[c]) = Disconnect
     THEN /\ session' = [session EXCEPT ![c] = "bye"]
          /\ inbox' = [inbox EXCEPT ![c] = Tail(@)] /\ UNCHANGED serviceVars
     ELSE Forward(c, Request(c, Head(inbox[c])), Tail(inbox[c]), "serving")
  /\ UNCHANGED <<link, streams, clientVars, worldVars, channel>>

\* Mutant: a session whose connection broke says nothing.
HangupSilent(c) ==
  /\ session[c] = "serving" /\ inbox[c] = <<>>
  /\ link[c] = "closed" /\ streams[c] = <<>>
  /\ ~ToAnswer(c)
  /\ session' = [session EXCEPT ![c] = "over"]
  /\ UNCHANGED <<link, streams, inbox, clientVars, worldVars, serviceVars, channel>>

\* Mutant: a session with nothing to do ends.
HangupIdle(c) ==
  /\ session[c] = "serving" /\ inbox[c] = <<>> /\ streams[c] = <<>>
  /\ session' = [session EXCEPT ![c] = "bye"]
  /\ UNCHANGED <<link, streams, inbox, clientVars, worldVars, serviceVars, channel>>

\* All senders of the inbox are gone: the connection is closed, its streams are
\* read, and none waits for a reply.
Hangup(c) ==
  /\ session[c] = "serving" /\ inbox[c] = <<>>
  /\ link[c] = "closed" /\ streams[c] = <<>>
  /\ ~ToAnswer(c)
  /\ session' = [session EXCEPT ![c] = "bye"]
  /\ UNCHANGED <<link, streams, inbox, clientVars, worldVars, serviceVars, channel>>

\* Mutant: the inbox outlives the session, and the requests in it.
ByeKeeps(c) ==
  /\ session[c] = "bye" /\ service = "up" /\ Room
  /\ actions' = Append(actions, Disconnected(c))
  /\ session' = [session EXCEPT ![c] = "over"]
  /\ UNCHANGED <<link, streams, inbox, clientVars, worldVars, service, sending, stop, channel>>

\* Disconnected is sent, then the inbox is dropped with what is in it.
Bye(c) ==
  /\ session[c] = "bye" /\ Forward(c, Disconnected(c), <<>>, "over")
  /\ UNCHANGED <<link, streams, clientVars, worldVars, channel>>

-----------------------------------------------------------------------------
\* The service.

\* The tick task; the bound lets one tick wait in the queue.  (One that is handled
\* too late is skipped, as if the next were the first to come.)
TickDue ==
  /\ service = "up" /\ Room /\ ~Waiting("tick") /\ actions' = Append(actions, Tick)
  /\ UNCHANGED <<service, sending, stop, clientVars, netVars, worldVars, channel>>

\* Server::stop
AskStop ==
  /\ ~stop /\ stop' = TRUE
  /\ service = "up" /\ Room /\ actions' = Append(actions, Stop)
  /\ UNCHANGED <<service, sending, clientVars, netVars, worldVars, channel>>

\* The service ends, and with it the actions that wait, their replies, and the
\* regions with their senders.
End(why) ==
  /\ service' = why /\ actions' = <<>> /\ sending' = {}
  /\ backlog' = 0 /\ lingering' = {}
  /\ UNCHANGED <<link, channel, view, known, slots, observer, astray, stored>>

\* The service panics: nothing is written.
Panic(why) == End(why) /\ UNCHANGED saved

\* The service goes on with the next action.
Done == actions' = Tail(actions) /\ UNCHANGED <<service, sending>>
Quiet == UNCHANGED <<link, channel, view>>
Idle == UNCHANGED worldVars

\* initialize_player; the insertion of a new player panics when the first leaf of
\* the index is full (cursor.rs:189).
HandleConnected(c) ==
  \/ /\ Done /\ Quiet /\ known' = known \union {UserOf[c]}
     /\ UNCHANGED <<slots, observer, regionVars, placeVars>>
  \/ UserOf[c] \notin known /\ Panic("full")

\* Entries are added to the queue of the regions.
Queued == backlog' \in (IF backlog = 0 THEN 1 ELSE backlog) .. MaxBacklog

Without(u) == Restrict(observer, DOMAIN observer \ {u})

\* Disconnected: whoever is in game as this user is taken out, its place written
\* and the teardowns queued, which hold no sender but leave those of the regions.
\* There is a body to remove once a tick has set it up, unless another took it for
\* its own.
HandleDisconnected(c) ==
  LET u == UserOf[c] IN
  \/ u \notin DOMAIN observer /\ Done /\ Quiet /\ Idle
  \/ /\ u \in DOMAIN observer /\ observer[u].body
     /\ Done /\ Quiet /\ Queued
     /\ observer' = Without(u)
     /\ lingering' = lingering \union {d \in {observer[u].conn}: link[d] = "open"}
     /\ stored' = stored \union {u}
     /\ UNCHANGED <<known, slots, astray, saved>>
  \/ /\ u \in DOMAIN observer /\ (observer[u].body => astray \ {u} # {})
     /\ Panic("bodyless")

\* A request the service refuses: the user's connection is closed.
Refuse(c) == Done /\ Close({c}) /\ Idle /\ UNCHANGED view

\* The reply to c, and how its client shows the slot from then on.
Answer(c, slot) ==
  /\ Done
  /\ view' = [view EXCEPT ![c] = IF link[c] = "open" /\ client[c] = "lobby" THEN slot ELSE @]
  /\ UNCHANGED <<link, channel>>

HandleSlots(c, u) ==
  Idle /\ Answer(c, IF slots[u] = "unbound" THEN "unbound" ELSE "bound")

\* World::spawn_pc: DbVec::add takes an index that was given back, by anyone and in
\* any earlier run, if there is one.
HandleCreate(c, u) ==
  \/ slots[u] # "unbound" /\ Refuse(c)
  \/ /\ slots[u] = "unbound" /\ Answer(c, "bound")
     /\ \E bound \in {"bound", "reused"}: slots' = [slots EXCEPT ![u] = bound]
     /\ UNCHANGED <<known, observer, regionVars, placeVars>>

\* World::delete_pc: DbVec::free asserts that the index is marked as used.  Whoever
\* is in game as the character stays there.
HandleDelete(c, u) ==
  \/ slots[u] = "unbound" /\ Answer(c, "unbound") /\ Idle
  \/ /\ slots[u] = "bound" /\ Answer(c, "unbound")
     /\ slots' = [slots EXCEPT ![u] = "unbound"]
     /\ astray' = astray \union ({u} \intersect DOMAIN observer)
     /\ UNCHANGED <<known, observer, backlog, lingering, placeVars>>
  \/ slots[u] = "reused" /\ Panic("unmarked")

EnterMessages == <<"enter">>

\* The changes of an earlier session may still wait when the player's are queued,
\* and the character may have the index of another who has gone astray.
HandleEnter(c, u) ==
  \/ (u \in DOMAIN observer \/ slots[u] = "unbound") /\ Refuse(c)
  \/ /\ u \notin DOMAIN observer /\ slots[u] # "unbound" /\ Done /\ Queued
     /\ observer' = [v \in DOMAIN observer \union {u} |->
                      IF v = u THEN [conn |-> c, body |-> FALSE] ELSE observer[v]]
     /\ astray' = IF backlog > 0 \/ astray # {} THEN astray \union {u} ELSE astray
     /\ stored' = stored \ {u} /\ saved' = saved \ {u}
     /\ channel' = IF link[c] = "open" THEN [channel EXCEPT ![c] = EnterMessages] ELSE channel
     /\ UNCHANGED <<link, view, known, slots, lingering>>

\* GlobalObserver::update: the place may be in another region.
HandleUpdateSelf(c, u) ==
  \/ u \notin DOMAIN observer /\ Refuse(c)
  \/ u \in DOMAIN observer /\ Done /\ Quiet /\ Idle
  \/ /\ u \in DOMAIN observer /\ Done /\ Quiet
     /\ backlog' \in backlog .. MaxBacklog /\ astray' = astray \union {u}
     /\ UNCHANGED <<known, slots, observer, lingering, placeVars>>

\* handle_request, for a player that is found.  No client sends an illegal slot, or
\* Exit.
HandleKnown(c, u, r) ==
  \/ r = Slots /\ HandleSlots(c, u)
  \/ r = Creation /\ HandleCreate(c, u)
  \/ r = Deletion /\ HandleDelete(c, u)
  \/ r = Enter /\ HandleEnter(c, u)
  \/ r = UpdateSelf /\ HandleUpdateSelf(c, u)

\* player_id looks the player up by uuid, and unwraps.
HandleRequest(c, r) ==
  IF UserOf[c] \in known THEN HandleKnown(c, UserOf[c], r) ELSE Panic("unknown")

\* Mutant: no tick comes to the teardowns.
HandleTickSetup ==
  /\ actions' = Tail(actions) /\ Quiet
  /\ sending' = {c \in Connections: InGame(c)} \union lingering
  /\ backlog' = 0
  /\ observer' = [u \in DOMAIN observer |-> [observer[u] EXCEPT !.body = TRUE]]
  /\ UNCHANGED <<service, known, slots, lingering, astray, placeVars>>

\* A tick has something to tell every user in game, and those the regions still
\* know as observers; then it applies changes of the queue, at least one, until
\* its time is out: some bodies are set up, some senders dropped.  What meets
\* regions or a body that are not as expected, it unwraps (region.rs:315-391,
\* world.rs:236, 244, 255).
HandleTick ==
  \/ /\ actions' = Tail(actions) /\ Quiet
     /\ sending' = {c \in Connections: InGame(c)} \union lingering
     /\ backlog' \in 0 .. IF backlog = 0 THEN 0 ELSE backlog - 1
     /\ \E bodies \in SUBSET DOMAIN observer:
          /\ backlog' = 0 => bodies = DOMAIN observer
          /\ observer' = [u \in DOMAIN observer |->
                            [observer[u] EXCEPT !.body = @ \/ u \in bodies]]
     /\ lingering' \in IF backlog' = 0 THEN {{}} ELSE SUBSET lingering
     /\ UNCHANGED <<service, known, slots, astray, placeVars>>
  \/ astray # {} /\ Panic("astray")

\* Stop: the loop ends, and a snapshot is written.
HandleStop == End("stopped") /\ saved' = stored

Handle ==
  /\ service = "up" /\ sending = {} /\ actions # <<>>
  /\ LET a == Head(actions) IN
       \/ a.kind = "connected" /\ HandleConnected(a.conn)
       \/ a.kind = "disconnected" /\ HandleDisconnected(a.conn)
       \/ a.kind = "request" /\ HandleRequest(a.conn, a.request)
       \/ a = Tick /\ HandleTick
       \/ a = Stop /\ HandleStop
  /\ UNCHANGED <<client, sent, streams, inbox, session, stop>>

\* Mutant: a closed connection is waited for like a slow one.
CanNotifyOpen(c) == link[c] = "open" /\ Len(channel[c]) < NotifyBuffer

\* sender.send: there is room, or the connection is closed and it fails.
CanNotify(c) == link[c] = "closed" \/ Len(channel[c]) < NotifyBuffer

\* The tick sends its next notification, and waits while the channel is full.
Notify ==
  /\ service = "up"
  /\ \E c \in sending:
       /\ CanNotify(c) /\ sending' = sending \ {c}
       /\ channel' = IF link[c] = "open" THEN [channel EXCEPT ![c] = Append(@, "other")]
                     ELSE channel
  /\ UNCHANGED <<clientVars, netVars, worldVars, actions, service, stop>>

-----------------------------------------------------------------------------
\* What a connection's client does by itself, and everything else.
Tasks(c) ==
  \/ Receive(c) \/ Arrive(c) \/ Lose(c) \/ Release(c)
  \/ Hello(c) \/ Serve(c) \/ Hangup(c) \/ Bye(c)

SessionsNext ==
  \/ \E c \in Connections:
       Accept(c) \/ Break(c) \/ Bind(c) \/ Unbind(c) \/ Play(c) \/ Walk(c) \/ Quit(c)
         \/ Tasks(c)
  \/ TickDue \/ AskStop \/ Handle \/ Notify

SessionsSpec == SessionsInit /\ [][SessionsNext]_sessionVars

\* Tasks are scheduled, streams arrive as long as the connection holds, a client
\* reads its notifications; nobody has to connect, play or leave.  A session that
\* waits for room in the queue of actions gets its turn: the channel serves those
\* that wait in order.  Ticks come, and not all of them late.
SessionsFairness ==
  /\ \A c \in Connections:
       /\ WF_sessionVars(Receive(c)) /\ WF_sessionVars(Arrive(c) \/ Lose(c))
       /\ WF_sessionVars(Release(c))
       /\ SF_sessionVars(Hello(c) \/ Serve(c) \/ Hangup(c) \/ Bye(c))
  /\ WF_sessionVars(TickDue) /\ WF_sessionVars(Handle \/ Notify)

FairSessionsSpec == SessionsSpec /\ SessionsFairness

-----------------------------------------------------------------------------
Messages == Replied \union {Enter, UpdateSelf, Disconnect}

Actions ==
  {Tick, Stop} \union {Connected(c): c \in Connections} \union {Disconnected(c): c \in Connections}
    \union {Request(c, r): c \in Connections, r \in Messages \ {Disconnect}}

\* Every variable is of its type, and no queue holds more than its capacity.
SessionsTypeOK ==
  /\ link \in [Connections -> {None, "open", "closed"}]
  /\ session \in [Connections -> {None, "hello", "serving", "bye", "over"}]
  /\ client \in [Connections -> {"away", "lobby", "game", "left", "panicked"}]
  /\ streams \in [Connections -> Seq(Messages)] /\ inbox \in [Connections -> Seq(Messages)]
  /\ channel \in [Connections -> Seq({"enter", "other"})]
  /\ view \in [Connections -> {None, "bound", "unbound"}]
  /\ sending \subseteq Connections /\ lingering \subseteq Connections /\ sent \in 0..MaxSent + 1
  /\ service \in {"up", "stopped", "full", "unknown", "unmarked", "bodyless", "astray"}
  /\ stop \in BOOLEAN /\ backlog \in 0..MaxBacklog
  /\ slots \in [Users -> {"unbound", "bound", "reused"}]
  /\ {known, stored, saved, astray, DOMAIN observer} \subseteq SUBSET Users
  /\ \A u \in DOMAIN observer:
       observer[u] \in [conn: Connections, body: BOOLEAN] /\ UserOf[observer[u].conn] = u
  /\ actions \in Seq(Actions) /\ Len(actions) <= ActionBuffer
  /\ \A c \in Connections: Len(inbox[c]) <= RequestBuffer /\ Len(channel[c]) <= NotifyBuffer

\* Variables keep their types and queues their bounds, and messages come in an
\* order that both ends can handle.  The service never handles a request of a
\* user whose Connected it has not handled, so player_id finds the player
\* (request.rs:184), though the request came by another task and the queue of
\* actions was full in between.  And a client is told Enter before anything else,
\* so apply never meets a notification in the lobby (root/state.rs:511).
InOrder ==
  /\ SessionsTypeOK
  /\ service # "unknown"
  /\ \A c \in Connections: client[c] # "panicked"

\* Nobody stays in game when its session is gone: the Disconnected that takes it
\* out is sent or still to be sent, whether the client said so, its connection
\* broke or it was closed for an error (server.rs:260, service.rs:31).
NoGhosts ==
  service = "up" => \A u \in DOMAIN observer:
    LET c == observer[u].conn IN
    session[c] = "over" => \E i \in Of(c): actions[i] = Disconnected(c)

\* A client that plays is in game for the server too, until it leaves, its
\* connection is closed or the service ends.  A second connection of the same
\* user breaks this: it need only end (service.rs:31, request.rs:95).
InGameTogether ==
  \A c \in Connections:
    /\ client[c] = "game" /\ link[c] = "open" /\ service = "up"
    /\ \A d \in Connections \ {c}: UserOf[d] = UserOf[c] => link[d] = None
    => InGame(c)

\* A request with a reply is answered or fails: it is never forgotten in the
\* inbox, in the queue of actions or by a session that ended (incoming.rs:98).
AskAnswered == \A c \in Connections: Asked(c) ~> ~Asked(c)

\* Who sends Disconnect sees the connection closed: the session, the observer, its
\* channel and, once ticks have applied what the queue still holds, every region
\* lets go of it (server.rs:260, region.rs:384).  RootState::shutdown waits for this.
LeavingEnds == \A c \in Connections: client[c] = "left" ~> link[c] = "closed"

\* Server::stop returns, whatever clients do: a tick that waits for a slow one
\* goes on when it reads or its connection closes (observer.rs:48, region.rs:91).
StopEnds == stop ~> service # "up"
=============================================================================
