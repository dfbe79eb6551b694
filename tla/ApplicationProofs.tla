-------------------------- MODULE ApplicationProofs ---------------------------
(***************************************************************************)
(* Proofs about module Sessions, for any connections, users, capacities    *)
(* and number of requests: messages arrive in an order both ends handle,   *)
(* nobody stays in game when its session is gone, and a client in game is  *)
(* in game for the server. Then about module Application, which runs them, *)
(* for any user and bounds: leaving succeeds unless the connection or the  *)
(* service failed, and then the player's place is in the snapshot.         *)
(***************************************************************************)
EXTENDS Application, TLAPS, SequenceTheorems

-----------------------------------------------------------------------------
(* Sessions. *)

Concerns(i, c) ==
  actions[i] = Connected(c) \/ actions[i] = Disconnected(c) \/ \E r \in Messages: actions[i] = Request(c, r)

\* Whom a tick tells something, or may tell, though the user need not be in game.
Observing == lingering \cup sending

\* Nothing is known of a connection before it is made.
NotYet ==
  \A c \in Connections:
    /\ link[c] = None =>
         /\ session[c] = None /\ client[c] = "away" /\ inbox[c] = <<>> /\ channel[c] = <<>>
         /\ ~InGame(c) /\ c \notin Observing /\ \A i \in DOMAIN actions: ~Concerns(i, c)
    /\ client[c] = "away" => link[c] = None

\* A service that ended has nothing left to do.
NothingLeft == service # "up" => sending = {} /\ actions = <<>>

\* A session says Connected before anything else.
KnownFirst ==
  service = "up" =>
    /\ \A c \in Connections:
         session[c] = "serving" => UserOf[c] \in known \/ \E i \in DOMAIN actions: actions[i] = Connected(c)
    /\ \A c \in Connections, r \in Messages, i \in DOMAIN actions:
         actions[i] = Request(c, r) =>
           UserOf[c] \in known \/ \E j \in DOMAIN actions: j < i /\ actions[j] = Connected(c)

\* A session says Disconnected after anything else, and then it is over.
ByeLast ==
  \A c \in Connections, i \in DOMAIN actions:
    /\ actions[i] = Disconnected(c) => session[c] = "over"
    /\ \A r \in Messages: actions[i] = Request(c, r) /\ session[c] = "over" =>
         \E j \in DOMAIN actions: i < j /\ actions[j] = Disconnected(c)

\* As NoGhosts, of the action itself.
Taken ==
  service = "up" => \A c \in Connections:
    InGame(c) /\ session[c] = "over" => \E i \in DOMAIN actions: actions[i] = Disconnected(c)

\* Only a client that left says Disconnect, and while its connection is open and
\* the service up no other session ends.
SaidGoodbye ==
  \A c \in Connections:
    /\ \A i \in DOMAIN streams[c]: streams[c][i] = Disconnect => client[c] = "left"
    /\ \A i \in DOMAIN inbox[c]: inbox[c][i] = Disconnect => client[c] = "left"
    /\ service = "up" /\ link[c] = "open" /\ session[c] \in {"bye", "over"} => client[c] = "left"

\* Enter is the first a client in the lobby is told, and comes before a tick can
\* have something to say.
EnterFirst ==
  \A c \in Connections:
    link[c] = "open" /\ client[c] = "lobby" =>
      /\ channel[c] # <<>> => Head(channel[c]) = "enter"
      /\ InGame(c) \/ c \in Observing => channel[c] # <<>>

Alone(c) == \A d \in Connections \ {c}: UserOf[d] = UserOf[c] => link[d] = None

\* Whoever was told to enter, or may be told more, and has not left, is in game.
ToldInGame ==
  \A c \in Connections:
    /\ link[c] = "open" /\ service = "up" /\ Alone(c)
    /\ client[c] = "game" \/ (client[c] # "left" /\ (channel[c] # <<>> \/ c \in Observing))
    => InGame(c)

NeverWrong ==
  service # "unknown" /\ \A c \in Connections: client[c] # "panicked"

\* The inductive invariant.
SessionsInv ==
  /\ SessionsTypeOK /\ NeverWrong
  /\ NotYet /\ NothingLeft /\ KnownFirst /\ ByeLast /\ Taken
  /\ SaidGoodbye /\ EnterFirst /\ ToldInGame

-----------------------------------------------------------------------------
\* The actions in the queue.

\* An action tells its kind, its connection and its request.
LEMMA ActionsDiffer ==
  /\ \A c: Connected(c).kind = "connected" /\ Connected(c).conn = c
  /\ \A c: Disconnected(c).kind = "disconnected" /\ Disconnected(c).conn = c
  /\ \A c, r: Request(c, r).kind = "request" /\ Request(c, r).conn = c /\ Request(c, r).request = r
  /\ Tick.kind = "tick" /\ Stop.kind = "stop"
BY DEF Connected, Disconnected, Request, Tick, Stop

\* The messages are different.
LEMMA MessagesDiffer ==
  /\ Disconnect \notin {Slots, Creation, Deletion, Enter, UpdateSelf}
  /\ Enter \notin {Slots, Creation, Deletion, UpdateSelf}
<1>1. /\ Slots.kind = "slots" /\ Creation.kind = "create" /\ Deletion.kind = "delete"
      /\ Enter.kind = "enter" /\ UpdateSelf.kind = "update" /\ Disconnect.kind = "disconnect"
  BY DEF Slots, Creation, Deletion, Enter, UpdateSelf, Disconnect
<1> QED
  BY <1>1, SMT

\* An action is what its kind says.
LEMMA ActionOfKind ==
  ASSUME NEW a \in Actions
  PROVE  /\ a.kind = "connected" => a.conn \in Connections /\ a = Connected(a.conn)
         /\ a.kind = "disconnected" => a.conn \in Connections /\ a = Disconnected(a.conn)
         /\ a.kind = "request" => /\ a.conn \in Connections /\ a.request \in Messages \ {Disconnect}
                                 /\ a = Request(a.conn, a.request)
<1>1. CASE a \in {Tick, Stop}
  BY <1>1 DEF Tick, Stop
<1>2. CASE \E c \in Connections: a = Connected(c)
  BY <1>2 DEF Connected
<1>3. CASE \E c \in Connections: a = Disconnected(c)
  BY <1>3 DEF Disconnected
<1>4. CASE \E c \in Connections, r \in Messages \ {Disconnect}: a = Request(c, r)
  BY <1>4 DEF Request
<1> QED
  BY <1>1, <1>2, <1>3, <1>4 DEF Actions

\* A sent action comes after all others.
LEMMA ActionSent ==
  ASSUME SessionsTypeOK, NEW a \in Actions, Room, actions' = Append(actions, a)
  PROVE  /\ actions' \in Seq(Actions) /\ Len(actions') <= ActionBuffer
         /\ \A i \in DOMAIN actions: i \in DOMAIN actions' /\ actions'[i] = actions[i]
         /\ \E n \in DOMAIN actions':
              /\ actions'[n] = a /\ DOMAIN actions' = DOMAIN actions \cup {n}
              /\ \A i \in DOMAIN actions: i < n
<1>1. actions \in Seq(Actions) /\ Len(actions) < ActionBuffer /\ ActionBuffer \in Nat
  BY SessionsAssumption DEF SessionsTypeOK, Room
<1>2. /\ actions' \in Seq(Actions) /\ Len(actions') = Len(actions) + 1
      /\ \A i \in 1 .. Len(actions): actions'[i] = actions[i]
      /\ actions'[Len(actions) + 1] = a
  BY <1>1, AppendProperties
<1>3. /\ Len(actions) \in Nat /\ DOMAIN actions = 1 .. Len(actions)
      /\ DOMAIN actions' = 1 .. Len(actions')
  BY <1>1, <1>2, LenProperties
<1> QED
  BY <1>1, <1>2, <1>3, SMT

\* When the first action is handled, the others move up.
LEMMA ActionHandled ==
  ASSUME SessionsTypeOK, actions # <<>>, actions' = Tail(actions)
  PROVE  /\ Head(actions) \in Actions /\ 1 \in DOMAIN actions /\ Head(actions) = actions[1]
         /\ actions' \in Seq(Actions) /\ Len(actions') <= ActionBuffer
         /\ \A i \in DOMAIN actions': i \in Nat /\ i + 1 \in DOMAIN actions /\ actions'[i] = actions[i + 1]
         /\ \A i \in DOMAIN actions:
              /\ i \in Nat /\ i >= 1
              /\ i # 1 => i - 1 \in DOMAIN actions' /\ actions'[i - 1] = actions[i]
<1>1. actions \in Seq(Actions) /\ Len(actions) <= ActionBuffer /\ ActionBuffer \in Nat
  BY SessionsAssumption DEF SessionsTypeOK
<1>2. /\ actions' \in Seq(Actions) /\ Len(actions') = Len(actions) - 1
      /\ \A i \in 1 .. Len(actions'): actions'[i] = actions[i + 1]
      /\ Head(actions) \in Actions
  BY <1>1, HeadTailProperties
<1>3. /\ Len(actions) \in Nat /\ DOMAIN actions = 1 .. Len(actions)
      /\ DOMAIN actions' = 1 .. Len(actions') /\ Len(actions) # 0
  BY <1>1, <1>2, LenProperties, EmptySeq
<1>4. Head(actions) = actions[1]
  BY <1>1, SMT
<1> QED
  BY <1>1, <1>2, <1>3, <1>4, SMT

-----------------------------------------------------------------------------
\* What each part of the invariant reads.
LEMMA Unaffected ==
  /\ NeverWrong /\ UNCHANGED <<service, client>> => NeverWrong'
  /\ NotYet /\ UNCHANGED <<link, session, client, inbox, channel, observer, actions, lingering,
                           sending>> => NotYet'
  /\ NothingLeft /\ UNCHANGED <<sending, service, actions>> => NothingLeft'
  /\ KnownFirst /\ UNCHANGED <<service, session, known, actions>> => KnownFirst'
  /\ ByeLast /\ UNCHANGED <<session, actions>> => ByeLast'
  /\ Taken /\ UNCHANGED <<service, observer, session, actions>> => Taken'
  /\ SaidGoodbye /\ UNCHANGED <<service, link, session, client, streams, inbox>> => SaidGoodbye'
  /\ EnterFirst /\ UNCHANGED <<link, client, channel, observer, lingering, sending>> => EnterFirst'
  /\ ToldInGame /\ UNCHANGED <<link, service, client, channel, observer, lingering, sending>> => ToldInGame'
BY DEF NeverWrong, NotYet, Concerns, NothingLeft, KnownFirst, ByeLast, Taken, SaidGoodbye,
       EnterFirst, ToldInGame, InGame, Observing, Alone

\* What the variables that the parts relate are.
LEMMA Kinds ==
  ASSUME SessionsTypeOK
  PROVE  /\ link \in [Connections -> {"none", "open", "closed"}]
         /\ session \in [Connections -> {"none", "hello", "serving", "bye", "over"}]
         /\ client \in [Connections -> {"away", "lobby", "game", "left", "panicked"}]
         /\ DOMAIN streams = Connections /\ DOMAIN inbox = Connections
         /\ DOMAIN channel = Connections
BY DEF SessionsTypeOK, None

-----------------------------------------------------------------------------
\* Connections.

\* A connection made is new, so nothing is known of it: its client is in the lobby.
LEMMA AcceptInvariant ==
  ASSUME SessionsInv, NEW c \in Connections, Accept(c)
  PROVE  SessionsInv'
<1>1. /\ link[c] = "none" /\ link' = [link EXCEPT ![c] = "open"]
      /\ session' = [session EXCEPT ![c] = "hello"] /\ client' = [client EXCEPT ![c] = "lobby"]
      /\ streams' = [streams EXCEPT ![c] = <<Slots>>]
      /\ UNCHANGED <<inbox, view, sent, known, slots, observer, backlog, lingering, astray,
                     stored, saved, actions, service, sending, stop, channel>>
  BY DEF Accept, worldVars, regionVars, placeVars, serviceVars, None
<1>2. /\ link \in [Connections -> {"none", "open", "closed"}]
      /\ session \in [Connections -> {"none", "hello", "serving", "bye", "over"}]
      /\ client \in [Connections -> {"away", "lobby", "game", "left", "panicked"}]
      /\ DOMAIN streams = Connections
  BY Kinds DEF SessionsInv
<1>3. SessionsTypeOK'
  <2>1. <<Slots>> \in Seq(Messages)
    BY DEF Messages, Replied
  <2> QED
    BY <1>1, <2>1 DEF SessionsInv, SessionsTypeOK, None
<1>4. /\ inbox[c] = <<>> /\ channel[c] = <<>> /\ ~InGame(c) /\ c \notin Observing
      /\ Observing' = Observing /\ \A i \in DOMAIN actions: ~Concerns(i, c)
  BY <1>1 DEF SessionsInv, NotYet, Observing, None
<1>5. NeverWrong'
  BY <1>1, <1>2 DEF SessionsInv, NeverWrong
<1>6. NotYet'
  BY <1>1, <1>2 DEF SessionsInv, NotYet, InGame, Observing, Concerns, None
<1>7. KnownFirst'
  BY <1>1, <1>2 DEF SessionsInv, KnownFirst
<1>8. ByeLast'
  BY <1>1, <1>2, <1>4 DEF SessionsInv, ByeLast, Concerns
<1>9. Taken'
  BY <1>1, <1>2 DEF SessionsInv, Taken, InGame, Observing
<1>10. SaidGoodbye'
  BY <1>1, <1>2, <1>4, MessagesDiffer DEF SessionsInv, SaidGoodbye
<1>11. EnterFirst'
  BY <1>1, <1>2, <1>4 DEF SessionsInv, EnterFirst, InGame
<1>12. ToldInGame'
  BY <1>1, <1>2, <1>4 DEF SessionsInv, ToldInGame, InGame, Alone, None
<1> QED
  BY <1>1, <1>3, <1>5, <1>6, <1>7, <1>8, <1>9, <1>10, <1>11, <1>12, Unaffected DEF SessionsInv

\* A connection that closes leaves less to relate.
LEMMA CloseInvariant ==
  ASSUME SessionsInv, NEW c \in Connections, link[c] = "open", Close({c}),
         UNCHANGED <<streams, inbox, session, clientVars, worldVars, serviceVars>>
  PROVE  SessionsInv'
<1>1. /\ link' = [d \in Connections |-> IF d = c THEN "closed" ELSE link[d]]
      /\ channel' = [d \in Connections |-> IF d = c THEN <<>> ELSE channel[d]]
      /\ UNCHANGED <<streams, inbox, session, client, view, sent, known, slots, observer,
                     backlog, lingering, astray, stored, saved, actions, service, sending, stop>>
  BY DEF Close, clientVars, worldVars, regionVars, placeVars, serviceVars
<1>2. link \in [Connections -> {"none", "open", "closed"}]
  BY Kinds DEF SessionsInv
<1>3. SessionsTypeOK'
  BY <1>1, SessionsAssumption DEF SessionsInv, SessionsTypeOK, None
<1>4. NotYet'
  BY <1>1, <1>2 DEF SessionsInv, NotYet, InGame, Observing, Concerns, None
<1>5. SaidGoodbye'
  BY <1>1, <1>2 DEF SessionsInv, SaidGoodbye
<1>6. EnterFirst'
  BY <1>1, <1>2 DEF SessionsInv, EnterFirst, InGame, Observing
<1>7. ToldInGame'
  BY <1>1, <1>2 DEF SessionsInv, ToldInGame, InGame, Observing, Alone, None
<1> QED
  BY <1>1, <1>3, <1>4, <1>5, <1>6, <1>7, Unaffected DEF SessionsInv

-----------------------------------------------------------------------------
\* The client.

\* A request goes on its way; only who leaves says Disconnect.
LEMMA SendInvariant ==
  ASSUME SessionsInv, NEW c \in Connections, NEW r \in Messages, link[c] = "open",
         streams' = [streams EXCEPT ![c] = Append(@, r)],
         client' = IF r = Disconnect THEN [client EXCEPT ![c] = "left"] ELSE client,
         view' = view \/ view' = [view EXCEPT ![c] = None], sent' \in 0 .. MaxSent + 1,
         UNCHANGED <<link, inbox, session, worldVars, serviceVars, channel>>
  PROVE  SessionsInv'
<1>1. UNCHANGED <<link, inbox, session, known, slots, observer, backlog, lingering, astray,
                  stored, saved, actions, service, sending, stop, channel>>
  BY DEF worldVars, regionVars, placeVars, serviceVars
<1>2. /\ client \in [Connections -> {"away", "lobby", "game", "left", "panicked"}]
      /\ streams \in [Connections -> Seq(Messages)]
  BY Kinds DEF SessionsInv, SessionsTypeOK
<1>3. client' = [client EXCEPT ![c] = "left"] \/ (client' = client /\ r # Disconnect)
  OBVIOUS
<1>4. SessionsTypeOK'
  <2>1. Append(streams[c], r) \in Seq(Messages)
    BY <1>2, AppendProperties
  <2> QED
    BY <1>1, <1>2, <1>3, <2>1 DEF SessionsInv, SessionsTypeOK
<1>5. NeverWrong'
  BY <1>1, <1>2, <1>3 DEF SessionsInv, NeverWrong
<1>6. NotYet'
  BY <1>1, <1>2, <1>3 DEF SessionsInv, NotYet, InGame, Observing, Concerns, None
<1>7. SaidGoodbye'
  <2>1. /\ Len(streams[c]) \in Nat /\ DOMAIN streams[c] = 1 .. Len(streams[c])
        /\ DOMAIN streams'[c] = 1 .. Len(streams[c]) + 1
        /\ \A i \in 1 .. Len(streams[c]): streams'[c][i] = streams[c][i]
        /\ streams'[c][Len(streams[c]) + 1] = r
    BY <1>2, AppendProperties, LenProperties
  <2>2. \A i \in DOMAIN streams'[c]: streams'[c][i] = Disconnect => client'[c] = "left"
    BY <1>2, <1>3, <2>1 DEF SessionsInv, SaidGoodbye
  <2> QED
    BY <1>1, <1>2, <1>3, <2>2 DEF SessionsInv, SaidGoodbye
<1>8. EnterFirst'
  BY <1>1, <1>2, <1>3 DEF SessionsInv, EnterFirst, InGame, Observing
<1>9. ToldInGame'
  BY <1>1, <1>2, <1>3 DEF SessionsInv, ToldInGame, InGame, Observing, Alone
<1> QED
  BY <1>1, <1>4, <1>5, <1>6, <1>7, <1>8, <1>9, Unaffected DEF SessionsInv

\* What is told in the lobby is Enter, so the client does not panic.
LEMMA ReceiveInvariant ==
  ASSUME SessionsInv, NEW c \in Connections, Receive(c)
  PROVE  SessionsInv'
<1> DEFINE next ==
      IF client[c] = "left" THEN "left" ELSE IF Head(channel[c]) = "enter" THEN "game"
      ELSE IF client[c] = "game" THEN "game" ELSE "panicked"
<1>1. /\ link[c] = "open" /\ channel[c] # <<>>
      /\ channel' = [channel EXCEPT ![c] = Tail(@)] /\ client' = [client EXCEPT ![c] = next]
      /\ view' = [view EXCEPT ![c] = None]
      /\ UNCHANGED <<sent, link, streams, inbox, session, known, slots, observer, backlog,
                     lingering, astray, stored, saved, actions, service, sending, stop>>
  BY Kinds DEF Receive, netVars, worldVars, regionVars, placeVars, serviceVars, SessionsInv
<1>2. /\ client \in [Connections -> {"away", "lobby", "game", "left", "panicked"}]
      /\ channel \in [Connections -> Seq({"enter", "other"})]
  BY Kinds DEF SessionsInv, SessionsTypeOK
<1>3. client[c] \in {"lobby", "game", "left"} /\ (client[c] = "lobby" => Head(channel[c]) = "enter")
  BY <1>1, <1>2 DEF SessionsInv, NotYet, NeverWrong, EnterFirst, None
<1>4. next \in {"game", "left"} /\ (next = "left" <=> client[c] = "left")
  BY <1>3
<1> HIDE DEF next
<1>5. SessionsTypeOK'
  <2>1. Tail(channel[c]) \in Seq({"enter", "other"}) /\ Len(Tail(channel[c])) = Len(channel[c]) - 1
        /\ Len(channel[c]) \in Nat
    BY <1>1, <1>2, HeadTailProperties, LenProperties
  <2>2. \A d \in Connections: Len(channel'[d]) <= NotifyBuffer
    BY <1>1, <1>2, <2>1, SessionsAssumption DEF SessionsInv, SessionsTypeOK
  <2> QED
    BY <1>1, <1>2, <1>4, <2>1, <2>2 DEF SessionsInv, SessionsTypeOK, None
<1>6. NeverWrong'
  BY <1>1, <1>2, <1>4 DEF SessionsInv, NeverWrong
<1>7. NotYet'
  BY <1>1, <1>2, <1>4 DEF SessionsInv, NotYet, InGame, Observing, Concerns, None
<1>8. SaidGoodbye'
  BY <1>1, <1>2, <1>4 DEF SessionsInv, SaidGoodbye
<1>9. EnterFirst'
  BY <1>1, <1>2, <1>4 DEF SessionsInv, EnterFirst, InGame, Observing
<1>10. ToldInGame'
  BY <1>1, <1>2, <1>3, <1>4 DEF SessionsInv, ToldInGame, InGame, Observing, Alone
<1> QED
  BY <1>1, <1>5, <1>6, <1>7, <1>8, <1>9, <1>10, Unaffected DEF SessionsInv

-----------------------------------------------------------------------------
\* The tasks of a connection.

\* What remains of a sequence was in it.
LEMMA Removed ==
  ASSUME NEW S, NEW s \in Seq(S), NEW i \in DOMAIN s
  PROVE  /\ RemoveAt(s, i) \in Seq(S)
         /\ \A j \in DOMAIN RemoveAt(s, i): \E k \in DOMAIN s: RemoveAt(s, i)[j] = s[k]
<1> DEFINE t == SubSeq(s, 1, i - 1)
           u == SubSeq(s, i + 1, Len(s))
<1>1. Len(s) \in Nat /\ DOMAIN s = 1 .. Len(s) /\ i \in 1 .. Len(s)
  BY LenProperties
<1>2. /\ t \in Seq(S) /\ Len(t) = i - 1
      /\ \A j \in 1 .. i - 1: t[j] = s[j]
  <2>1. \A j \in 1 .. i - 1: s[j] \in S
    BY <1>1, ElementOfSeq
  <2> QED
    BY <1>1, <2>1, SubSeqProperties
<1>3. /\ u \in Seq(S) /\ Len(u) = Len(s) - i
      /\ \A j \in 1 .. Len(s) - i: u[j] = s[j + i]
  <2>1. \A j \in i + 1 .. Len(s): s[j] \in S
    BY <1>1, ElementOfSeq
  <2> QED
    BY <1>1, <2>1, SubSeqProperties
<1>4. RemoveAt(s, i) = t \o u
  BY DEF RemoveAt
<1> HIDE DEF t, u
<1>5. /\ t \o u \in Seq(S) /\ Len(t \o u) = Len(s) - 1
      /\ \A j \in 1 .. Len(s) - 1: (t \o u)[j] = IF j < i THEN s[j] ELSE s[j + 1]
  <2>1. /\ t \o u \in Seq(S) /\ Len(t \o u) = Len(t) + Len(u)
        /\ \A j \in 1 .. Len(t) + Len(u):
             (t \o u)[j] = IF j <= Len(t) THEN t[j] ELSE u[j - Len(t)]
    BY <1>2, <1>3, ConcatProperties
  <2>2. Len(t) + Len(u) = Len(s) - 1
    BY <1>1, <1>2, <1>3
  <2>3. ASSUME NEW j \in 1 .. Len(s) - 1 PROVE (t \o u)[j] = IF j < i THEN s[j] ELSE s[j + 1]
    <3>1. CASE j < i
      BY <1>1, <1>2, <2>1, <2>2, <3>1
    <3>2. CASE ~(j < i)
      <4>1. j - Len(t) \in 1 .. Len(s) - i /\ (j - Len(t)) + i = j + 1
        BY <1>1, <1>2, <3>2
      <4>2. (t \o u)[j] = u[j - Len(t)]
        BY <1>1, <1>2, <2>1, <2>2, <3>2
      <4>3. u[j - Len(t)] = s[(j - Len(t)) + i]
        BY <1>3, <4>1
      <4> QED
        BY <3>2, <4>1, <4>2, <4>3
    <3> QED
      BY <3>1, <3>2
  <2> QED
    BY <2>1, <2>2, <2>3
<1>6. DOMAIN (t \o u) = 1 .. Len(s) - 1
  BY <1>5, LenProperties
<1>7. ASSUME NEW j \in 1 .. Len(s) - 1 PROVE \E k \in DOMAIN s: (t \o u)[j] = s[k]
  <2>1. j \in DOMAIN s /\ j + 1 \in DOMAIN s
    BY <1>1
  <2> QED
    BY <1>5, <2>1
<1> QED
  BY <1>4, <1>5, <1>6, <1>7

\* A request that arrives was on its way: the inbox says no more Disconnect than
\* the streams did.
LEMMA ArriveInvariant ==
  ASSUME SessionsInv, NEW c \in Connections, Arrive(c)
  PROVE  SessionsInv'
<1>1. PICK i \in DOMAIN streams[c]:
        /\ streams' = Dropped(c, i)
        /\ \/ /\ session[c] \in {"hello", "serving", "bye"}
              /\ Len(inbox[c]) < RequestBuffer
              /\ inbox' = [inbox EXCEPT ![c] = Append(@, streams[c][i])]
           \/ /\ session[c] = "over" /\ UNCHANGED inbox
  BY DEF Arrive
<1>2. UNCHANGED <<link, session, client, view, sent, known, slots, observer, backlog, lingering,
                  astray, stored, saved, actions, service, sending, stop, channel>>
  BY DEF Arrive, clientVars, worldVars, regionVars, placeVars, serviceVars
<1>3. /\ streams \in [Connections -> Seq(Messages)] /\ inbox \in [Connections -> Seq(Messages)]
      /\ streams' = [streams EXCEPT ![c] = RemoveAt(@, i)]
  BY <1>1 DEF SessionsInv, SessionsTypeOK, Dropped
<1>4. /\ RemoveAt(streams[c], i) \in Seq(Messages)
      /\ \A j \in DOMAIN RemoveAt(streams[c], i):
           \E k \in DOMAIN streams[c]: RemoveAt(streams[c], i)[j] = streams[c][k]
  BY <1>3, Removed
<1>5. streams[c][i] \in Messages
  BY <1>3, ElementOfSeq, LenProperties
<1>6. /\ inbox'[c] \in Seq(Messages) /\ Len(inbox'[c]) <= RequestBuffer
      /\ \A j \in DOMAIN inbox'[c]:
           (j \in DOMAIN inbox[c] /\ inbox'[c][j] = inbox[c][j]) \/ inbox'[c][j] = streams[c][i]
  <2>1. CASE Len(inbox[c]) < RequestBuffer /\ inbox' = [inbox EXCEPT ![c] = Append(@, streams[c][i])]
    <3>1. inbox[c] \in Seq(Messages) /\ inbox'[c] = Append(inbox[c], streams[c][i])
      BY <1>3, <2>1
    <3>2. /\ inbox'[c] \in Seq(Messages)
          /\ Len(inbox'[c]) = Len(inbox[c]) + 1 /\ Len(inbox[c]) \in Nat
          /\ DOMAIN inbox'[c] = 1 .. Len(inbox[c]) + 1 /\ DOMAIN inbox[c] = 1 .. Len(inbox[c])
          /\ \A j \in 1 .. Len(inbox[c]): inbox'[c][j] = inbox[c][j]
          /\ inbox'[c][Len(inbox[c]) + 1] = streams[c][i]
      BY <1>5, <3>1, AppendProperties, LenProperties
    <3> QED
      BY <2>1, <3>2, SessionsAssumption
  <2>2. CASE inbox' = inbox
    BY <1>3, <2>2 DEF SessionsInv, SessionsTypeOK
  <2> QED
    BY <1>1, <2>1, <2>2
<1>7. /\ inbox' = [inbox EXCEPT ![c] = inbox'[c]] /\ (session[c] = "none" => inbox' = inbox)
  BY <1>1, <1>3 DEF SessionsInv, SessionsTypeOK
<1>8. SessionsTypeOK'
  <2>1. streams' \in [Connections -> Seq(Messages)] /\ inbox' \in [Connections -> Seq(Messages)]
    BY <1>3, <1>4, <1>6, <1>7
  <2>2. \A d \in Connections: Len(inbox'[d]) <= RequestBuffer
    BY <1>3, <1>6, <1>7 DEF SessionsInv, SessionsTypeOK
  <2> QED
    BY <1>2, <1>7, <2>1, <2>2 DEF SessionsInv, SessionsTypeOK
<1>9. NotYet'
  BY <1>2, <1>3, <1>7 DEF SessionsInv, NotYet, InGame, Observing, Concerns, None
<1>10. SaidGoodbye'
  BY <1>2, <1>3, <1>4, <1>6, <1>7 DEF SessionsInv, SaidGoodbye
<1> QED
  BY <1>2, <1>8, <1>9, <1>10, Unaffected DEF SessionsInv

\* The streams of a closed connection are lost.
LEMMA LoseInvariant ==
  ASSUME SessionsInv, NEW c \in Connections, Lose(c)
  PROVE  SessionsInv'
<1>1. /\ streams' = [streams EXCEPT ![c] = <<>>]
      /\ UNCHANGED <<link, inbox, session, client, view, sent, known, slots, observer, backlog,
                     lingering, astray, stored, saved, actions, service, sending, stop, channel>>
  BY DEF Lose, clientVars, worldVars, regionVars, placeVars, serviceVars
<1>2. SessionsTypeOK'
  BY <1>1 DEF SessionsInv, SessionsTypeOK
<1>3. SaidGoodbye'
  BY <1>1, Kinds DEF SessionsInv, SaidGoodbye
<1> QED
  BY <1>1, <1>2, <1>3, Unaffected DEF SessionsInv

\* A session that ends the loop, because the client said Disconnect or all senders
\* are gone: then the client left, or its connection is closed.
LEMMA LoopEndsInvariant ==
  ASSUME SessionsInv, NEW c \in Connections, session[c] = "serving",
         session' = [session EXCEPT ![c] = "bye"],
         link[c] = "open" => client[c] = "left",
         inbox' = inbox \/ (inbox[c] # <<>> /\ inbox' = [inbox EXCEPT ![c] = Tail(@)]),
         UNCHANGED <<link, streams, clientVars, worldVars, serviceVars, channel>>
  PROVE  SessionsInv'
<1>1. UNCHANGED <<link, streams, client, view, sent, known, slots, observer, backlog, lingering,
                  astray, stored, saved, actions, service, sending, stop, channel>>
  BY DEF clientVars, worldVars, regionVars, placeVars, serviceVars
<1>2. /\ session \in [Connections -> {"none", "hello", "serving", "bye", "over"}]
      /\ inbox \in [Connections -> Seq(Messages)]
  BY Kinds DEF SessionsInv, SessionsTypeOK
<1>3. /\ inbox' \in [Connections -> Seq(Messages)]
      /\ \A d \in Connections: Len(inbox'[d]) <= RequestBuffer
      /\ \A d \in Connections: \A j \in DOMAIN inbox'[d]: \E k \in DOMAIN inbox[d]: inbox'[d][j] = inbox[d][k]
      /\ \A d \in Connections: d # c => inbox'[d] = inbox[d]
  <2>1. CASE inbox' = inbox
    BY <1>2, <2>1 DEF SessionsInv, SessionsTypeOK
  <2>2. CASE inbox[c] # <<>> /\ inbox' = [inbox EXCEPT ![c] = Tail(@)]
    <3>1. /\ inbox[c] \in Seq(Messages)
          /\ inbox'[c] = Tail(inbox[c]) /\ \A d \in Connections: d # c => inbox'[d] = inbox[d]
      BY <1>2, <2>2
    <3>2. /\ Tail(inbox[c]) \in Seq(Messages) /\ Len(Tail(inbox[c])) = Len(inbox[c]) - 1
          /\ DOMAIN Tail(inbox[c]) = 1 .. Len(Tail(inbox[c]))
          /\ Len(inbox[c]) \in Nat /\ DOMAIN inbox[c] = 1 .. Len(inbox[c])
          /\ \A j \in 1 .. Len(Tail(inbox[c])): Tail(inbox[c])[j] = inbox[c][j + 1]
      BY <2>2, <3>1, HeadTailProperties, LenProperties
    <3>3. \A j \in DOMAIN Tail(inbox[c]): \E k \in DOMAIN inbox[c]: Tail(inbox[c])[j] = inbox[c][k]
      <4>1. \A j \in DOMAIN Tail(inbox[c]): j + 1 \in DOMAIN inbox[c]
        BY <3>2
      <4> QED
        BY <3>2, <4>1
    <3>4. \A d \in Connections: Len(inbox[d]) <= RequestBuffer
      BY DEF SessionsInv, SessionsTypeOK
    <3>5. Len(Tail(inbox[c])) <= RequestBuffer
      BY <3>2, <3>4, SessionsAssumption
    <3>6. inbox' \in [Connections -> Seq(Messages)]
      BY <1>2, <2>2, <3>2
    <3>7. ASSUME NEW d \in Connections
          PROVE  /\ Len(inbox'[d]) <= RequestBuffer
                 /\ \A j \in DOMAIN inbox'[d]: \E k \in DOMAIN inbox[d]: inbox'[d][j] = inbox[d][k]
      <4>1. CASE d = c
        <5>1. inbox'[d] = Tail(inbox[c]) /\ inbox[d] = inbox[c]
          BY <3>1, <4>1
        <5> QED
          BY ONLY <5>1, <3>3, <3>5
      <4>2. CASE d # c
        <5>1. inbox'[d] = inbox[d]
          BY <3>1, <4>2
        <5> QED
          BY ONLY <5>1, <3>4
      <4> QED
        BY <4>1, <4>2
    <3> QED
      BY <3>1, <3>6, <3>7
  <2> QED
    BY <2>1, <2>2
<1>4. SessionsTypeOK'
  BY <1>1, <1>2, <1>3 DEF SessionsInv, SessionsTypeOK, None
<1>5. NotYet'
  BY <1>1, <1>2, <1>3 DEF SessionsInv, NotYet, InGame, Observing, Concerns, None
<1>6. KnownFirst'
  BY <1>1, <1>2 DEF SessionsInv, KnownFirst
<1>7. ByeLast'
  BY <1>1, <1>2 DEF SessionsInv, ByeLast
<1>8. Taken'
  BY <1>1, <1>2 DEF SessionsInv, Taken, InGame, Observing
<1>9. SaidGoodbye'
  BY <1>1, <1>2, <1>3 DEF SessionsInv, SaidGoodbye
<1> QED
  BY <1>1, <1>4, <1>5, <1>6, <1>7, <1>8, <1>9, Unaffected DEF SessionsInv

\* A session that finds the service gone ends; nothing relates to it any more.
LEMMA DeserterInvariant ==
  ASSUME SessionsInv, NEW c \in Connections, service # "up", session[c] # "none",
         session' = [session EXCEPT ![c] = "over"], inbox' = [inbox EXCEPT ![c] = <<>>],
         UNCHANGED <<link, streams, clientVars, worldVars, serviceVars, channel>>
  PROVE  SessionsInv'
<1>1. UNCHANGED <<link, streams, client, view, sent, known, slots, observer, backlog, lingering,
                  astray, stored, saved, actions, service, sending, stop, channel>>
  BY DEF clientVars, worldVars, regionVars, placeVars, serviceVars
<1>2. /\ session \in [Connections -> {"none", "hello", "serving", "bye", "over"}]
      /\ DOMAIN inbox = Connections /\ actions = <<>> /\ DOMAIN actions = {}
  BY Kinds DEF SessionsInv, NothingLeft
<1>3. SessionsTypeOK'
  BY <1>1, <1>2, SessionsAssumption DEF SessionsInv, SessionsTypeOK, None
<1>4. NotYet'
  BY <1>1, <1>2 DEF SessionsInv, NotYet, InGame, Observing, Concerns, None
<1>5. KnownFirst' /\ Taken'
  BY <1>1 DEF SessionsInv, KnownFirst, Taken
<1>6. ByeLast'
  BY <1>1, <1>2 DEF ByeLast
<1>7. SaidGoodbye'
  BY <1>1, <1>2 DEF SessionsInv, SaidGoodbye
<1> QED
  BY <1>1, <1>3, <1>4, <1>5, <1>6, <1>7, Unaffected DEF SessionsInv

\* A session's first action is Connected.
LEMMA HelloInvariant ==
  ASSUME SessionsInv, NEW c \in Connections, Hello(c)
  PROVE  SessionsInv'
<1>1. session[c] = "hello" /\ Forward(c, Connected(c), inbox[c], "serving")
      /\ UNCHANGED <<link, streams, client, view, sent, known, slots, observer, backlog,
                     lingering, astray, stored, saved, channel>>
  BY DEF Hello, clientVars, worldVars, regionVars, placeVars
<1>2. /\ session \in [Connections -> {"none", "hello", "serving", "bye", "over"}]
      /\ inbox \in [Connections -> Seq(Messages)]
  BY Kinds DEF SessionsInv, SessionsTypeOK
<1>3. CASE service # "up"
  BY <1>1, <1>3, DeserterInvariant DEF Forward, SessionsInv, SessionsTypeOK,
     clientVars, worldVars, regionVars, placeVars
<1>4. CASE service = "up"
  <2>1. /\ Room /\ actions' = Append(actions, Connected(c))
        /\ session' = [session EXCEPT ![c] = "serving"] /\ inbox' = inbox
        /\ UNCHANGED <<service, sending, stop>>
    BY <1>1, <1>2, <1>4 DEF Forward
  <2>2. Connected(c) \in Actions
    BY DEF Actions
  <2>3. /\ actions' \in Seq(Actions) /\ Len(actions') <= ActionBuffer
        /\ \A i \in DOMAIN actions: i \in DOMAIN actions' /\ actions'[i] = actions[i]
    BY <2>1, <2>2, ActionSent DEF SessionsInv
  <2>4. PICK n \in DOMAIN actions':
          /\ actions'[n] = Connected(c) /\ DOMAIN actions' = DOMAIN actions \cup {n}
          /\ \A i \in DOMAIN actions: i < n
    BY <2>1, <2>2, ActionSent DEF SessionsInv
  <2>5. SessionsTypeOK'
    BY <1>1, <1>2, <2>1, <2>3 DEF SessionsInv, SessionsTypeOK, None
  <2>6. NotYet'
    <3>1. ASSUME NEW d \in Connections, NEW i \in DOMAIN actions', Concerns(i, d)'
          PROVE  d = c \/ (i \in DOMAIN actions /\ Concerns(i, d))
      BY <2>3, <2>4, <3>1, ActionsDiffer DEF Concerns
    <3> QED
      BY <1>1, <1>2, <2>1, <3>1 DEF SessionsInv, NotYet, InGame, Observing, None
  <2>7. NothingLeft'
    BY <1>1, <1>4, <2>1 DEF SessionsInv, NothingLeft, InGame, Observing
  <2>8. KnownFirst'
    <3>1. ASSUME NEW d \in Connections, session'[d] = "serving"
          PROVE  UserOf[d] \in known \/ \E i \in DOMAIN actions': actions'[i] = Connected(d)
      BY <1>2, <1>4, <2>1, <2>3, <2>4, <3>1 DEF SessionsInv, KnownFirst
    <3>2. ASSUME NEW d \in Connections, NEW r \in Messages, NEW i \in DOMAIN actions',
                 actions'[i] = Request(d, r)
          PROVE  UserOf[d] \in known \/ \E j \in DOMAIN actions': j < i /\ actions'[j] = Connected(d)
      BY <1>4, <2>3, <2>4, <3>2, ActionsDiffer DEF SessionsInv, KnownFirst
    <3> QED
      BY <1>1, <3>1, <3>2 DEF KnownFirst
  <2>9. ByeLast'
    <3>1. \A i \in DOMAIN actions': i # n => i \in DOMAIN actions /\ actions'[i] = actions[i]
      BY <2>3, <2>4
    <3>2. \A d \in Connections: session'[d] = IF d = c THEN "serving" ELSE session[d]
      BY <1>2, <2>1
    <3>3. ASSUME NEW d \in Connections, NEW i \in DOMAIN actions', actions'[i] = Disconnected(d)
          PROVE  session'[d] = "over"
      <4>1. i # n
        BY <2>4, <3>3, ActionsDiffer
      <4>2. session[d] = "over"
        BY <3>1, <3>3, <4>1 DEF SessionsInv, ByeLast
      <4> QED
        BY <1>1, <3>2, <4>2
    <3>4. ASSUME NEW d \in Connections, NEW r \in Messages, NEW i \in DOMAIN actions',
                 actions'[i] = Request(d, r), session'[d] = "over"
          PROVE  \E j \in DOMAIN actions': i < j /\ actions'[j] = Disconnected(d)
      <4>1. i # n /\ session[d] = "over"
        BY <2>4, <3>2, <3>4, ActionsDiffer
      <4>2. \E j \in DOMAIN actions: i < j /\ actions[j] = Disconnected(d)
        BY <3>1, <3>4, <4>1 DEF SessionsInv, ByeLast
      <4> QED
        BY <2>3, <4>2
    <3> QED
      BY <3>3, <3>4 DEF ByeLast
  <2>10. Taken'
    BY <1>1, <1>2, <1>4, <2>1, <2>3, <2>4 DEF SessionsInv, Taken, InGame, Observing
  <2>11. SaidGoodbye'
    BY <1>1, <1>2, <2>1 DEF SessionsInv, SaidGoodbye
  <2> QED
    BY <1>1, <2>1, <2>5, <2>6, <2>7, <2>8, <2>9, <2>10, <2>11, Unaffected DEF SessionsInv
<1> QED
  BY <1>3, <1>4

\* A session's last action is Disconnected.
LEMMA ByeInvariant ==
  ASSUME SessionsInv, NEW c \in Connections, Bye(c)
  PROVE  SessionsInv'
<1>1. session[c] = "bye" /\ Forward(c, Disconnected(c), <<>>, "over")
      /\ UNCHANGED <<link, streams, client, view, sent, known, slots, observer, backlog,
                     lingering, astray, stored, saved, channel>>
  BY DEF Bye, clientVars, worldVars, regionVars, placeVars
<1>2. /\ session \in [Connections -> {"none", "hello", "serving", "bye", "over"}]
      /\ DOMAIN inbox = Connections
  BY Kinds DEF SessionsInv
<1>3. CASE service # "up"
  BY <1>1, <1>3, DeserterInvariant DEF Forward, SessionsInv, SessionsTypeOK,
     clientVars, worldVars, regionVars, placeVars
<1>4. CASE service = "up"
  <2>1. /\ Room /\ actions' = Append(actions, Disconnected(c))
        /\ session' = [session EXCEPT ![c] = "over"]
        /\ inbox' = [inbox EXCEPT ![c] = <<>>]
        /\ UNCHANGED <<service, sending, stop>>
    BY <1>1, <1>2, <1>4 DEF Forward, SessionsInv, SessionsTypeOK
  <2>2. Disconnected(c) \in Actions
    BY DEF Actions
  <2>3. /\ actions' \in Seq(Actions) /\ Len(actions') <= ActionBuffer
        /\ \A i \in DOMAIN actions: i \in DOMAIN actions' /\ actions'[i] = actions[i]
    BY <2>1, <2>2, ActionSent DEF SessionsInv
  <2>4. PICK n \in DOMAIN actions':
          /\ actions'[n] = Disconnected(c) /\ DOMAIN actions' = DOMAIN actions \cup {n}
          /\ \A i \in DOMAIN actions: i < n
    BY <2>1, <2>2, ActionSent DEF SessionsInv
  <2>5. SessionsTypeOK'
    <3>1. session' \in [Connections -> {None, "hello", "serving", "bye", "over"}]
      BY <2>1 DEF SessionsInv, SessionsTypeOK
    <3>2. inbox' \in [Connections -> Seq(Messages)]
      BY <2>1 DEF SessionsInv, SessionsTypeOK
    <3>3. \A d \in Connections: Len(inbox'[d]) <= RequestBuffer
      <4>1. RequestBuffer \in Nat /\ \A d \in Connections: Len(inbox[d]) <= RequestBuffer
        BY SessionsAssumption DEF SessionsInv, SessionsTypeOK
      <4>2. \A d \in Connections: inbox'[d] = IF d = c THEN <<>> ELSE inbox[d]
        BY <2>1 DEF SessionsInv, SessionsTypeOK
      <4> QED
        BY <4>1, <4>2
    <3> QED
      BY <1>1, <1>2, <2>1, <2>3, <3>1, <3>2, <3>3 DEF SessionsInv, SessionsTypeOK
  <2>6. NotYet'
    BY <1>1, <1>2, <2>1, <2>3, <2>4, ActionsDiffer DEF SessionsInv, NotYet, InGame, Observing, Concerns, None
  <2>7. NothingLeft'
    BY <1>1, <1>4, <2>1 DEF SessionsInv, NothingLeft, InGame, Observing
  <2>8. KnownFirst'
    BY <1>1, <1>2, <1>4, <2>1, <2>3, <2>4, ActionsDiffer DEF SessionsInv, KnownFirst
  <2>9. ByeLast'
    BY <1>1, <1>2, <2>1, <2>3, <2>4, ActionsDiffer DEF SessionsInv, ByeLast
  <2>10. Taken'
    BY <1>1, <1>2, <1>4, <2>1, <2>3, <2>4 DEF SessionsInv, Taken, InGame, Observing
  <2>11. SaidGoodbye'
    BY <1>1, <1>2, <2>1 DEF SessionsInv, SaidGoodbye
  <2> QED
    BY <1>1, <2>1, <2>5, <2>6, <2>7, <2>8, <2>9, <2>10, <2>11, Unaffected DEF SessionsInv
<1> QED
  BY <1>3, <1>4

\* A session that serves has said Connected, and has not said Disconnected.
LEMMA ServeInvariant ==
  ASSUME SessionsInv, NEW c \in Connections, Serve(c)
  PROVE  SessionsInv'
<1>1. session[c] = "serving" /\ inbox[c] # <<>>
      /\ UNCHANGED <<link, streams, client, view, sent, known, slots, observer, backlog,
                     lingering, astray, stored, saved, channel>>
  BY DEF Serve, clientVars, worldVars, regionVars, placeVars
<1>2. /\ session \in [Connections -> {"none", "hello", "serving", "bye", "over"}]
      /\ inbox \in [Connections -> Seq(Messages)]
  BY Kinds DEF SessionsInv, SessionsTypeOK
<1>3. /\ Head(inbox[c]) \in Messages /\ Head(inbox[c]) = inbox[c][1] /\ 1 \in DOMAIN inbox[c]
      /\ Tail(inbox[c]) \in Seq(Messages) /\ Len(Tail(inbox[c])) = Len(inbox[c]) - 1
      /\ Len(inbox[c]) \in Nat
      /\ \A i \in DOMAIN Tail(inbox[c]): i + 1 \in DOMAIN inbox[c] /\ Tail(inbox[c])[i] = inbox[c][i + 1]
  <2>1. inbox[c] \in Seq(Messages)
    BY <1>2
  <2>2. /\ Head(inbox[c]) \in Messages
        /\ Tail(inbox[c]) \in Seq(Messages) /\ Len(Tail(inbox[c])) = Len(inbox[c]) - 1
        /\ \A i \in 1 .. Len(Tail(inbox[c])): Tail(inbox[c])[i] = inbox[c][i + 1]
    BY <1>1, <2>1, HeadTailProperties
  <2>3. /\ Len(inbox[c]) \in Nat /\ Len(inbox[c]) # 0 /\ DOMAIN inbox[c] = 1 .. Len(inbox[c])
        /\ DOMAIN Tail(inbox[c]) = 1 .. Len(Tail(inbox[c]))
    BY <1>1, <2>1, <2>2, LenProperties, EmptySeq
  <2>4. Head(inbox[c]) = inbox[c][1]
    BY <2>1
  <2> QED
    BY <2>2, <2>3, <2>4
<1>4. CASE Head(inbox[c]) = Disconnect
  <2>1. client[c] = "left"
    BY <1>3, <1>4 DEF SessionsInv, SaidGoodbye
  <2> QED
    BY <1>1, <1>4, <2>1, LoopEndsInvariant DEF Serve
<1>5. CASE Head(inbox[c]) # Disconnect /\ service # "up"
  BY <1>1, <1>2, <1>5, DeserterInvariant DEF Serve, Forward, SessionsInv,
     SessionsTypeOK, clientVars, worldVars, regionVars, placeVars
<1>6. CASE Head(inbox[c]) # Disconnect /\ service = "up"
  <2> DEFINE r == Head(inbox[c])
  <2>1. /\ Room /\ actions' = Append(actions, Request(c, r))
        /\ session' = session
        /\ inbox' = [inbox EXCEPT ![c] = Tail(inbox[c])]
        /\ UNCHANGED <<service, sending, stop>>
    <3>1. Forward(c, Request(c, r), Tail(inbox[c]), "serving")
      BY <1>6 DEF Serve
    <3> QED
      BY <1>1, <1>2, <1>6, <3>1 DEF Forward
  <2>2. Request(c, r) \in Actions /\ r \in Messages
    BY <1>3, <1>6 DEF Actions
  <2> HIDE DEF r
  <2>3. /\ actions' \in Seq(Actions) /\ Len(actions') <= ActionBuffer
        /\ \A i \in DOMAIN actions: i \in DOMAIN actions' /\ actions'[i] = actions[i]
    BY <2>1, <2>2, ActionSent DEF SessionsInv
  <2>4. PICK n \in DOMAIN actions':
          /\ actions'[n] = Request(c, r) /\ DOMAIN actions' = DOMAIN actions \cup {n}
          /\ \A i \in DOMAIN actions: i < n
    BY <2>1, <2>2, ActionSent DEF SessionsInv
  <2>5. SessionsTypeOK'
    <3>1. \A d \in Connections: Len(inbox[d]) <= RequestBuffer
      BY DEF SessionsInv, SessionsTypeOK
    <3>2. \A d \in Connections: Len(inbox'[d]) <= RequestBuffer
      BY <1>2, <1>3, <2>1, <3>1, SessionsAssumption
    <3>3. inbox' \in [Connections -> Seq(Messages)]
      BY <1>2, <1>3, <2>1
    <3> QED
      BY <1>1, <2>1, <2>3, <3>2, <3>3 DEF SessionsInv, SessionsTypeOK
  <2>6. NotYet'
    <3>1. ASSUME NEW d \in Connections, NEW i \in DOMAIN actions', Concerns(i, d)'
          PROVE  d = c \/ (i \in DOMAIN actions /\ Concerns(i, d))
      BY <2>2, <2>3, <2>4, <3>1, ActionsDiffer DEF Concerns
    <3> QED
      BY <1>1, <1>2, <2>1, <3>1 DEF SessionsInv, NotYet, InGame, Observing, None
  <2>7. NothingLeft'
    BY <1>1, <1>6, <2>1 DEF SessionsInv, NothingLeft, InGame, Observing
  <2>8. KnownFirst'
    <3>1. ASSUME NEW d \in Connections, session'[d] = "serving"
          PROVE  UserOf[d] \in known \/ \E i \in DOMAIN actions': actions'[i] = Connected(d)
      BY <1>6, <2>1, <2>3, <3>1 DEF SessionsInv, KnownFirst
    <3>2. ASSUME NEW d \in Connections, NEW q \in Messages, NEW i \in DOMAIN actions',
                 actions'[i] = Request(d, q)
          PROVE  UserOf[d] \in known \/ \E j \in DOMAIN actions': j < i /\ actions'[j] = Connected(d)
      <4>1. CASE i \in DOMAIN actions
        BY <1>6, <2>3, <3>2, <4>1 DEF SessionsInv, KnownFirst
      <4>2. CASE i = n
        <5>1. d = c
          <6>1. Request(c, r) = Request(d, q)
            BY <2>4, <3>2, <4>2
          <6> QED
            BY <6>1, ActionsDiffer
        <5>2. UserOf[c] \in known \/ \E j \in DOMAIN actions: actions[j] = Connected(c)
          BY <1>1, <1>6 DEF SessionsInv, KnownFirst
        <5> QED
          BY <2>3, <2>4, <4>2, <5>1, <5>2
      <4> QED
        BY <2>4, <4>1, <4>2
    <3> QED
      BY <1>1, <3>1, <3>2 DEF KnownFirst
  <2>9. ByeLast'
    <3>1. ASSUME NEW d \in Connections, NEW i \in DOMAIN actions', actions'[i] = Disconnected(d)
          PROVE  session'[d] = "over"
      BY <2>1, <2>3, <2>4, <3>1, ActionsDiffer DEF SessionsInv, ByeLast
    <3>2. ASSUME NEW d \in Connections, NEW q \in Messages, NEW i \in DOMAIN actions',
                 actions'[i] = Request(d, q), session'[d] = "over"
          PROVE  \E j \in DOMAIN actions': i < j /\ actions'[j] = Disconnected(d)
      <4>1. i # n
        BY <1>1, <2>1, <2>4, <3>2, ActionsDiffer
      <4> QED
        BY <2>1, <2>3, <2>4, <3>2, <4>1 DEF SessionsInv, ByeLast
    <3> QED
      BY <3>1, <3>2 DEF ByeLast
  <2>10. Taken'
    BY <1>1, <1>2, <1>6, <2>1, <2>3, <2>4 DEF SessionsInv, Taken, InGame, Observing
  <2>11. SaidGoodbye'
    BY <1>1, <1>2, <1>3, <2>1 DEF SessionsInv, SaidGoodbye
  <2> QED
    BY <1>1, <2>1, <2>5, <2>6, <2>7, <2>8, <2>9, <2>10, <2>11, Unaffected DEF SessionsInv
<1> QED
  BY <1>4, <1>5, <1>6

\* A session of which all senders are gone has a closed connection.
LEMMA HangupInvariant ==
  ASSUME SessionsInv, NEW c \in Connections, Hangup(c)
  PROVE  SessionsInv'
BY LoopEndsInvariant DEF Hangup

\* Tick and Stop are nobody's.
LEMMA CallInvariant ==
  ASSUME SessionsInv, NEW a \in {Tick, Stop}, service = "up", Room, actions' = Append(actions, a),
         stop' \in BOOLEAN, UNCHANGED <<service, sending, clientVars, netVars, worldVars, channel>>
  PROVE  SessionsInv'
<1>1. UNCHANGED <<link, streams, inbox, session, client, view, sent, known, slots, observer,
                  backlog, lingering, astray, stored, saved, service, sending, channel>>
  BY DEF clientVars, netVars, worldVars, regionVars, placeVars
<1>2. a \in Actions
  BY DEF Actions
<1>3. /\ actions' \in Seq(Actions) /\ Len(actions') <= ActionBuffer
      /\ \A i \in DOMAIN actions: i \in DOMAIN actions' /\ actions'[i] = actions[i]
  BY <1>2, ActionSent DEF SessionsInv
<1>4. PICK n \in DOMAIN actions':
        /\ actions'[n] = a /\ DOMAIN actions' = DOMAIN actions \cup {n}
        /\ \A i \in DOMAIN actions: i < n
  BY <1>2, ActionSent DEF SessionsInv
<1>5. SessionsTypeOK'
  BY <1>1, <1>3 DEF SessionsInv, SessionsTypeOK
<1>6. NotYet'
  BY <1>1, <1>3, <1>4, ActionsDiffer DEF SessionsInv, NotYet, InGame, Observing, Concerns, None
<1>7. NothingLeft'
  BY <1>1 DEF SessionsInv, NothingLeft, InGame, Observing
<1>8. KnownFirst'
  BY <1>1, <1>3, <1>4, ActionsDiffer DEF SessionsInv, KnownFirst
<1>9. ByeLast'
  BY <1>1, <1>3, <1>4, ActionsDiffer DEF SessionsInv, ByeLast
<1>10. Taken'
  BY <1>1, <1>3, <1>4 DEF SessionsInv, Taken, InGame, Observing
<1> QED
  BY <1>1, <1>5, <1>6, <1>7, <1>8, <1>9, <1>10, Unaffected DEF SessionsInv

-----------------------------------------------------------------------------
\* The service.

\* An ended service has nothing left to do, and nothing relates to it.
LEMMA EndInvariant ==
  ASSUME SessionsInv, NEW why \in {"stopped"} \cup Panics, End(why), saved' \subseteq Users,
         UNCHANGED <<client, sent, streams, inbox, session, stop>>
  PROVE  SessionsInv'
<1>1. /\ service' = why /\ actions' = <<>> /\ sending' = {} /\ backlog' = 0 /\ lingering' = {}
      /\ UNCHANGED <<link, streams, inbox, session, client, view, sent, known, slots, observer,
                     astray, stored, stop, channel>>
  BY DEF End, clientVars
<1>2. why \in {"stopped", "full", "unmarked", "bodyless", "astray"}
  BY DEF Panics
<1>3. SessionsTypeOK'
  BY <1>1, <1>2, SessionsAssumption DEF SessionsInv, SessionsTypeOK
<1>4. NeverWrong' /\ service' # "up"
  BY <1>1, <1>2 DEF SessionsInv, NeverWrong
<1>5. NotYet'
  BY <1>1 DEF SessionsInv, NotYet, InGame, Observing, Concerns
<1>6. NothingLeft' /\ KnownFirst' /\ ByeLast' /\ Taken' /\ ToldInGame'
  BY <1>1, <1>4 DEF NothingLeft, KnownFirst, ByeLast, Taken, ToldInGame
<1>7. SaidGoodbye'
  BY <1>1, <1>4 DEF SessionsInv, SaidGoodbye
<1>8. EnterFirst'
  BY <1>1 DEF SessionsInv, EnterFirst, InGame, Observing
<1> QED
  BY <1>3, <1>4, <1>5, <1>6, <1>7, <1>8 DEF SessionsInv

\* The service goes on with the next action: what is said of those that wait is
\* still true, unless it relies on the first.
LEMMA NextAction ==
  ASSUME SessionsInv, actions # <<>>, actions' = Tail(actions), service = "up",
         UNCHANGED <<service, session>>
  PROVE  /\ actions' \in Seq(Actions) /\ Len(actions') <= ActionBuffer
         /\ \A c \in Connections: (\E i \in DOMAIN actions': Concerns(i, c)') =>
                                     \E i \in DOMAIN actions: Concerns(i, c)
         /\ ByeLast'
         /\ known \subseteq known'
              /\ (\A c \in Connections: Head(actions) = Connected(c) => UserOf[c] \in known')
            => KnownFirst'
         /\ \A c \in Connections:
              (\E i \in DOMAIN actions: actions[i] = Disconnected(c)) =>
                 Head(actions) = Disconnected(c) \/ \E i \in DOMAIN actions': actions'[i] = Disconnected(c)
<1>1. actions' = Tail(actions) /\ service' = "up" /\ session' = session
  OBVIOUS
<1>2. /\ 1 \in DOMAIN actions /\ Head(actions) = actions[1]
      /\ actions' \in Seq(Actions) /\ Len(actions') <= ActionBuffer
      /\ \A i \in DOMAIN actions': i \in Nat /\ i + 1 \in DOMAIN actions /\ actions'[i] = actions[i + 1]
  BY <1>1, ActionHandled DEF SessionsInv
<1>3. \A i \in DOMAIN actions:
        /\ i \in Nat /\ i >= 1
        /\ i # 1 => i - 1 \in DOMAIN actions' /\ actions'[i - 1] = actions[i]
  BY <1>1, ActionHandled DEF SessionsInv
<1>4. ASSUME NEW c \in Connections, NEW i \in DOMAIN actions', Concerns(i, c)'
      PROVE  Concerns(i + 1, c)
  BY <1>2, <1>4 DEF Concerns
<1>5. ByeLast'
  <2>1. ASSUME NEW c \in Connections, NEW i \in DOMAIN actions', actions'[i] = Disconnected(c)
        PROVE  session[c] = "over"
    BY <1>2, <2>1 DEF SessionsInv, ByeLast
  <2>2. ASSUME NEW c \in Connections, NEW r \in Messages, NEW i \in DOMAIN actions',
               actions'[i] = Request(c, r), session[c] = "over"
        PROVE  \E j \in DOMAIN actions': i < j /\ actions'[j] = Disconnected(c)
    <3>1. PICK j \in DOMAIN actions: i + 1 < j /\ actions[j] = Disconnected(c)
      BY <1>2, <2>2 DEF SessionsInv, ByeLast
    <3>2. i \in Nat /\ j \in Nat /\ j # 1 /\ i < j - 1
      BY <1>2, <1>3, <3>1
    <3>3. j - 1 \in DOMAIN actions' /\ actions'[j - 1] = actions[j]
      BY <1>3, <3>2
    <3> QED
      BY <3>1, <3>2, <3>3
  <2> QED
    BY <1>1, <2>1, <2>2 DEF ByeLast
<1>6. ASSUME known \subseteq known', \A c \in Connections: Head(actions) = Connected(c) => UserOf[c] \in known'
      PROVE  KnownFirst'
  <2>1. ASSUME NEW c \in Connections, NEW j \in DOMAIN actions, actions[j] = Connected(c)
        PROVE  UserOf[c] \in known' \/ (j - 1 \in DOMAIN actions' /\ actions'[j - 1] = Connected(c))
    <3>1. CASE j = 1
      BY <1>2, <1>6, <2>1, <3>1
    <3>2. CASE j # 1
      BY <1>3, <2>1, <3>2
    <3> QED
      BY <3>1, <3>2
  <2>2. ASSUME NEW c \in Connections, session[c] = "serving"
        PROVE  UserOf[c] \in known' \/ \E i \in DOMAIN actions': actions'[i] = Connected(c)
    BY <1>6, <2>1, <2>2 DEF SessionsInv, KnownFirst
  <2>3. ASSUME NEW c \in Connections, NEW r \in Messages, NEW i \in DOMAIN actions',
               actions'[i] = Request(c, r)
        PROVE  UserOf[c] \in known' \/ \E j \in DOMAIN actions': j < i /\ actions'[j] = Connected(c)
    <3>1. UserOf[c] \in known \/ \E j \in DOMAIN actions: j < i + 1 /\ actions[j] = Connected(c)
      BY <1>2, <2>3 DEF SessionsInv, KnownFirst
    <3>2. CASE UserOf[c] \in known
      BY <1>6, <3>2
    <3>3. ASSUME NEW j \in DOMAIN actions, j < i + 1, actions[j] = Connected(c)
          PROVE  UserOf[c] \in known' \/ \E k \in DOMAIN actions': k < i /\ actions'[k] = Connected(c)
      <4>1. i \in Nat /\ j \in Nat
        BY <1>2, <1>3
      <4> QED
        BY <2>1, <3>3, <4>1, SMT
    <3> QED
      BY <3>1, <3>2, <3>3
  <2> QED
    BY <1>1, <2>2, <2>3 DEF KnownFirst
<1>7. ASSUME NEW c \in Connections, NEW i \in DOMAIN actions, actions[i] = Disconnected(c)
      PROVE  Head(actions) = Disconnected(c) \/ \E j \in DOMAIN actions': actions'[j] = Disconnected(c)
  <2>1. CASE i = 1
    BY <1>2, <1>7, <2>1
  <2>2. CASE i # 1
    BY <1>3, <1>7, <2>2
  <2> QED
    BY <2>1, <2>2
<1> QED
  BY <1>2, <1>4, <1>5, <1>6, <1>7

\* What most of the invariant needs of a handled action: who enters asked to, who
\* is disconnected is out, and a connection that closes was there.
Handled ==
  /\ service = "up" /\ sending = {} /\ actions # <<>> /\ actions' = Tail(actions)
  /\ UNCHANGED <<client, sent, streams, inbox, session, service, stop>>
  /\ known \subseteq known'
  /\ \A c \in Connections:
       /\ Head(actions) = Connected(c) => UserOf[c] \in known'
       /\ Head(actions) = Disconnected(c) => ~InGame(c)'
       /\ InGame(c)' => InGame(c) \/ \E r \in Messages: Head(actions) = Request(c, r)
       /\ link'[c] = link[c] \/ (link'[c] = "closed" /\ \E i \in DOMAIN actions: Concerns(i, c))
       /\ link[c] = "none" => channel'[c] = channel[c]
  /\ \A c \in Observing': InGame(c) \/ c \in Observing

\* Then only the types, and what the clients are told, remain to be shown.
LEMMA HandledInvariant ==
  ASSUME SessionsInv, Handled
  PROVE  /\ NeverWrong' /\ NotYet' /\ NothingLeft' /\ KnownFirst' /\ ByeLast' /\ Taken' /\ SaidGoodbye'
         /\ actions' \in Seq(Actions) /\ Len(actions') <= ActionBuffer
<1>1. /\ service = "up" /\ service' = "up" /\ actions # <<>> /\ actions' = Tail(actions)
      /\ client' = client /\ session' = session /\ streams' = streams /\ inbox' = inbox
  BY DEF Handled
<1>2. /\ actions' \in Seq(Actions) /\ Len(actions') <= ActionBuffer
      /\ \A c \in Connections: (\E i \in DOMAIN actions': Concerns(i, c)') =>
                                  \E i \in DOMAIN actions: Concerns(i, c)
      /\ ByeLast'
      /\ \A c \in Connections:
           (\E i \in DOMAIN actions: actions[i] = Disconnected(c)) =>
              Head(actions) = Disconnected(c) \/ \E i \in DOMAIN actions': actions'[i] = Disconnected(c)
  BY <1>1, NextAction
<1>3. KnownFirst'
  BY <1>1, NextAction DEF Handled
<1>4. ASSUME NEW c \in Connections, NEW r \in Messages, Head(actions) = Request(c, r)
      PROVE  /\ \E i \in DOMAIN actions: Concerns(i, c)
             /\ session[c] = "over" => \E i \in DOMAIN actions: actions[i] = Disconnected(c)
  <2>1. 1 \in DOMAIN actions /\ actions[1] = Request(c, r)
    BY <1>1, <1>4, ActionHandled DEF SessionsInv
  <2> QED
    BY <2>1 DEF Concerns, SessionsInv, ByeLast
<1>5. NeverWrong'
  BY <1>1 DEF SessionsInv, NeverWrong
<1>6. NotYet'
  <2>1. ASSUME NEW c \in Connections, link'[c] = "none"
        PROVE  /\ session[c] = "none" /\ client[c] = "away" /\ inbox[c] = <<>> /\ channel'[c] = <<>>
               /\ ~InGame(c)' /\ c \notin Observing' /\ \A i \in DOMAIN actions': ~Concerns(i, c)'
    <3>1. link[c] = "none"
      BY <2>1 DEF Handled
    <3>2. /\ session[c] = "none" /\ client[c] = "away" /\ inbox[c] = <<>> /\ channel[c] = <<>>
          /\ ~InGame(c) /\ c \notin Observing /\ \A i \in DOMAIN actions: ~Concerns(i, c)
      BY <3>1 DEF SessionsInv, NotYet, None
    <3> QED
      BY <1>2, <1>4, <3>1, <3>2 DEF Handled
  <2>2. ASSUME NEW c \in Connections, client[c] = "away" PROVE link'[c] = "none"
    BY <2>2 DEF SessionsInv, NotYet, None, Handled
  <2> QED
    BY <1>1, <2>1, <2>2 DEF NotYet, None
<1>7. NothingLeft'
  BY <1>1 DEF Handled, NothingLeft
<1>8. Taken'
  <2>1. ASSUME NEW c \in Connections, InGame(c)', session[c] = "over"
        PROVE  \E i \in DOMAIN actions: actions[i] = Disconnected(c)
    BY <1>1, <1>4, <2>1 DEF SessionsInv, Taken, Handled
  <2> QED
    BY <1>1, <1>2, <2>1 DEF Taken, Handled
<1>9. SaidGoodbye'
  BY <1>1 DEF SessionsInv, SaidGoodbye, Handled
<1> QED
  BY <1>2, <1>3, <1>5, <1>6, <1>7, <1>8, <1>9

\* The first action concerns the connection it names.
LEMMA FirstAction ==
  ASSUME SessionsInv, actions # <<>>
  PROVE  /\ Head(actions) \in Actions /\ Head(actions) = actions[1] /\ 1 \in DOMAIN actions
         /\ \A i \in DOMAIN actions: i \in Nat /\ i >= 1
         /\ \A c \in Connections, r \in Messages:
              Head(actions) \in {Connected(c), Disconnected(c), Request(c, r)} =>
                \E i \in DOMAIN actions: Concerns(i, c)
<1>1. actions \in Seq(Actions)
  BY DEF SessionsInv, SessionsTypeOK
<1>2. Head(actions) \in Actions /\ Head(actions) = actions[1]
  BY <1>1, HeadTailProperties
<1>3. DOMAIN actions = 1 .. Len(actions) /\ Len(actions) \in Nat /\ Len(actions) # 0
  BY <1>1, LenProperties, EmptySeq
<1>4. 1 \in DOMAIN actions /\ \A i \in DOMAIN actions: i \in Nat /\ i >= 1
  BY <1>3
<1> QED
  BY <1>2, <1>4 DEF Concerns

\* The variables of the world are of their types.
WorldTypeOK ==
  /\ slots \in [Users -> {"unbound", "bound", "reused"}]
  /\ backlog \in 0 .. MaxBacklog /\ lingering \subseteq Connections
  /\ {known, stored, saved, astray, DOMAIN observer} \subseteq SUBSET Users
  /\ \A u \in DOMAIN observer:
       observer[u] \in [conn: Connections, body: BOOLEAN] /\ UserOf[observer[u].conn] = u

\* What remains to be shown of the types.
LEMMA HandledTypes ==
  ASSUME SessionsInv, Handled, WorldTypeOK', sending' \subseteq Connections,
         link' \in [Connections -> {None, "open", "closed"}],
         view' \in [Connections -> {None, "bound", "unbound"}],
         channel' \in [Connections -> Seq({"enter", "other"})],
         \A d \in Connections: Len(channel'[d]) <= NotifyBuffer
  PROVE  SessionsTypeOK'
<1>1. actions' \in Seq(Actions) /\ Len(actions') <= ActionBuffer
  BY HandledInvariant
<1>2. UNCHANGED <<client, sent, streams, inbox, session, service, stop>>
  BY DEF Handled
<1> QED
  BY <1>1, <1>2 DEF SessionsInv, SessionsTypeOK, WorldTypeOK

\* As long as nobody enters or is taken out and nobody is told anything, clients
\* and server agree as before.
LEMMA ToldInvariant ==
  ASSUME SessionsInv, Handled, UNCHANGED <<link, channel>>,
         \A c \in Connections: InGame(c)' <=> InGame(c)
  PROVE  EnterFirst' /\ ToldInGame'
<1>1. UNCHANGED <<service, client, link, channel>> /\ service = "up"
      /\ \A c \in Connections: c \in Observing' => InGame(c) \/ c \in Observing
  BY DEF Handled
<1>2. EnterFirst'
  BY <1>1 DEF SessionsInv, EnterFirst
<1>3. ToldInGame'
  BY <1>1 DEF SessionsInv, ToldInGame, Alone
<1> QED
  BY <1>2, <1>3

\* Connected makes the user known, or the service panics.
LEMMA HandleConnectedInvariant ==
  ASSUME SessionsInv, service = "up", sending = {}, actions # <<>>,
         NEW c \in Connections, Head(actions) = Connected(c), HandleConnected(c),
         UNCHANGED <<client, sent, streams, inbox, session, stop>>
  PROVE  SessionsInv'
<1>1. CASE Panic("full")
  BY <1>1, EndInvariant DEF Panic, Panics, SessionsInv, SessionsTypeOK
<1>2. CASE /\ Done /\ Quiet /\ known' = known \cup {UserOf[c]}
           /\ UNCHANGED <<slots, observer, regionVars, placeVars>>
  <2>1. /\ actions' = Tail(actions)
        /\ UNCHANGED <<link, view, channel, slots, observer, backlog, lingering, astray, stored,
                       saved, service, sending>>
    BY <1>2 DEF Done, Quiet, regionVars, placeVars
  <2>2. \A d \in Connections: InGame(d)' <=> InGame(d)
    BY <2>1 DEF InGame
  <2>3. Handled
    <3>1. \A d \in Connections: Head(actions) # Disconnected(d)
      BY ActionsDiffer
    <3>2. \A d \in Connections: Head(actions) = Connected(d) => UserOf[d] \in known'
      BY <1>2, ActionsDiffer
    <3> QED
      BY <1>2, <2>1, <2>2, <3>1, <3>2 DEF Handled, Observing
  <2>4. SessionsTypeOK'
    <3>1. known' \subseteq Users
      BY <1>2, SessionsAssumption DEF SessionsInv, SessionsTypeOK
    <3>2. WorldTypeOK'
      BY <2>1, <3>1 DEF SessionsInv, SessionsTypeOK, WorldTypeOK
    <3> QED
      BY <2>1, <2>3, <3>2, HandledTypes DEF SessionsInv, SessionsTypeOK
  <2> QED
    BY <2>1, <2>2, <2>3, <2>4, HandledInvariant, ToldInvariant DEF SessionsInv
<1> QED
  BY <1>1, <1>2 DEF HandleConnected

\* Disconnected takes the user out of the game: its client left, if it was alone.
LEMMA HandleDisconnectedInvariant ==
  ASSUME SessionsInv, service = "up", sending = {}, actions # <<>>,
         NEW c \in Connections, Head(actions) = Disconnected(c), HandleDisconnected(c),
         UNCHANGED <<client, sent, streams, inbox, session, stop>>
  PROVE  SessionsInv'
<1> DEFINE u == UserOf[c]
<1>1. session[c] = "over" /\ link[c] # None /\ u \in Users
  <2>1. session[c] = "over"
    BY FirstAction DEF SessionsInv, ByeLast
  <2>2. link[c] # None
    BY FirstAction, MessagesDiffer DEF SessionsInv, NotYet, Messages
  <2> QED
    BY <2>1, <2>2, SessionsAssumption
<1>2. CASE Panic("bodyless")
  BY <1>2, EndInvariant DEF Panic, Panics, SessionsInv, SessionsTypeOK
<1>3. CASE u \notin DOMAIN observer /\ Done /\ Quiet /\ Idle
  <2>1. /\ actions' = Tail(actions)
        /\ UNCHANGED <<link, view, channel, known, slots, observer, backlog, lingering, astray,
                       stored, saved, service, sending>>
    BY <1>3 DEF Done, Quiet, Idle, worldVars, regionVars, placeVars
  <2>2. \A d \in Connections: InGame(d)' <=> InGame(d)
    BY <2>1 DEF InGame
  <2>3. Handled
    <3>1. \A d \in Connections: Head(actions) # Connected(d)
      BY ActionsDiffer
    <3>2. \A d \in Connections: Head(actions) = Disconnected(d) => ~InGame(d)
      BY <1>3, ActionsDiffer DEF InGame
    <3> QED
      BY <1>3, <2>1, <2>2, <3>1, <3>2 DEF Handled, Observing
  <2>4. SessionsTypeOK'
    <3>1. WorldTypeOK'
      BY <2>1 DEF SessionsInv, SessionsTypeOK, WorldTypeOK
    <3> QED
      BY <2>1, <2>3, <3>1, HandledTypes DEF SessionsInv, SessionsTypeOK
  <2> QED
    BY <2>1, <2>2, <2>3, <2>4, HandledInvariant, ToldInvariant DEF SessionsInv
<1>4. CASE /\ u \in DOMAIN observer /\ Done /\ Quiet /\ Queued /\ observer' = Without(u)
           /\ lingering' = lingering \cup {d \in {observer[u].conn}: link[d] = "open"}
           /\ stored' = stored \cup {u} /\ UNCHANGED <<known, slots, astray, saved>>
  <2>1. /\ actions' = Tail(actions)
        /\ UNCHANGED <<link, view, channel, known, slots, astray, saved, service, sending>>
        /\ DOMAIN observer' = DOMAIN observer \ {u}
        /\ \A v \in DOMAIN observer': observer'[v] = observer[v]
    BY <1>4 DEF Done, Quiet, Without, Restrict
  <2>2. \A d \in Connections: InGame(d)' <=> InGame(d) /\ UserOf[d] # u
    BY <2>1 DEF InGame
  <2>3. observer[u].conn \in Connections /\ UserOf[observer[u].conn] = u
    BY <1>4 DEF SessionsInv, SessionsTypeOK
  <2>4. \A d \in Observing': InGame(d) \/ d \in Observing
    BY <1>4, <2>1, <2>3 DEF Observing, InGame
  <2>5. Handled
    <3>1. \A d \in Connections: Head(actions) = Disconnected(d) => d = c
      BY ActionsDiffer
    <3>2. \A d \in Connections: Head(actions) # Connected(d)
      BY ActionsDiffer
    <3> QED
      BY <2>1, <2>2, <2>4, <3>1, <3>2 DEF Handled
  <2>6. SessionsTypeOK'
    <3>1. backlog' \in 0 .. MaxBacklog
      BY <1>4, SessionsAssumption DEF Queued, SessionsInv, SessionsTypeOK
    <3>2. WorldTypeOK'
      BY <1>1, <1>4, <2>1, <2>3, <3>1 DEF SessionsInv, SessionsTypeOK, WorldTypeOK
    <3> QED
      BY <2>1, <2>5, <3>2, HandledTypes DEF SessionsInv, SessionsTypeOK
  <2>7. EnterFirst'
    BY <2>1, <2>2, <2>4 DEF SessionsInv, EnterFirst
  <2>8. ToldInGame'
    <3>1. ASSUME NEW d \in Connections, link[d] = "open", Alone(d),
                 client[d] = "game" \/ (client[d] # "left" /\ (channel[d] # <<>> \/ d \in Observing'))
          PROVE  InGame(d)'
      <4>1. InGame(d)
        BY <2>4, <3>1 DEF SessionsInv, ToldInGame
      <4>2. d # c
        BY <1>1, <3>1 DEF SessionsInv, SaidGoodbye
      <4>3. UserOf[d] # u
        BY <1>1, <3>1, <4>2 DEF Alone
      <4> QED
        BY <2>2, <4>1, <4>3
    <3> QED
      BY <2>1, <3>1 DEF ToldInGame, Alone
  <2> QED
    BY <2>5, <2>6, <2>7, <2>8, HandledInvariant DEF SessionsInv
<1> QED
  BY <1>2, <1>3, <1>4 DEF HandleDisconnected

\* A refused request closes the connection, and nothing else.
LEMMA RefuseInvariant ==
  ASSUME SessionsInv, service = "up", sending = {}, actions # <<>>,
         NEW c \in Connections, NEW r \in Messages, Head(actions) = Request(c, r), Refuse(c),
         UNCHANGED <<client, sent, streams, inbox, session, stop>>
  PROVE  SessionsInv'
<1>1. /\ actions' = Tail(actions)
      /\ link' = [d \in Connections |-> IF d = c THEN "closed" ELSE link[d]]
      /\ channel' = [d \in Connections |-> IF d = c THEN <<>> ELSE channel[d]]
      /\ UNCHANGED <<view, known, slots, observer, backlog, lingering, astray, stored, saved,
                     service, sending>>
  BY DEF Refuse, Close, Idle, Done, worldVars, regionVars, placeVars
<1>2. link \in [Connections -> {"none", "open", "closed"}]
  BY Kinds DEF SessionsInv
<1>3. (\E i \in DOMAIN actions: Concerns(i, c)) /\ link[c] # "none"
  BY FirstAction DEF SessionsInv, NotYet, None
<1>4. Handled
  <2>1. \A d \in Connections: Head(actions) # Connected(d) /\ Head(actions) # Disconnected(d)
    BY ActionsDiffer
  <2> QED
    BY <1>1, <1>2, <1>3, <2>1 DEF Handled, InGame, Observing
<1>5. SessionsTypeOK'
  <2>1. /\ link' \in [Connections -> {"none", "open", "closed"}]
        /\ channel' \in [Connections -> Seq({"enter", "other"})]
        /\ \A d \in Connections: Len(channel'[d]) <= NotifyBuffer
    <3>1. /\ channel \in [Connections -> Seq({"enter", "other"})]
          /\ \A d \in Connections: Len(channel[d]) <= NotifyBuffer
          /\ NotifyBuffer \in Nat /\ <<>> \in Seq({"enter", "other"}) /\ Len(<<>>) = 0
      BY SessionsAssumption DEF SessionsInv, SessionsTypeOK
    <3> QED
      BY <1>1, <1>2, <3>1
  <2>2. WorldTypeOK'
    BY <1>1 DEF SessionsInv, SessionsTypeOK, WorldTypeOK
  <2> QED
    BY <1>1, <1>4, <2>1, <2>2, HandledTypes DEF SessionsInv, SessionsTypeOK, None
<1>6. EnterFirst'
  BY <1>1, <1>2 DEF SessionsInv, EnterFirst, InGame, Observing
<1>7. ToldInGame'
  BY <1>1, <1>2, <1>3 DEF SessionsInv, ToldInGame, InGame, Observing, Alone, None
<1> QED
  BY <1>4, <1>5, <1>6, <1>7, HandledInvariant DEF SessionsInv

\* A request that is answered, or needs no answer, changes the slot and what the
\* regions have to do, not who is in game.
LEMMA AnsweredInvariant ==
  ASSUME SessionsInv, service = "up", sending = {}, actions # <<>>,
         NEW c \in Connections, NEW r \in Messages, Head(actions) = Request(c, r),
         Done, UNCHANGED <<link, channel, known, observer, lingering, stored, saved>>,
         view' \in [Connections -> {None, "bound", "unbound"}],
         slots' \in [Users -> {"unbound", "bound", "reused"}],
         backlog' \in 0 .. MaxBacklog, astray' \subseteq Users,
         UNCHANGED <<client, sent, streams, inbox, session, stop>>
  PROVE  SessionsInv'
<1>1. actions' = Tail(actions) /\ UNCHANGED <<service, sending>>
  BY DEF Done
<1>2. \A d \in Connections: InGame(d)' <=> InGame(d)
  BY DEF InGame
<1>3. Handled
  <2>1. \A d \in Connections: Head(actions) # Connected(d) /\ Head(actions) # Disconnected(d)
    BY ActionsDiffer
  <2> QED
    BY <1>1, <1>2, <2>1 DEF Handled, Observing
<1>4. SessionsTypeOK'
  <2>1. WorldTypeOK'
    BY DEF SessionsInv, SessionsTypeOK, WorldTypeOK
  <2> QED
    BY <1>1, <1>3, <2>1, HandledTypes DEF SessionsInv, SessionsTypeOK
<1> QED
  BY <1>2, <1>3, <1>4, HandledInvariant, ToldInvariant DEF SessionsInv

\* The requests that are answered, refused, or end the service.
LEMMA LobbyInvariant ==
  ASSUME SessionsInv, service = "up", sending = {}, actions # <<>>,
         NEW c \in Connections, NEW r \in Messages, Head(actions) = Request(c, r),
         \/ HandleSlots(c, UserOf[c]) \/ HandleCreate(c, UserOf[c])
         \/ HandleDelete(c, UserOf[c]) \/ HandleUpdateSelf(c, UserOf[c]),
         UNCHANGED <<client, sent, streams, inbox, session, stop>>
  PROVE  SessionsInv'
<1> DEFINE u == UserOf[c]
<1>1. /\ slots \in [Users -> {"unbound", "bound", "reused"}] /\ u \in Users /\ astray \subseteq Users
      /\ backlog \in 0 .. MaxBacklog /\ MaxBacklog \in Nat
      /\ view \in [Connections -> {None, "bound", "unbound"}]
  BY SessionsAssumption DEF SessionsInv, SessionsTypeOK
<1>2. CASE Refuse(c)
  BY <1>2, RefuseInvariant
<1>3. CASE Panic("unmarked")
  BY <1>3, EndInvariant DEF Panic, Panics, SessionsInv, SessionsTypeOK
<1>4. ASSUME NEW slot \in {"bound", "unbound"}, Answer(c, slot)
      PROVE  /\ Done /\ UNCHANGED <<link, channel>>
             /\ view' \in [Connections -> {None, "bound", "unbound"}]
  BY <1>1, <1>4 DEF Answer
<1>5. CASE HandleSlots(c, u)
  BY <1>1, <1>4, <1>5, AnsweredInvariant DEF HandleSlots, Idle, worldVars, regionVars, placeVars
<1>6. CASE HandleCreate(c, u)
  <2>1. CASE slots[u] = "unbound" /\ Answer(c, "bound")
             /\ (\E bound \in {"bound", "reused"}: slots' = [slots EXCEPT ![u] = bound])
             /\ UNCHANGED <<known, observer, regionVars, placeVars>>
    <3>1. slots' \in [Users -> {"unbound", "bound", "reused"}]
      BY <1>1, <2>1
    <3> QED
      BY <1>1, <1>4, <2>1, <3>1, AnsweredInvariant DEF regionVars, placeVars
  <2> QED
    BY <1>2, <1>6, <2>1 DEF HandleCreate
<1>7. CASE HandleDelete(c, u)
  <2>1. CASE Answer(c, "unbound") /\ Idle
    BY <1>1, <1>4, <2>1, AnsweredInvariant DEF Idle, worldVars, regionVars, placeVars
  <2>2. CASE /\ Answer(c, "unbound") /\ slots' = [slots EXCEPT ![u] = "unbound"]
             /\ astray' = astray \cup ({u} \cap DOMAIN observer)
             /\ UNCHANGED <<known, observer, backlog, lingering, placeVars>>
    <3>1. slots' \in [Users -> {"unbound", "bound", "reused"}] /\ astray' \subseteq Users
      BY <1>1, <2>2
    <3> QED
      BY <1>1, <1>4, <2>2, <3>1, AnsweredInvariant DEF placeVars
  <2> QED
    BY <1>3, <1>7, <2>1, <2>2 DEF HandleDelete
<1>8. CASE HandleUpdateSelf(c, u)
  <2>1. CASE Done /\ Quiet /\ Idle
    BY <1>1, <2>1, AnsweredInvariant DEF Quiet, Idle, worldVars, regionVars, placeVars
  <2>2. CASE /\ Done /\ Quiet /\ backlog' \in backlog .. MaxBacklog /\ astray' = astray \cup {u}
             /\ UNCHANGED <<known, slots, observer, lingering, placeVars>>
    <3>1. backlog' \in 0 .. MaxBacklog /\ astray' \subseteq Users
      BY <1>1, <2>2
    <3> QED
      BY <1>1, <2>2, <3>1, AnsweredInvariant DEF Quiet, placeVars
  <2> QED
    BY <1>2, <1>8, <2>1, <2>2 DEF HandleUpdateSelf
<1> QED
  BY <1>5, <1>6, <1>7, <1>8

\* Who enters is told so first, and is in game from then on.
LEMMA EnterInvariant ==
  ASSUME SessionsInv, service = "up", sending = {}, actions # <<>>,
         NEW c \in Connections, Head(actions) = Request(c, Enter), HandleEnter(c, UserOf[c]),
         UNCHANGED <<client, sent, streams, inbox, session, stop>>
  PROVE  SessionsInv'
<1> DEFINE u == UserOf[c]
           o == [conn |-> c, body |-> FALSE]
<1>1. Enter \in Messages /\ link[c] # "none" /\ u \in Users
  BY FirstAction, SessionsAssumption DEF SessionsInv, NotYet, None, Messages
<1>2. CASE Refuse(c)
  BY <1>1, <1>2, RefuseInvariant
<1>3. CASE ~Refuse(c)
  <2>1. /\ u \notin DOMAIN observer /\ Done /\ Queued
        /\ observer' = [v \in DOMAIN observer \cup {u} |-> IF v = u THEN o ELSE observer[v]]
        /\ astray' \in {astray, astray \cup {u}}
        /\ stored' = stored \ {u} /\ saved' = saved \ {u}
        /\ channel' = IF link[c] = "open" THEN [channel EXCEPT ![c] = EnterMessages] ELSE channel
        /\ UNCHANGED <<link, view, known, slots, lingering>>
    BY <1>3 DEF HandleEnter
  <2>2. actions' = Tail(actions) /\ UNCHANGED <<service, sending>>
    BY <2>1 DEF Done
  <2>3. o \in [conn: Connections, body: BOOLEAN] /\ o.conn = c
    OBVIOUS
  <2>4. /\ DOMAIN observer' = DOMAIN observer \cup {u} /\ observer'[u] = o
        /\ \A v \in DOMAIN observer: observer'[v] = observer[v]
    BY <2>1
  <2> HIDE DEF o
  <2>5. InGame(c)' /\ \A d \in Connections: d # c => (InGame(d)' <=> InGame(d))
    BY <2>1, <2>3, <2>4 DEF InGame
  <2>6. channel \in [Connections -> Seq({"enter", "other"})] /\ Observing' = Observing
    BY <2>1, <2>2 DEF SessionsInv, SessionsTypeOK, Observing
  <2>7. Handled
    <3>1. \A d \in Connections: Head(actions) # Connected(d) /\ Head(actions) # Disconnected(d)
      BY ActionsDiffer
    <3> QED
      BY <1>1, <2>1, <2>2, <2>5, <2>6, <3>1 DEF Handled
  <2>8. channel' \in [Connections -> Seq({"enter", "other"})]
        /\ \A d \in Connections: Len(channel'[d]) <= NotifyBuffer
    <3>1. <<"enter">> \in Seq({"enter", "other"}) /\ Len(<<"enter">>) = 1
      OBVIOUS
    <3>2. \A d \in Connections: Len(channel[d]) <= NotifyBuffer
      BY DEF SessionsInv, SessionsTypeOK
    <3>3. NotifyBuffer \in Nat \ {0}
      BY SessionsAssumption
    <3> QED
      BY <2>1, <2>6, <3>1, <3>2, <3>3 DEF EnterMessages
  <2>9. SessionsTypeOK'
    <3>1. \A v \in DOMAIN observer':
            observer'[v] \in [conn: Connections, body: BOOLEAN] /\ UserOf[observer'[v].conn] = v
      BY <2>1, <2>3, <2>4 DEF SessionsInv, SessionsTypeOK
    <3>2. backlog' \in 0 .. MaxBacklog
      BY <2>1, SessionsAssumption DEF Queued, SessionsInv, SessionsTypeOK
    <3>3. {known', stored', saved', astray', DOMAIN observer'} \subseteq SUBSET Users
      BY <1>1, <2>1, <2>4 DEF SessionsInv, SessionsTypeOK
    <3>4. WorldTypeOK'
      BY <2>1, <3>1, <3>2, <3>3 DEF SessionsInv, SessionsTypeOK, WorldTypeOK
    <3> QED
      BY <2>1, <2>2, <2>7, <2>8, <3>4, HandledTypes DEF SessionsInv, SessionsTypeOK
  <2>10. EnterFirst'
    <3>1. link[c] = "open" => channel'[c] = <<"enter">>
      BY <2>1, <2>6 DEF EnterMessages
    <3>2. \A d \in Connections: d # c => channel'[d] = channel[d]
      BY <2>1, <2>6
    <3> QED
      BY <2>1, <2>5, <2>6, <3>1, <3>2 DEF SessionsInv, EnterFirst
  <2>11. ToldInGame'
    <3>1. \A d \in Connections: d # c => channel'[d] = channel[d]
      BY <2>1, <2>6
    <3> QED
      BY <2>1, <2>2, <2>5, <2>6, <3>1 DEF SessionsInv, ToldInGame, Alone
  <2> QED
    BY <2>7, <2>9, <2>10, <2>11, HandledInvariant DEF SessionsInv
<1> QED
  BY <1>2, <1>3

\* A request is handled for a user that is known.
LEMMA HandleRequestInvariant ==
  ASSUME SessionsInv, service = "up", sending = {}, actions # <<>>,
         NEW c \in Connections, NEW r \in Messages, Head(actions) = Request(c, r), HandleRequest(c, r),
         UNCHANGED <<client, sent, streams, inbox, session, stop>>
  PROVE  SessionsInv'
<1>1. UserOf[c] \in known
  <2>1. \A j \in DOMAIN actions: ~(j < 1)
    BY FirstAction
  <2>2. 1 \in DOMAIN actions /\ actions[1] = Request(c, r)
    BY FirstAction
  <2> QED
    BY <2>1, <2>2 DEF SessionsInv, KnownFirst
<1>2. HandleKnown(c, UserOf[c], r)
  BY <1>1 DEF HandleRequest
<1>3. CASE r = Enter /\ HandleEnter(c, UserOf[c])
  BY <1>3, EnterInvariant
<1>4. CASE \/ HandleSlots(c, UserOf[c]) \/ HandleCreate(c, UserOf[c])
           \/ HandleDelete(c, UserOf[c]) \/ HandleUpdateSelf(c, UserOf[c])
  BY <1>4, LobbyInvariant
<1> QED
  BY <1>2, <1>3, <1>4 DEF HandleKnown

\* A tick changes what is behind the observers, not whose they are; whom it has
\* something to tell is in game, or was.
LEMMA HandleTickInvariant ==
  ASSUME SessionsInv, service = "up", sending = {}, actions # <<>>,
         Head(actions) = Tick, HandleTick,
         UNCHANGED <<client, sent, streams, inbox, session, stop>>
  PROVE  SessionsInv'
<1>1. CASE Panic("astray")
  BY <1>1, EndInvariant DEF Panic, Panics, SessionsInv, SessionsTypeOK
<1>2. CASE ~Panic("astray")
  <2>1. /\ actions' = Tail(actions) /\ sending' = {c \in Connections: InGame(c)} \cup lingering
        /\ backlog' \in 0 .. IF backlog = 0 THEN 0 ELSE backlog - 1
        /\ lingering' \subseteq lingering
        /\ UNCHANGED <<link, channel, view, service, known, slots, astray, stored, saved>>
    <3>1. lingering' \in IF backlog' = 0 THEN {{}} ELSE SUBSET lingering
      BY <1>2 DEF HandleTick
    <3> QED
      BY <1>2, <3>1 DEF HandleTick, Quiet, placeVars
  <2>2. PICK bodies \in SUBSET DOMAIN observer:
          observer' = [u \in DOMAIN observer |-> [observer[u] EXCEPT !.body = @ \/ u \in bodies]]
    BY <1>2 DEF HandleTick
  <2>3. \A u \in DOMAIN observer:
          observer[u] \in [conn: Connections, body: BOOLEAN] /\ UserOf[observer[u].conn] = u
    BY DEF SessionsInv, SessionsTypeOK
  <2>4. /\ DOMAIN observer' = DOMAIN observer
        /\ \A u \in DOMAIN observer:
             observer'[u] \in [conn: Connections, body: BOOLEAN] /\ observer'[u].conn = observer[u].conn
    BY <2>2, <2>3
  <2>5. \A c \in Connections: InGame(c)' <=> InGame(c)
    BY <2>4 DEF InGame
  <2>6. lingering \subseteq Connections /\ sending' \subseteq Connections
        /\ \A c \in Observing': InGame(c) \/ c \in Observing
    BY <2>1 DEF Observing, SessionsInv, SessionsTypeOK
  <2>7. Handled
    <3>1. \A d \in Connections: Head(actions) # Connected(d) /\ Head(actions) # Disconnected(d)
      BY ActionsDiffer
    <3> QED
      BY <2>1, <2>5, <2>6, <3>1 DEF Handled
  <2>8. SessionsTypeOK'
    <3>1. backlog' \in 0 .. MaxBacklog
      BY <2>1, SessionsAssumption DEF SessionsInv, SessionsTypeOK
    <3>2. \A u \in DOMAIN observer':
            observer'[u] \in [conn: Connections, body: BOOLEAN] /\ UserOf[observer'[u].conn] = u
      BY <2>3, <2>4
    <3>3. WorldTypeOK'
      BY <2>1, <2>4, <2>6, <3>1, <3>2 DEF SessionsInv, SessionsTypeOK, WorldTypeOK
    <3> QED
      BY <2>1, <2>6, <2>7, <3>3, HandledTypes DEF SessionsInv, SessionsTypeOK
  <2> QED
    BY <2>1, <2>5, <2>7, <2>8, HandledInvariant, ToldInvariant DEF SessionsInv
<1> QED
  BY <1>1, <1>2

\* Whatever the service handles.
LEMMA HandleInvariant ==
  ASSUME SessionsInv, Handle
  PROVE  SessionsInv'
<1>1. /\ service = "up" /\ sending = {} /\ actions # <<>>
      /\ UNCHANGED <<client, sent, streams, inbox, session, stop>>
  BY DEF Handle
<1> DEFINE a == Head(actions)
<1>2. a \in Actions
  BY <1>1, FirstAction
<1>3. CASE a.kind = "connected" /\ HandleConnected(a.conn)
  BY <1>1, <1>2, <1>3, ActionOfKind, HandleConnectedInvariant
<1>4. CASE a.kind = "disconnected" /\ HandleDisconnected(a.conn)
  BY <1>1, <1>2, <1>4, ActionOfKind, HandleDisconnectedInvariant
<1>5. CASE a.kind = "request" /\ HandleRequest(a.conn, a.request)
  BY <1>1, <1>2, <1>5, ActionOfKind, HandleRequestInvariant
<1>6. CASE a = Tick /\ HandleTick
  BY <1>1, <1>6, HandleTickInvariant
<1>7. CASE a = Stop /\ HandleStop
  BY <1>1, <1>7, EndInvariant DEF HandleStop, SessionsInv, SessionsTypeOK
<1> QED
  BY <1>3, <1>4, <1>5, <1>6, <1>7 DEF Handle

\* A tick tells those in game something, who were told to enter before.
LEMMA NotifyInvariant ==
  ASSUME SessionsInv, Notify
  PROVE  SessionsInv'
<1>1. PICK c \in sending:
        /\ CanNotify(c) /\ sending' = sending \ {c}
        /\ channel' = IF link[c] = "open" THEN [channel EXCEPT ![c] = Append(@, "other")] ELSE channel
  BY DEF Notify
<1>2. UNCHANGED <<link, streams, inbox, session, client, view, sent, known, slots, observer,
                  backlog, lingering, astray, stored, saved, actions, service, stop>>
  BY DEF Notify, clientVars, netVars, worldVars, regionVars, placeVars
<1>3. /\ c \in Connections /\ c \in Observing /\ Observing' \subseteq Observing
      /\ channel \in [Connections -> Seq({"enter", "other"})]
      /\ service = "up" /\ link[c] # "none"
  BY <1>1, <1>2 DEF SessionsInv, SessionsTypeOK, Observing, Notify, NotYet, None
<1>4. CASE link[c] # "open"
  <2>1. SessionsTypeOK' /\ NothingLeft'
    BY <1>1, <1>2, <1>3, <1>4 DEF SessionsInv, SessionsTypeOK, NothingLeft
  <2>2. channel' = channel /\ \A d \in Connections: InGame(d)' <=> InGame(d)
    BY <1>1, <1>2, <1>4 DEF InGame
  <2>3. NotYet'
    BY <1>2, <1>3, <2>2 DEF SessionsInv, NotYet, Concerns
  <2>4. EnterFirst' /\ ToldInGame'
    BY <1>2, <1>3, <2>2 DEF SessionsInv, EnterFirst, ToldInGame, Alone
  <2> QED
    BY <1>2, <2>1, <2>3, <2>4, Unaffected DEF SessionsInv
<1>5. CASE link[c] = "open"
  <2>1. channel' = [channel EXCEPT ![c] = Append(channel[c], "other")] /\ Len(channel[c]) < NotifyBuffer
    BY <1>1, <1>3, <1>5 DEF CanNotify
  <2>2. /\ Append(channel[c], "other") \in Seq({"enter", "other"})
        /\ Len(Append(channel[c], "other")) = Len(channel[c]) + 1 /\ Len(channel[c]) \in Nat
        /\ Append(channel[c], "other") # <<>>
        /\ channel[c] # <<>> => Head(Append(channel[c], "other")) = Head(channel[c])
    <3>1. channel[c] \in Seq({"enter", "other"})
      BY <1>3
    <3>2. /\ Append(channel[c], "other") \in Seq({"enter", "other"})
          /\ Len(Append(channel[c], "other")) = Len(channel[c]) + 1
          /\ \A i \in 1 .. Len(channel[c]): Append(channel[c], "other")[i] = channel[c][i]
      BY <3>1, AppendProperties
    <3>3. Len(channel[c]) \in Nat /\ (channel[c] # <<>> => Len(channel[c]) # 0)
      BY <3>1, LenProperties, EmptySeq
    <3>4. Append(channel[c], "other") # <<>>
      BY <3>2, <3>3, EmptySeq
    <3>5. channel[c] # <<>> => Head(Append(channel[c], "other")) = Head(channel[c])
      BY <3>1, <3>2, <3>3, <3>4
    <3> QED
      BY <3>2, <3>3, <3>4, <3>5
  <2>3. SessionsTypeOK'
    <3>1. \A d \in Connections: Len(channel[d]) <= NotifyBuffer
      BY DEF SessionsInv, SessionsTypeOK
    <3>2. \A d \in Connections: Len(channel'[d]) <= NotifyBuffer
      BY <1>3, <2>1, <2>2, <3>1, SessionsAssumption
    <3>3. channel' \in [Connections -> Seq({"enter", "other"})]
      BY <1>3, <2>1, <2>2
    <3> QED
      BY <1>1, <1>2, <3>2, <3>3 DEF SessionsInv, SessionsTypeOK
  <2>4. NothingLeft' /\ \A d \in Connections: InGame(d)' <=> InGame(d)
    BY <1>2, <1>3 DEF NothingLeft, InGame
  <2>5. NotYet'
    BY <1>2, <1>3, <2>1, <2>4 DEF SessionsInv, NotYet, Concerns, None
  <2>6. EnterFirst'
    BY <1>2, <1>3, <2>1, <2>2, <2>4 DEF SessionsInv, EnterFirst
  <2>7. ToldInGame'
    BY <1>2, <1>3, <2>1, <2>4 DEF SessionsInv, ToldInGame, Alone
  <2> QED
    BY <1>2, <2>3, <2>4, <2>5, <2>6, <2>7, Unaffected DEF SessionsInv
<1> QED
  BY <1>4, <1>5

-----------------------------------------------------------------------------
\* The whole system.

LEMMA InitInvariant == SessionsInit => SessionsInv
<1> SUFFICES ASSUME SessionsInit PROVE SessionsInv
  OBVIOUS
<1> USE DEF SessionsInit
<1>1. DOMAIN actions = {} /\ DOMAIN observer = {}
  OBVIOUS
<1>2. SessionsTypeOK
  <2>1. <<>> \in Seq(Messages) /\ <<>> \in Seq({"enter", "other"}) /\ <<>> \in Seq(Actions)
        /\ Len(<<>>) = 0
    OBVIOUS
  <2>2. {ActionBuffer, RequestBuffer, NotifyBuffer} \subseteq Nat /\ {MaxSent, MaxBacklog} \subseteq Nat
    BY SessionsAssumption
  <2>3. {known, stored, saved, astray, DOMAIN observer} \subseteq SUBSET Users
    BY <1>1
  <2>4. /\ link \in [Connections -> {None, "open", "closed"}]
        /\ session \in [Connections -> {None, "hello", "serving", "bye", "over"}]
        /\ client \in [Connections -> {"away", "lobby", "game", "left", "panicked"}]
        /\ streams \in [Connections -> Seq(Messages)] /\ inbox \in [Connections -> Seq(Messages)]
        /\ channel \in [Connections -> Seq({"enter", "other"})]
    BY <2>1
  <2>5. \A c \in Connections: Len(inbox[c]) <= RequestBuffer /\ Len(channel[c]) <= NotifyBuffer
    BY <2>1, <2>2
  <2>6. /\ sending \subseteq Connections /\ lingering \subseteq Connections /\ sent \in 0 .. MaxSent + 1
        /\ view \in [Connections -> {None, "bound", "unbound"}]
        /\ slots \in [Users -> {"unbound", "bound", "reused"}] /\ backlog \in 0 .. MaxBacklog
        /\ service \in {"up", "stopped", "full", "unknown", "unmarked", "bodyless", "astray"}
        /\ stop \in BOOLEAN
        /\ actions \in Seq(Actions) /\ Len(actions) <= ActionBuffer
    <3>1. Len(actions) <= ActionBuffer /\ sent \in 0 .. MaxSent + 1 /\ backlog \in 0 .. MaxBacklog
      BY <2>1, <2>2
    <3>2. actions \in Seq(Actions)
      BY <2>1
    <3> QED
      BY <3>1, <3>2
  <2>7. \A u \in DOMAIN observer:
          observer[u] \in [conn: Connections, body: BOOLEAN] /\ UserOf[observer[u].conn] = u
    BY <1>1
  <2> HIDE DEF SessionsInit
  <2> QED
    BY <2>3, <2>4, <2>5, <2>6, <2>7 DEF SessionsTypeOK
<1>3. NeverWrong /\ NotYet /\ NothingLeft /\ EnterFirst
  BY <1>1 DEF NeverWrong, NotYet, NothingLeft, EnterFirst, InGame, Observing, None
<1>4. KnownFirst /\ ByeLast /\ Taken
  BY <1>1 DEF KnownFirst, ByeLast, Taken, InGame, Observing, None
<1>5. SaidGoodbye /\ ToldInGame
  BY DEF SaidGoodbye, ToldInGame, None
<1> QED
  BY <1>2, <1>3, <1>4, <1>5 DEF SessionsInv

\* What a connection's tasks do.
LEMMA TasksInvariant ==
  ASSUME SessionsInv, NEW c \in Connections, Tasks(c)
  PROVE  SessionsInv'
BY ReceiveInvariant, ArriveInvariant, LoseInvariant, CloseInvariant, HelloInvariant,
   ServeInvariant, HangupInvariant, ByeInvariant DEF Tasks, Release

\* What the client sends.
LEMMA ClientInvariant ==
  ASSUME SessionsInv, NEW c \in Connections, Bind(c) \/ Unbind(c) \/ Play(c) \/ Walk(c) \/ Quit(c)
  PROVE  SessionsInv'
<1>1. /\ {Creation, Deletion, Enter, UpdateSelf, Disconnect} \subseteq Messages
      /\ Disconnect \notin {Creation, Deletion, Enter, UpdateSelf}
      /\ sent \in 0 .. MaxSent + 1 /\ MaxSent \in Nat
  BY MessagesDiffer, SessionsAssumption DEF Messages, Replied, SessionsInv, SessionsTypeOK
<1>2. sent <= MaxSent => sent + 1 \in 0 .. MaxSent + 1
  BY <1>1
<1>3. CASE Bind(c) \/ Unbind(c) \/ Play(c)
  BY <1>1, <1>2, <1>3, SendInvariant DEF Bind, Unbind, Play, Click, Send
<1>4. CASE Walk(c)
  BY <1>1, <1>2, <1>4, SendInvariant DEF Walk, Send
<1>5. CASE Quit(c)
  BY <1>1, <1>2, <1>5, SendInvariant DEF Quit, Send
<1> QED
  BY <1>3, <1>4, <1>5

\* A tick that is due, and Server::stop.
LEMMA CallsInvariant == SessionsInv /\ (TickDue \/ AskStop) => SessionsInv'
<1> SUFFICES ASSUME SessionsInv, TickDue \/ AskStop PROVE SessionsInv'
  OBVIOUS
<1>1. CASE TickDue
  BY <1>1, CallInvariant DEF TickDue, SessionsInv, SessionsTypeOK
<1>2. CASE AskStop
  BY <1>2, CallInvariant DEF AskStop
<1> QED
  BY <1>1, <1>2

LEMMA StutterInvariant == SessionsInv /\ UNCHANGED sessionVars => SessionsInv'
<1> SUFFICES ASSUME SessionsInv, UNCHANGED sessionVars PROVE SessionsInv'
  OBVIOUS
<1>1. UNCHANGED <<link, streams, inbox, session, client, view, sent, known, slots, observer,
                  backlog, lingering, astray, stored, saved, actions, service, sending, stop,
                  channel>>
  BY DEF sessionVars, clientVars, netVars, worldVars, regionVars, placeVars, serviceVars
<1>2. SessionsTypeOK'
  BY <1>1 DEF SessionsInv, SessionsTypeOK
<1> QED
  BY <1>1, <1>2, Unaffected DEF SessionsInv

LEMMA StepInvariant == SessionsInv /\ [SessionsNext]_sessionVars => SessionsInv'
<1> SUFFICES ASSUME SessionsInv, SessionsNext PROVE SessionsInv'
  BY StutterInvariant
<1>1. ASSUME NEW c \in Connections,
             Accept(c) \/ Break(c) \/ Bind(c) \/ Unbind(c) \/ Play(c) \/ Walk(c) \/ Quit(c) \/ Tasks(c)
      PROVE  SessionsInv'
  BY <1>1, AcceptInvariant, CloseInvariant, ClientInvariant, TasksInvariant DEF Break
<1>2. CASE TickDue \/ AskStop
  BY <1>2, CallsInvariant
<1>3. CASE Handle
  BY <1>3, HandleInvariant
<1>4. CASE Notify
  BY <1>4, NotifyInvariant
<1> QED
  BY <1>1, <1>2, <1>3, <1>4 DEF SessionsNext

\* The invariant holds throughout.
THEOREM Invariant == SessionsSpec => []SessionsInv
BY InitInvariant, StepInvariant, PTL DEF SessionsSpec

\* The three properties follow from it.
LEMMA Consequences == SessionsInv => InOrder /\ NoGhosts /\ InGameTogether
<1> SUFFICES ASSUME SessionsInv PROVE InOrder /\ NoGhosts /\ InGameTogether
  OBVIOUS
<1>1. InOrder
  BY DEF SessionsInv, NeverWrong, InOrder
<1>2. NoGhosts
  <2>1. ASSUME NEW u \in DOMAIN observer, service = "up", session[observer[u].conn] = "over"
        PROVE  \E i \in Of(observer[u].conn): actions[i] = Disconnected(observer[u].conn)
    <3> DEFINE c == observer[u].conn
    <3>1. c \in Connections /\ UserOf[c] = u
      BY DEF SessionsInv, SessionsTypeOK
    <3>2. PICK i \in DOMAIN actions: actions[i] = Disconnected(c)
      BY <2>1, <3>1 DEF SessionsInv, Taken, InGame, Observing
    <3>3. i \in Of(c)
      BY <3>2 DEF Of, Disconnected
    <3> QED
      BY <3>2, <3>3
  <2> QED
    BY <2>1 DEF NoGhosts
<1>3. InGameTogether
  BY DEF SessionsInv, ToldInGame, Alone, InGame, Observing, InGameTogether
<1> QED
  BY <1>1, <1>2, <1>3

\* Variables keep their types, no queue exceeds its capacity, the service never
\* handles a request of a user it does not know (request.rs:184), and no client is
\* told anything before Enter (root/state.rs:511).
THEOREM MessagesInOrder == SessionsSpec => []InOrder
BY Invariant, Consequences, PTL

\* A session that is over has said Disconnected, or nobody is in game by it: what
\* takes a player out of the game is never lost (server.rs:260, service.rs:31).
THEOREM NobodyStays == SessionsSpec => []NoGhosts
BY Invariant, Consequences, PTL

\* As long as a user has one connection, a client in game is in game for the server
\* by this connection, until it leaves, the connection closes or the service ends.
THEOREM ClientAndServerAgree == SessionsSpec => []InGameTogether
BY Invariant, Consequences, PTL

-----------------------------------------------------------------------------
(* The application. *)

\* A task that waits to be woken is not polled, so Poll never finds "paused".
SleepsPaused == step # "panicked" /\ (control = "paused" => ~woken)

Before == {"connect", "configure", "generate", "report", "finished", "cancelling"}

\* How far shutdown is says what has happened to the connection and the server.
InStep ==
  /\ root \in Before => link[Own] = None
  /\ root \in Before \cup {"connected", "closing"} => client[Own] # "left"
  /\ root \in {"stopping", "joining"} => link[Own] = "closed"
  /\ root \notin {"joining", "done", "failed"} => ~stop
  /\ ~stop => service # "stopped" /\ \A i \in DOMAIN actions: actions[i] # Stop

\* Without an error the connection closes after its session is over, and the
\* session ends after the client left.
InPeace ==
  ~cut =>
    /\ link[Own] = "closed" => session[Own] = "over"
    /\ service = "up" /\ session[Own] \in {"bye", "over"} => client[Own] = "left"

\* Without an error nothing of the connection comes after Stop.
StopLast ==
  ~cut => \A i \in DOMAIN actions, j \in DOMAIN actions:
    actions[i] = Stop /\ i < j => ~Concerns(j, Own)

\* A place that is not in the columns is that of a player in game; in the end it is
\* in the snapshot.
Kept ==
  /\ \A u \in Users: u \notin stored => u \in DOMAIN observer
  /\ service = "stopped" /\ ~cut => UserOf[Own] \in saved

Ending ==
  /\ root = "failed" => cut \/ service \in Panics
  /\ root = "done" /\ link[Own] # None /\ ~cut => UserOf[Own] \in saved

\* The inductive invariant.
AppInv ==
  /\ SessionsInv /\ AppTypeOK
  /\ SleepsPaused /\ InStep /\ InPeace /\ StopLast /\ Kept /\ Ending

-----------------------------------------------------------------------------
\* What goes on by itself.

\* How the queue of actions may change: the session of a connection adds to it
\* until it is over, the tick task does, and the service takes the first.
QueueChange ==
  \/ UNCHANGED actions
  \/ service' # "up" /\ actions' = <<>>
  \/ \E a \in Actions: /\ actions' = Append(actions, a) /\ Room /\ a # Stop
                       /\ session[Own] # "over" \/ a = Tick
  \/ actions # <<>> /\ actions' = Tail(actions)

\* What the other parts of the invariant need to know of a step.
Progress ==
  /\ link'[Own] = link[Own] \/ (link[Own] # None /\ link'[Own] = "closed")
  /\ client'[Own] = "left" <=> client[Own] = "left"
  /\ stop' = stop
  /\ session[Own] = "over" => session'[Own] = "over"
  /\ service' = "up" /\ session'[Own] \in {"bye", "over"} =>
       session[Own] \in {"bye", "over"} \/ client[Own] = "left"
         \/ (session[Own] # "over" /\ link[Own] = "closed")
  /\ service # "up" => service' = service /\ saved' = saved
  /\ service = "up" /\ service' = "stopped" =>
       actions # <<>> /\ Head(actions) = Stop /\ saved' = stored
  /\ QueueChange
  /\ \A u \in Users: (u \notin stored => u \in DOMAIN observer) =>
                       (u \notin stored' => u \in DOMAIN observer')

\* A step that leaves the queue and the world alone, and what is left of them when
\* the service has ended.
LEMMA QuietProgress ==
  ASSUME UNCHANGED <<actions, service, stop, observer, stored, saved>>,
         link'[Own] = link[Own] \/ (link[Own] # None /\ link'[Own] = "closed"),
         client'[Own] = "left" <=> client[Own] = "left",
         session[Own] = "over" => session'[Own] = "over",
         service = "up" /\ session'[Own] \in {"bye", "over"} =>
           session[Own] \in {"bye", "over"} \/ client[Own] = "left"
             \/ (session[Own] # "over" /\ link[Own] = "closed")
  PROVE  Progress
BY DEF Progress, QueueChange

\* A session that forwards an action.
LEMMA ForwardProgress ==
  ASSUME SessionsInv, NEW a \in Actions, NEW rest, NEW next \in {"serving", "over"},
         Forward(Own, a, rest, next), a # Stop, session[Own] \in {"hello", "serving", "bye"},
         next = "over" => session[Own] = "bye",
         UNCHANGED <<link, client, worldVars>>
  PROVE  Progress
<1>1. session \in [Connections -> {"none", "hello", "serving", "bye", "over"}] /\ Own \in Connections
  BY Kinds, ApplicationAssumption DEF SessionsInv
<1>2. UNCHANGED <<observer, stored, saved>>
  BY DEF worldVars, regionVars, placeVars
<1>3. CASE /\ service = "up" /\ Room /\ actions' = Append(actions, a)
           /\ session' = [session EXCEPT ![Own] = next] /\ UNCHANGED <<service, stop>>
  BY <1>1, <1>2, <1>3 DEF Progress, QueueChange
<1>4. CASE /\ service # "up" /\ session' = [session EXCEPT ![Own] = "over"]
           /\ UNCHANGED <<actions, service, stop>>
  BY <1>1, <1>2, <1>4, QuietProgress
<1> QED
  BY <1>3, <1>4 DEF Forward, serviceVars

\* The tasks of the connection.
LEMMA TasksProgress ==
  ASSUME SessionsInv, Tasks(Own) \/ Break(Own)
  PROVE  Progress
<1>1. /\ Own \in Connections
      /\ link \in [Connections -> {"none", "open", "closed"}]
      /\ session \in [Connections -> {"none", "hello", "serving", "bye", "over"}]
      /\ client \in [Connections -> {"away", "lobby", "game", "left", "panicked"}]
  BY Kinds, ApplicationAssumption DEF SessionsInv
<1> USE DEF clientVars, netVars, worldVars, regionVars, placeVars, serviceVars
<1>2. CASE Receive(Own)
  BY <1>1, <1>2, QuietProgress DEF Receive
<1>3. CASE Arrive(Own) \/ Lose(Own)
  BY <1>3, QuietProgress DEF Arrive, Lose
<1>4. CASE Release(Own) \/ Break(Own)
  BY <1>1, <1>4, QuietProgress DEF Release, Break, Close, None
<1>5. CASE Hangup(Own)
  BY <1>1, <1>5, QuietProgress DEF Hangup
<1>6. CASE Hello(Own)
  BY <1>1, <1>6, ForwardProgress, ActionsDiffer DEF Hello, Actions
<1>7. CASE Serve(Own)
  <2>1. inbox[Own] \in Seq(Messages) /\ inbox[Own] # <<>> /\ session[Own] = "serving"
    BY <1>1, <1>7 DEF Serve, SessionsInv, SessionsTypeOK
  <2>2. Head(inbox[Own]) \in Messages /\ Head(inbox[Own]) = inbox[Own][1] /\ 1 \in DOMAIN inbox[Own]
    <3>1. DOMAIN inbox[Own] = 1 .. Len(inbox[Own]) /\ Len(inbox[Own]) \in Nat /\ Len(inbox[Own]) # 0
      BY <2>1, LenProperties, EmptySeq
    <3> QED
      BY <2>1, <3>1, HeadTailProperties
  <2>3. CASE Head(inbox[Own]) = Disconnect
    <3>1. client[Own] = "left"
      BY <1>1, <2>2, <2>3 DEF SessionsInv, SaidGoodbye
    <3> QED
      BY <1>1, <1>7, <2>3, <3>1, QuietProgress DEF Serve
  <2>4. CASE Head(inbox[Own]) # Disconnect
    <3>1. Request(Own, Head(inbox[Own])) \in Actions \ {Stop}
      BY <1>1, <2>2, <2>4, ActionsDiffer DEF Actions
    <3> QED
      BY <1>1, <1>7, <2>4, <3>1, ForwardProgress DEF Serve
  <2> QED
    BY <2>3, <2>4
<1>8. CASE Bye(Own)
  BY <1>1, <1>8, ForwardProgress, ActionsDiffer DEF Bye, Actions
<1> QED
  BY <1>2, <1>3, <1>4, <1>5, <1>6, <1>7, <1>8 DEF Tasks

\* The service.
LEMMA HandleProgress ==
  ASSUME SessionsInv, Handle
  PROVE  Progress
<1>1. /\ Own \in Connections
      /\ link \in [Connections -> {"none", "open", "closed"}]
  BY Kinds, ApplicationAssumption DEF SessionsInv
<1>2. /\ service = "up" /\ actions # <<>>
      /\ UNCHANGED <<client, session, stop>>
  BY DEF Handle, clientVars
<1> DEFINE a == Head(actions)
<1>3. a \in Actions
  BY <1>2, FirstAction
<1>4. ASSUME actions' = Tail(actions), UNCHANGED <<service, link>>,
             \A u \in Users: (u \notin stored => u \in DOMAIN observer) =>
                               (u \notin stored' => u \in DOMAIN observer')
      PROVE  Progress
  BY <1>2, <1>4 DEF Progress, QueueChange
<1>5. ASSUME NEW why \in Panics \cup {"unknown"}, Panic(why) PROVE Progress
  <2>1. service' = why /\ actions' = <<>> /\ UNCHANGED <<link, observer, stored, saved>>
    BY <1>5 DEF Panic, End
  <2>2. why \notin {"up", "stopped"}
    BY DEF Panics
  <2> QED
    BY <1>2, <2>1, <2>2 DEF Progress, QueueChange
<1>6. ASSUME Done, UNCHANGED <<link, observer, stored>> PROVE Progress
  BY <1>4, <1>6 DEF Done
<1>7. CASE a.kind = "connected" /\ HandleConnected(a.conn)
  BY <1>5, <1>6, <1>7 DEF HandleConnected, Quiet, placeVars, Panics
<1>8. CASE a.kind = "disconnected" /\ HandleDisconnected(a.conn)
  <2> DEFINE u == UserOf[a.conn]
  <2>1. CASE Done /\ Quiet /\ Idle
    BY <1>6, <2>1 DEF Quiet, Idle, worldVars, placeVars
  <2>2. CASE Done /\ Quiet /\ observer' = Without(u) /\ stored' = stored \cup {u}
    <3>1. DOMAIN observer' = DOMAIN observer \ {u}
      BY <2>2 DEF Without, Restrict
    <3> QED
      BY <1>4, <2>2, <3>1 DEF Done, Quiet
  <2>3. CASE Panic("bodyless")
    BY <1>5, <2>3 DEF Panics
  <2> QED
    BY <1>8, <2>1, <2>2, <2>3 DEF HandleDisconnected
<1>9. CASE a.kind = "request" /\ HandleRequest(a.conn, a.request)
  <2> DEFINE c == a.conn
             u == UserOf[c]
  <2>1. c = Own
    BY <1>3, <1>9, ActionOfKind, ApplicationAssumption
  <2>2. CASE Refuse(c)
    <3>1. link[Own] # "none"
      BY <1>2, <1>3, <1>9, <2>1, FirstAction, ActionOfKind DEF SessionsInv, NotYet, None
    <3>2. /\ UNCHANGED <<service, observer, stored>> /\ actions' = Tail(actions)
          /\ link' = [d \in Connections |-> IF d = Own THEN "closed" ELSE link[d]]
      BY <2>1, <2>2 DEF Refuse, Idle, Close, Done, worldVars, placeVars
    <3> QED
      BY <1>1, <1>2, <3>1, <3>2 DEF Progress, QueueChange, None
  <2>3. CASE HandleEnter(c, u) /\ ~Refuse(c)
    <3>1. /\ Done /\ UNCHANGED link /\ stored' = stored \ {u}
          /\ observer' = [v \in DOMAIN observer \cup {u} |->
                            IF v = u THEN [conn |-> c, body |-> FALSE] ELSE observer[v]]
      BY <2>3 DEF HandleEnter
    <3>2. DOMAIN observer' = DOMAIN observer \cup {u}
      BY <3>1
    <3> QED
      BY <1>4, <3>1, <3>2 DEF Done
  <2>4. CASE HandleSlots(c, u)
    BY <1>6, <2>4 DEF HandleSlots, Answer, Idle, worldVars, placeVars
  <2>5. CASE HandleCreate(c, u) /\ ~Refuse(c)
    BY <1>6, <2>5 DEF HandleCreate, Answer, placeVars
  <2>6. CASE HandleDelete(c, u)
    BY <1>5, <1>6, <2>6 DEF HandleDelete, Answer, Idle, worldVars, placeVars, Panics
  <2>7. CASE HandleUpdateSelf(c, u) /\ ~Refuse(c)
    BY <1>6, <2>7 DEF HandleUpdateSelf, Quiet, Idle, worldVars, placeVars
  <2>8. CASE Panic("unknown")
    BY <1>5, <2>8
  <2> QED
    BY <1>9, <2>2, <2>3, <2>4, <2>5, <2>6, <2>7, <2>8 DEF HandleRequest, HandleKnown
<1>10. CASE a = Tick /\ HandleTick
  <2>1. CASE Panic("astray")
    BY <1>5, <2>1 DEF Panics
  <2>2. CASE ~Panic("astray")
    <3>1. DOMAIN observer' = DOMAIN observer
      BY <1>10, <2>2 DEF HandleTick
    <3> QED
      BY <1>4, <1>10, <2>2, <3>1 DEF HandleTick, Quiet, placeVars
  <2> QED
    BY <2>1, <2>2
<1>11. CASE a = Stop /\ HandleStop
  BY <1>2, <1>11 DEF HandleStop, End, Progress, QueueChange
<1> QED
  BY <1>7, <1>8, <1>9, <1>10, <1>11 DEF Handle

LEMMA GoesProgress ==
  ASSUME SessionsInv, Goes
  PROVE  Progress
<1>1. Own \in Connections /\ \A c \in Connections: c = Own
  BY ApplicationAssumption
<1>2. CASE \E c \in Connections: Tasks(c) \/ Break(c)
  BY <1>1, <1>2, TasksProgress
<1>3. CASE TickDue
  <2>1. Tick \in Actions /\ Tick # Stop
    BY ActionsDiffer DEF Actions
  <2> QED
    BY <1>3, <2>1 DEF TickDue, Progress, QueueChange, clientVars, netVars, worldVars, regionVars, placeVars
<1>4. CASE Handle
  BY <1>4, HandleProgress
<1>5. CASE Notify
  BY <1>5, QuietProgress DEF Notify, clientVars, netVars, worldVars, regionVars, placeVars
<1> QED
  BY <1>2, <1>3, <1>4, <1>5 DEF Goes

-----------------------------------------------------------------------------
\* The steps of the application.

Roots == {"connect", "connected", "configure", "generate", "report", "finished", "closing",
          "waiting", "stopping", "joining", "cancelling", "done", "failed"}

GenerationTypeOK ==
  /\ step \in {"off", "wait"} \union Works \union Over
  /\ control \in {"running", "pending", "paused", "cancelled"} /\ woken \in BOOLEAN
  /\ file \in {"none", "created", "world"}

LEMMA TypesOfParts ==
  AppTypeOK <=> SessionsTypeOK /\ root \in Roots /\ GenerationTypeOK /\ cut \in BOOLEAN
BY DEF AppTypeOK, Roots, GenerationTypeOK

\* What each part of the invariant reads.
LEMMA AppUnaffected ==
  /\ GenerationTypeOK /\ UNCHANGED generationVars => GenerationTypeOK'
  /\ SleepsPaused /\ UNCHANGED generationVars => SleepsPaused'
  /\ InStep /\ UNCHANGED <<root, link, client, stop, service, actions>> => InStep'
  /\ InPeace /\ UNCHANGED <<cut, link, session, service, client>> => InPeace'
  /\ StopLast /\ UNCHANGED <<cut, actions>> => StopLast'
  /\ Kept /\ UNCHANGED <<cut, stored, saved, observer, service>> => Kept'
  /\ Ending /\ UNCHANGED <<root, cut, service, link, saved>> => Ending'
BY DEF GenerationTypeOK, SleepsPaused, generationVars, InStep, InPeace, StopLast, Concerns, Kept, Ending

\* Nothing that goes on by itself sends Stop.
LEMMA NoNewStop ==
  ASSUME SessionsInv, QueueChange, NEW i \in DOMAIN actions', actions'[i] = Stop
  PROVE  \E j \in DOMAIN actions: actions[j] = Stop
<1>1. CASE UNCHANGED actions
  BY <1>1
<1>2. CASE actions' = <<>>
  BY <1>2
<1>3. ASSUME NEW a \in Actions, actions' = Append(actions, a), Room, a # Stop
      PROVE  \E j \in DOMAIN actions: actions[j] = Stop
  BY <1>3, ActionSent DEF SessionsInv
<1>4. CASE actions # <<>> /\ actions' = Tail(actions)
  BY <1>4, ActionHandled DEF SessionsInv
<1> QED
  BY <1>1, <1>2, <1>3, <1>4 DEF QueueChange

\* Nor does anything of the connection come to lie behind Stop, for the session is
\* over when Stop is sent.
LEMMA QueuedLast ==
  ASSUME SessionsInv, SessionsTypeOK', QueueChange, cut = FALSE, StopLast,
         (\E i \in DOMAIN actions: actions[i] = Stop) => session[Own] = "over"
  PROVE  StopLast'
<1>1. CASE UNCHANGED actions
  BY <1>1 DEF StopLast, Concerns
<1>2. CASE actions' = <<>>
  <2>1. DOMAIN actions' = {}
    BY <1>2
  <2> QED
    BY <2>1 DEF StopLast
<1>3. ASSUME NEW a \in Actions, actions' = Append(actions, a), Room, a # Stop,
             session[Own] # "over" \/ a = Tick
      PROVE  StopLast'
  <2>1. /\ \A i \in DOMAIN actions: i \in DOMAIN actions' /\ actions'[i] = actions[i]
    BY <1>3, ActionSent DEF SessionsInv
  <2>2. PICK n \in DOMAIN actions': /\ actions'[n] = a /\ DOMAIN actions' = DOMAIN actions \cup {n}
                                    /\ \A i \in DOMAIN actions: i < n
    BY <1>3, ActionSent DEF SessionsInv
  <2>3. ASSUME NEW i \in DOMAIN actions', NEW j \in DOMAIN actions', actions'[i] = Stop, i < j
        PROVE  ~Concerns(j, Own)'
    <3>1. i \in DOMAIN actions
      BY <1>3, <2>2, <2>3
    <3>2. session[Own] = "over" /\ a = Tick
      BY <1>3, <2>1, <2>3, <3>1
    <3>3. CASE j \in DOMAIN actions
      BY <2>1, <2>3, <3>1, <3>3 DEF StopLast, Concerns
    <3>4. CASE j = n
      BY <2>2, <3>2, <3>4, ActionsDiffer DEF Concerns
    <3> QED
      BY <2>2, <3>3, <3>4
  <2> QED
    BY <2>3 DEF StopLast
<1>4. CASE actions # <<>> /\ actions' = Tail(actions)
  <2>1. \A i \in DOMAIN actions': i \in Nat /\ i + 1 \in DOMAIN actions /\ actions'[i] = actions[i + 1]
    BY <1>4, ActionHandled DEF SessionsInv
  <2>2. ASSUME NEW i \in DOMAIN actions', NEW j \in DOMAIN actions', actions'[i] = Stop, i < j
        PROVE  ~Concerns(j, Own)'
    <3>1. i + 1 \in DOMAIN actions /\ j + 1 \in DOMAIN actions /\ i + 1 < j + 1 /\ actions[i + 1] = Stop
      BY <2>1, <2>2
    <3>2. ~Concerns(j + 1, Own) /\ actions'[j] = actions[j + 1]
      BY <2>1, <3>1 DEF StopLast
    <3> QED
      BY <3>2 DEF Concerns
  <2> QED
    BY <2>2 DEF StopLast
<1> QED
  BY <1>1, <1>2, <1>3, <1>4 DEF QueueChange

\* The place of a player whose session is over is in the columns when Stop is next.
LEMMA StoredAtStop ==
  ASSUME SessionsInv, StopLast, Kept, cut = FALSE, service = "up", session[Own] = "over",
         actions # <<>>, Head(actions) = Stop
  PROVE  UserOf[Own] \in stored
<1>1. Own \in Connections /\ Connections = {Own} /\ UserOf[Own] \in Users
  BY ApplicationAssumption, SessionsAssumption
<1>2. SUFFICES ASSUME UserOf[Own] \in DOMAIN observer PROVE FALSE
  BY <1>1 DEF Kept
<1>3. InGame(Own)
  BY <1>1, <1>2 DEF InGame, Observing, SessionsInv, SessionsTypeOK
<1>4. PICK i \in DOMAIN actions: actions[i] = Disconnected(Own)
  BY <1>1, <1>3 DEF SessionsInv, Taken
<1>5. 1 \in DOMAIN actions /\ actions[1] = Stop /\ i \in Nat /\ i >= 1
  BY FirstAction
<1>6. i # 1
  BY <1>4, <1>5, ActionsDiffer
<1> QED
  BY <1>4, <1>5, <1>6 DEF StopLast, Concerns

\* What goes on by itself.
LEMMA GoesInvariant ==
  ASSUME AppInv, Alive, Goes, UNCHANGED generationVars
  PROVE  AppInv'
<1>1. SessionsInv'
  BY TasksInvariant, CloseInvariant, CallsInvariant, HandleInvariant, NotifyInvariant
  DEF AppInv, Goes, Break
<1>2. Progress /\ root' = root
      /\ cut' = (cut \/ (link[Own] = "open" /\ link'[Own] = "closed" /\ session[Own] # "over"))
  BY GoesProgress DEF AppInv, Goes
<1>3. AppTypeOK'
  <2>1. cut' \in BOOLEAN
    BY <1>2
  <2>2. SessionsTypeOK' /\ root' \in Roots /\ GenerationTypeOK'
    BY <1>1, <1>2, AppUnaffected, TypesOfParts DEF AppInv, SessionsInv
  <2> QED
    BY <2>1, <2>2 DEF AppTypeOK, Roots, GenerationTypeOK
<1>4. link[Own] \in {"none", "open", "closed"}
  BY Kinds, ApplicationAssumption DEF AppInv, SessionsInv
<1>5. InStep'
  <2>1. ASSUME ~stop PROVE service' # "stopped" /\ \A i \in DOMAIN actions': actions'[i] # Stop
    <3>1. service # "stopped" /\ \A i \in DOMAIN actions: actions[i] # Stop
      BY <2>1 DEF AppInv, InStep
    <3>2. service' # "stopped"
      BY <1>2, <3>1, FirstAction DEF Progress, AppInv, SessionsInv, SessionsTypeOK
    <3> QED
      BY <1>2, <3>1, <3>2, NoNewStop DEF Progress, AppInv
  <2> QED
    BY <1>2, <1>4, <2>1 DEF AppInv, InStep, Progress, None
<1>6. InPeace'
  BY <1>2, <1>4 DEF AppInv, InPeace, Progress, None
<1>7. cut = FALSE /\ stop => session[Own] = "over"
  BY DEF AppInv, InStep, InPeace, Alive
<1>8. StopLast'
  <2>1. (\E i \in DOMAIN actions: actions[i] = Stop) => stop
    BY DEF AppInv, InStep
  <2>2. cut \in BOOLEAN /\ (cut' = FALSE => cut = FALSE)
    BY <1>2, TypesOfParts DEF AppInv
  <2>3. CASE cut'
    BY <2>3 DEF StopLast
  <2>4. CASE cut = FALSE
    BY <1>1, <1>2, <1>7, <2>1, <2>4, QueuedLast DEF AppInv, Progress, SessionsInv
  <2> QED
    BY <1>2, <2>2, <2>3, <2>4
<1>9. Kept'
  <2>1. \A u \in Users: u \notin stored' => u \in DOMAIN observer'
    BY <1>2 DEF Progress, AppInv, Kept
  <2>2. ASSUME service' = "stopped", ~cut' PROVE UserOf[Own] \in saved'
    <3>1. ~cut /\ cut \in BOOLEAN
      BY <1>2, <2>2, TypesOfParts DEF AppInv
    <3>2. CASE service # "up"
      BY <1>2, <2>2, <3>1, <3>2 DEF AppInv, Kept, Progress
    <3>3. CASE service = "up"
      <4>1. actions # <<>> /\ Head(actions) = Stop /\ saved' = stored
        BY <1>2, <2>2, <3>3 DEF Progress
      <4>2. stop
        BY <4>1, FirstAction DEF AppInv, InStep
      <4> QED
        BY <1>7, <3>1, <3>3, <4>1, <4>2, StoredAtStop DEF AppInv
    <3> QED
      BY <3>2, <3>3
  <2> QED
    BY <2>1, <2>2 DEF Kept
<1>10. Ending'
  BY <1>2 DEF Ending, Alive
<1> QED
  BY <1>1, <1>3, <1>5, <1>6, <1>8, <1>9, <1>10, AppUnaffected DEF AppInv

\* The steps that only go from one stage to the next.
LEMMA StageInvariant ==
  ASSUME AppInv, Alive, root' \in Roots, UNCHANGED <<sessionVars, generationVars, cut>>, InStep', Ending'
  PROVE  AppInv'
<1>1. SessionsInv'
  BY StutterInvariant DEF AppInv
<1>2. UNCHANGED <<link, client, session, service, actions, stop, stored, saved, observer, cut>>
  BY DEF sessionVars, clientVars, netVars, worldVars, regionVars, placeVars, serviceVars
<1>3. SessionsTypeOK' /\ GenerationTypeOK' /\ cut' \in BOOLEAN
  BY <1>1, <1>2, AppUnaffected, TypesOfParts DEF AppInv, SessionsInv
<1>4. AppTypeOK'
  BY <1>3 DEF AppTypeOK, Roots, GenerationTypeOK
<1> QED
  BY <1>1, <1>2, <1>4, AppUnaffected DEF AppInv

\* The steps of the player and the world, apart from what goes on by itself.
LEMMA PlayInvariant ==
  ASSUME AppInv, Alive, PlayNext, UNCHANGED generationVars
  PROVE  AppInv'
<1>1. /\ Own \in Connections
      /\ link \in [Connections -> {"none", "open", "closed"}]
      /\ session \in [Connections -> {"none", "hello", "serving", "bye", "over"}]
      /\ client \in [Connections -> {"away", "lobby", "game", "left", "panicked"}]
  BY Kinds, ApplicationAssumption DEF AppInv, SessionsInv
<1>2. cut \in BOOLEAN /\ GenerationTypeOK' /\ root \in Roots
  BY TypesOfParts, AppUnaffected DEF AppInv
<1>3. CASE Connect
  <2>1. SessionsInv' /\ cut' = cut /\ root = "connect" /\ root' = "connected"
    BY <1>1, <1>3, AcceptInvariant DEF Connect, AppInv
  <2>2. /\ link' = [link EXCEPT ![Own] = "open"] /\ session' = [session EXCEPT ![Own] = "hello"]
        /\ client' = [client EXCEPT ![Own] = "lobby"]
        /\ UNCHANGED <<service, actions, stop, stored, saved, observer>>
    BY <1>3 DEF Connect, Accept, worldVars, regionVars, placeVars, serviceVars
  <2>3. AppTypeOK'
    BY <1>2, <2>1 DEF AppTypeOK, SessionsInv, GenerationTypeOK
  <2>4. InStep' /\ InPeace' /\ Ending'
    BY <1>1, <2>1, <2>2 DEF AppInv, InStep, InPeace, Ending, Before, None
  <2> QED
    BY <2>1, <2>2, <2>3, <2>4, AppUnaffected DEF AppInv
<1>4. CASE ConnectFails
  <2>1. root = "connect" /\ root' = "report" /\ UNCHANGED <<sessionVars, cut>>
    BY <1>4 DEF ConnectFails
  <2>2. UNCHANGED <<link, client, service, actions, stop>>
    BY <2>1 DEF sessionVars, clientVars, netVars, serviceVars
  <2>3. InStep' /\ Ending'
    BY <2>1, <2>2 DEF AppInv, InStep, Ending, Before
  <2> QED
    BY <2>1, <2>3, StageInvariant DEF Roots
<1>5. CASE Act
  <2>1. SessionsInv' /\ cut' = cut /\ root' = root
    BY <1>1, <1>5, ClientInvariant DEF Act, AppInv
  <2>2. UNCHANGED <<link, session, client, service, actions, stop, stored, saved, observer>>
    BY <1>5 DEF Act, Bind, Unbind, Play, Click, Walk, Send, worldVars, regionVars, placeVars, serviceVars
  <2>3. AppTypeOK'
    BY <1>2, <2>1 DEF AppTypeOK, SessionsInv, GenerationTypeOK, Roots
  <2> QED
    BY <2>1, <2>2, <2>3, AppUnaffected DEF AppInv
<1>6. CASE Goes
  BY <1>6, GoesInvariant
<1>7. CASE Leave
  <2>1. /\ root \in {"connect", "connected", "configure", "generate", "report", "finished"}
        /\ root' \in {"closing", "cancelling", "done"} /\ UNCHANGED <<sessionVars, cut>>
        /\ root' = "closing" <=> root = "connected"
    BY <1>7 DEF Leave
  <2>2. UNCHANGED <<link, client, service, actions, stop, saved>>
    BY <2>1 DEF sessionVars, clientVars, netVars, worldVars, regionVars, placeVars, serviceVars
  <2>3. InStep' /\ Ending'
    BY <2>1, <2>2 DEF AppInv, InStep, Ending, Before
  <2> QED
    BY <2>1, <2>3, StageInvariant DEF Roots
<1>8. CASE Goodbye
  <2>1. CASE link[Own] = "open" /\ Send(Own, Disconnect) /\ root' = "waiting"
             /\ client' = [client EXCEPT ![Own] = "left"] /\ UNCHANGED <<view, sent, cut>>
    <3>1. SessionsInv'
      <4>1. Disconnect \in Messages /\ sent \in 0 .. MaxSent + 1
        BY DEF Messages, AppInv, SessionsInv, SessionsTypeOK
      <4> QED
        BY <1>1, <2>1, <4>1, SendInvariant DEF Send, AppInv
    <3>2. /\ UNCHANGED <<link, session, service, actions, stop, stored, saved, observer>>
          /\ root = "closing" /\ client'[Own] = "left"
      BY <1>1, <1>8, <2>1 DEF Goodbye, Send, worldVars, regionVars, placeVars, serviceVars
    <3>3. AppTypeOK'
      BY <1>2, <2>1, <3>1 DEF AppTypeOK, SessionsInv, GenerationTypeOK
    <3>4. InStep' /\ InPeace' /\ Ending'
      BY <2>1, <3>2 DEF AppInv, InStep, InPeace, Ending, Before
    <3> QED
      BY <2>1, <3>1, <3>2, <3>3, <3>4, AppUnaffected DEF AppInv
  <2>2. CASE link[Own] = "closed" /\ root' = "failed" /\ UNCHANGED <<sessionVars, cut>>
    <3>1. UNCHANGED <<link, client, service, actions, stop, saved>> /\ root = "closing"
      BY <1>8, <2>2 DEF Goodbye, sessionVars, clientVars, netVars, worldVars, regionVars, placeVars, serviceVars
    <3>2. cut \/ service \in Panics
      BY <2>2, <3>1 DEF AppInv, InStep, InPeace, Before, SessionsInv, SessionsTypeOK, NeverWrong, Panics
    <3>3. InStep' /\ Ending'
      BY <2>2, <3>1, <3>2 DEF AppInv, InStep, Ending, Before
    <3> QED
      BY <2>2, <3>3, StageInvariant DEF Roots
  <2> QED
    BY <1>8, <2>1, <2>2 DEF Goodbye
<1>9. CASE Released
  <2>1. root = "waiting" /\ link[Own] = "closed" /\ root' = "stopping" /\ UNCHANGED <<sessionVars, cut>>
    BY <1>9 DEF Released
  <2>2. UNCHANGED <<link, client, service, actions, stop>>
    BY <2>1 DEF sessionVars, clientVars, netVars, serviceVars
  <2>3. InStep' /\ Ending'
    BY <2>1, <2>2 DEF AppInv, InStep, Ending, Before
  <2> QED
    BY <2>1, <2>3, StageInvariant DEF Roots
<1>10. CASE StopServer
  <2>1. CASE AskStop /\ root' = "joining" /\ UNCHANGED cut
    <3>1. SessionsInv'
      BY <2>1, CallsInvariant DEF AppInv
    <3>2. /\ root = "stopping" /\ stop' /\ Room /\ actions' = Append(actions, Stop) /\ service = "up"
          /\ UNCHANGED <<link, session, client, service, stored, saved, observer>>
      BY <1>10, <2>1 DEF StopServer, AskStop, clientVars, netVars, worldVars, regionVars, placeVars
    <3>3. AppTypeOK'
      BY <1>2, <2>1, <3>1 DEF AppTypeOK, SessionsInv, GenerationTypeOK
    <3>4. InStep' /\ Ending'
      BY <2>1, <3>2 DEF AppInv, InStep, Ending, Before
    <3>5. StopLast'
      <4>1. PICK n \in DOMAIN actions': /\ actions'[n] = Stop /\ DOMAIN actions' = DOMAIN actions \cup {n}
                                        /\ \A i \in DOMAIN actions: i < n /\ actions'[i] = actions[i]
        BY <3>2, ActionSent DEF AppInv, SessionsInv, Actions
      <4>2. \A i \in DOMAIN actions: actions[i] # Stop
        BY <3>2 DEF AppInv, InStep
      <4>3. ASSUME NEW i \in DOMAIN actions', NEW j \in DOMAIN actions', actions'[i] = Stop, i < j
            PROVE  ~Concerns(j, Own)'
        <5>1. i = n
          BY <4>1, <4>2, <4>3
        <5>2. actions' \in Seq(Actions)
          BY <3>1 DEF SessionsInv, SessionsTypeOK
        <5>3. i \in Int /\ j \in Int /\ n \in Int
          BY <5>2, LenProperties
        <5>4. j \notin DOMAIN actions /\ j # n
          BY <4>1, <4>3, <5>1, <5>3
        <5> QED
          BY <4>1, <5>4
      <4> QED
        BY <4>3 DEF StopLast
    <3> QED
      BY <2>1, <3>1, <3>2, <3>3, <3>4, <3>5, AppUnaffected DEF AppInv
  <2>2. CASE service # "up" /\ root' = "failed" /\ UNCHANGED <<sessionVars, cut>>
    <3>1. UNCHANGED <<link, client, service, actions, stop, saved>> /\ root = "stopping"
      BY <1>10, <2>2 DEF StopServer, sessionVars, clientVars, netVars, worldVars, regionVars, placeVars, serviceVars
    <3>2. service \in Panics
      BY <2>2, <3>1 DEF AppInv, InStep, SessionsInv, SessionsTypeOK, NeverWrong, Panics
    <3>3. InStep' /\ Ending'
      BY <2>2, <3>1, <3>2 DEF AppInv, InStep, Ending, Before
    <3> QED
      BY <2>2, <3>3, StageInvariant DEF Roots
  <2> QED
    BY <1>10, <2>1, <2>2 DEF StopServer
<1>11. CASE Joined
  <2>1. /\ root = "joining" /\ service # "up" /\ UNCHANGED <<sessionVars, cut>>
        /\ root' = IF service = "stopped" THEN "done" ELSE "failed"
    BY <1>11 DEF Joined
  <2>2. UNCHANGED <<link, client, service, actions, stop, saved>>
    BY <2>1 DEF sessionVars, clientVars, netVars, worldVars, regionVars, placeVars, serviceVars
  <2>3. service \in {"stopped"} \cup Panics
    BY <2>1 DEF AppInv, SessionsInv, SessionsTypeOK, NeverWrong, Panics
  <2>4. InStep' /\ Ending'
    BY <2>1, <2>2, <2>3 DEF AppInv, InStep, Ending, Before, Kept
  <2> QED
    BY <2>1, <2>4, StageInvariant DEF Roots
<1> QED
  BY <1>3, <1>4, <1>5, <1>6, <1>7, <1>8, <1>9, <1>10, <1>11 DEF PlayNext

\* The steps that make a world: the task is woken only when it does not sleep.
LEMMA CreateInvariant ==
  ASSUME AppInv, Alive, CreateNext, UNCHANGED <<sessionVars, cut>>
  PROVE  AppInv'
<1>1. SessionsInv'
  BY StutterInvariant DEF AppInv
<1>2. UNCHANGED <<link, client, session, service, actions, stop, stored, saved, observer, cut>>
  BY DEF sessionVars, clientVars, netVars, worldVars, regionVars, placeVars, serviceVars
<1>3. GenerationTypeOK /\ step # "panicked" /\ (control = "paused" => ~woken)
  BY TypesOfParts DEF AppInv, SleepsPaused
<1>4. GenerationTypeOK' /\ SleepsPaused'
  <2> USE <1>3 DEF GenerationTypeOK, SleepsPaused, Works, Over
  <2>1. CASE UNCHANGED generationVars
    BY <2>1 DEF generationVars
  <2>2. CASE Generate
    BY <2>2 DEF Generate
  <2>3. CASE Work
    BY <2>3 DEF Work, CreateFile, Compute, Populate, WriteWorld, GenerateError, Step
  <2>4. CASE Poll
    BY <2>4 DEF Poll
  <2>5. CASE Pause
    BY <2>5 DEF Pause
  <2>6. CASE Unpause \/ Cancel
    BY <2>6 DEF Unpause, Cancel, Replace
  <2> QED
    BY <2>1, <2>2, <2>3, <2>4, <2>5, <2>6 DEF CreateNext, Create, GeneratorFinished,
       CancelGenerator, Generating
<1>5. /\ root \in {"configure", "generate", "cancelling"}
      /\ root' \in {"generate", "finished", "report", "cancelling", "done"}
  BY <1>3 DEF CreateNext, Create, GeneratorFinished, CancelGenerator, Generating
<1>6. AppTypeOK'
  BY <1>1, <1>2, <1>4, <1>5, TypesOfParts DEF AppInv, AppTypeOK, SessionsInv, GenerationTypeOK
<1>7. InStep' /\ Ending'
  BY <1>2, <1>5 DEF AppInv, InStep, Ending, Before
<1> QED
  BY <1>1, <1>2, <1>4, <1>6, <1>7, AppUnaffected DEF AppInv

-----------------------------------------------------------------------------
\* The whole application.

LEMMA AppInitInvariant == AppInit => AppInv
<1> SUFFICES ASSUME AppInit PROVE AppInv
  OBVIOUS
<1>1. SessionsInv
  BY InitInvariant DEF AppInit
<1>2. /\ Own \in Connections /\ link[Own] = None /\ client[Own] = "away" /\ session[Own] = None
      /\ actions = <<>> /\ service = "up" /\ stop = FALSE /\ stored = Users
  BY ApplicationAssumption DEF AppInit, SessionsInit
<1>3. DOMAIN actions = {} /\ cut = FALSE /\ root \in {"connect", "configure"}
  BY <1>2 DEF AppInit
<1>4. GenerationTypeOK /\ SleepsPaused
  BY DEF AppInit, GenerationInit, GenerationTypeOK, SleepsPaused
<1>5. AppTypeOK
  BY <1>1, <1>3, <1>4 DEF AppTypeOK, SessionsInv, GenerationTypeOK
<1>6. InStep /\ InPeace /\ StopLast /\ Kept /\ Ending
  BY <1>2, <1>3 DEF InStep, InPeace, StopLast, Kept, Ending, Before, None
<1> QED
  BY <1>1, <1>4, <1>5, <1>6 DEF AppInv

LEMMA AppStepInvariant == AppInv /\ [AppNext]_appVars => AppInv'
<1>1. ASSUME AppInv, AppNext PROVE AppInv'
  BY <1>1, PlayInvariant, CreateInvariant DEF AppNext
<1>2. ASSUME AppInv, UNCHANGED appVars PROVE AppInv'
  <2>1. UNCHANGED <<sessionVars, generationVars, root, cut>>
    BY <1>2 DEF appVars
  <2>2. SessionsInv'
    BY <1>2, <2>1, StutterInvariant DEF AppInv
  <2>3. UNCHANGED <<link, client, session, service, actions, stop, stored, saved, observer>>
    BY <2>1 DEF sessionVars, clientVars, netVars, worldVars, regionVars, placeVars, serviceVars
  <2>4. AppTypeOK'
    BY <1>2, <2>1, <2>2, AppUnaffected, TypesOfParts DEF AppInv, SessionsInv, AppTypeOK, GenerationTypeOK
  <2> QED
    BY <1>2, <2>1, <2>2, <2>3, <2>4, AppUnaffected DEF AppInv
<1> QED
  BY <1>1, <1>2

\* The invariant holds throughout.
THEOREM AppInvariant == AppSpec => []AppInv
BY AppInitInvariant, AppStepInvariant, PTL DEF AppSpec

\* Variables keep their types; shutdown fails only after the connection was closed
\* by an error or lost, or the service had panicked for one of four reasons that lie
\* in the world: the index of players was full (cursor.rs:189), a reused index was
\* freed (db_vec.rs:69), there was no body to remove (observer.rs:120), or a tick met
\* regions it did not expect (region.rs:315, world.rs:244); the task that generates a
\* world is never polled while it sleeps (control.rs:70).
THEOREM LeavingFailsForAReason == AppSpec => []FailsForAReason
<1>1. AppInv => FailsForAReason
  BY DEF AppInv, SleepsPaused, Ending, FailsForAReason
<1> QED
  BY <1>1, AppInvariant, PTL

\* When shutdown succeeds and the connection was not cut, the place of the player is
\* in the last snapshot (root/state.rs:80, server.rs:260).
THEOREM LeavingSavesThePlace == AppSpec => []PlaceSaved
<1>1. AppInv => PlaceSaved
  BY DEF AppInv, Ending, PlaceSaved
<1> QED
  BY <1>1, AppInvariant, PTL

=============================================================================
