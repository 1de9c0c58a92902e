--------------------------- MODULE EventDelivery ----------------------------
(***************************************************************************)
(* Event delivery end to end: the event bus, the server's socket task      *)
(* (event_stream, event_socket and handle_event_control in                 *)
(* src-tauri/src/transport/web/server.rs), one browser tab's HttpTransport *)
(* and the network between them.                                           *)
(*                                                                         *)
(* A WebSocket and the EventConnection that serves it share their id.      *)
(* `cookie` is the session that the server accepts from this browser, or   *)
(* NoSession.  A session id also stands for its CSRF token.  The network   *)
(* keeps the order of a socket's messages and may lose a socket with all   *)
(* that is in flight on it.                                                *)
(***************************************************************************)
EXTENDS EventBus

CONSTANTS
    Handlers, EventOf, NoSocket,
    Level,           \* the authorization of the browser's sessions
    MaxLosses,       \* bound: sockets lost to the network in a behaviour
    MaxEnds,         \* bound: sessions that log out or expire
    MaxRequests,     \* bound: requests sent
    MaxRestarts      \* bound: restarts of the server

(***************************************************************************)
(* subscribe() refuses an event that the session's level does not permit   *)
(* before anything is sent.                                                *)
(***************************************************************************)
ASSUME TabAssumption ==
    /\ EventOf \in [Handlers -> Events]
    /\ NoSocket \notin ConnIds
    /\ Level \in Granted
    /\ \A h \in Handlers : permits(Level, Required[EventOf[h]])

ASSUME BoundsAssumption ==
    /\ MaxLosses \in Nat /\ MaxEnds \in Nat /\ MaxRequests \in Nat /\ MaxRestarts \in Nat

VARIABLES
    transport,
    cookie,
    issued,          \* sessions issued so far: an id is never issued twice
    ending,          \* sessions whose logout or expiry is half done
    requests,        \* the sessions that requests on their way were sent with
    losses, ends, sent, restarts,
    delivered,       \* auxiliary: <<restarts, sequence>> of the events given to handlers, in order
    owed,            \* auxiliary: envelopes published while subscribed to, see Owe
    carried          \* auxiliary: initialize() set a session and kept lastSequence

Client == INSTANCE HttpTransport WITH Sockets <- ConnIds

serverVars == <<cookie, issued, ending, ends, restarts>>
netVars == <<serverVars, requests, sent, losses>>
deliveryVars == <<delivered, owed, carried>>
vars == <<busVars, transport, netVars, deliveryVars>>

Init ==
    /\ BusInit
    /\ Client!Init
    /\ \E s \in SessionIds : cookie = s /\ issued = {s}
    /\ ending = {}
    /\ requests = {}
    /\ losses = 0 /\ ends = 0 /\ sent = 0 /\ restarts = 0
    /\ delivered = <<>>
    /\ owed = {}
    /\ carried = FALSE
-----------------------------------------------------------------------------
(***************************************************************************)
(* The server's socket task.                                               *)
(***************************************************************************)

\* Messages to a socket that is being closed reach nobody.
Reply(t, k, messages) ==
    IF t.readyState[k] \in {"upgraded", "open"} THEN [t EXCEPT !.inbox[k] = @ \o messages] ELSE t

EventMessage(envelope) == [type |-> "event", envelope |-> envelope]

\* event_stream: the session's cookie is accepted and the bus has room.
Accept(k) ==
    /\ transport.readyState[k] = "connecting"
    /\ cookie # NoSession
    /\ Connect(cookie, Level, k)
    /\ transport' = [transport EXCEPT !.readyState[k] = "upgraded"]
    /\ UNCHANGED <<netVars, deliveryVars>>

\* event_stream, or the security gate before it, refuses.
Refuse(k) ==
    /\ transport.readyState[k] = "connecting"
    /\ \/ cookie = NoSession /\ UNCHANGED busVars
       \/ cookie # NoSession /\ ConnectRejected(cookie, Level)
    /\ transport' = Client!Lose(transport, k)
    /\ UNCHANGED <<netVars, deliveryVars>>

\* handle_event_control answers the next control message: the acknowledgement
\* first, then the replay, all before anything from the queue.
Control(k) ==
    /\ scope[k] # NoSession
    /\ transport.outbox[k] # <<>>
    /\ LET message == Head(transport.outbox[k])
           t == [transport EXCEPT !.outbox[k] = Tail(@)]
       IN
        \/ /\ message.type = "subscribe"
           /\ Subscribe(k, message.events)
           /\ transport' = Reply(t, k,
                LET replay == Replay(scope[k], message.events, message.since)
                IN  <<[type |-> "subscribed", events |-> message.events]>>
                    \o [i \in DOMAIN replay |-> EventMessage(replay[i])])
        \/ /\ message.type = "unsubscribe"
           /\ Unsubscribe(k, message.events)
           /\ transport' = Reply(t, k, <<[type |-> "unsubscribed"]>>)
        \/ /\ \/ message.type = "subscribe" /\ ~CanSubscribe(k, message.events)
              \/ message.type = "unsubscribe" /\ ~CanUnsubscribe(k)
           /\ transport' = Reply(t, k, <<[type |-> "error"]>>)
           /\ UNCHANGED busVars
        \/ /\ message.type = "close"
           /\ Disconnect(k)
           /\ transport' = t
    /\ UNCHANGED <<netVars, deliveryVars>>

\* event_socket forwards what recv returns.
Forward(k) ==
    /\ Recv(k)
    /\ transport' = Reply(transport, k, <<EventMessage(Head(queue[k]))>>)
    /\ UNCHANGED <<netVars, deliveryVars>>

\* recv returns None, for the bus dropped the connection, or the session's
\* expires_at passes.  The task sends a close frame and ends.
CloseSocket(k) ==
    /\ scope[k] # NoSession
    /\ ~Connected(k) \/ scope[k] # cookie
    /\ Disconnect(k)
    /\ transport' = Reply([transport EXCEPT !.outbox[k] = <<>>], k, <<Client!CloseFrame>>)
    /\ UNCHANGED <<netVars, deliveryVars>>

\* The task finds its peer gone: a read or a write fails, or no pong arrives in
\* heartbeat_timeout.
PeerGone(k) ==
    /\ scope[k] # NoSession
    /\ transport.readyState[k] \in {"closing", "closed"}
    /\ transport.outbox[k] = <<>>
    /\ Disconnect(k)
    /\ UNCHANGED <<transport, netVars, deliveryVars>>

\* The network loses the socket.
LoseSocket(k) ==
    /\ losses < MaxLosses
    /\ transport.readyState[k] \in {"connecting", "upgraded", "open"}
    /\ losses' = losses + 1
    /\ transport' = Client!Lose(transport, k)
    /\ UNCHANGED <<busVars, serverVars, requests, sent, deliveryVars>>
-----------------------------------------------------------------------------
(***************************************************************************)
(* Sessions and the server process.                                        *)
(***************************************************************************)

\* logout: the bus forgets the session first, and only later does the server
\* stop to accept its cookie.
Logout ==
    /\ ends < MaxEnds
    /\ cookie \notin ending \cup {NoSession}
    /\ RemoveSession(cookie)
    /\ ends' = ends + 1
    /\ ending' = ending \cup {cookie}
    /\ UNCHANGED <<transport, cookie, issued, restarts, requests, sent, losses, deliveryVars>>

LoggedOut ==
    /\ cookie \in ending
    /\ ending' = ending \ {cookie}
    /\ cookie' = NoSession
    /\ UNCHANGED <<busVars, transport, issued, ends, restarts, requests, sent, losses, deliveryVars>>

\* A session expires: its cookie is worthless at once, and within a second
\* reclaim_expired_sessions removes it from the bus.
Expire ==
    /\ ends < MaxEnds
    /\ cookie \notin ending \cup {NoSession}
    /\ ends' = ends + 1
    /\ ending' = ending \cup {cookie}
    /\ cookie' = NoSession
    /\ UNCHANGED <<busVars, transport, issued, restarts, requests, sent, losses, deliveryVars>>

Reclaim(s) ==
    /\ s \in ending \ {cookie}
    /\ ending' = ending \ {s}
    /\ RemoveSession(s)
    /\ UNCHANGED <<transport, cookie, issued, ends, restarts, requests, sent, losses, deliveryVars>>

\* The browser gets a new session: the proxy issues one with the next request,
\* or the user logs in from another tab.
IssueSession ==
    /\ cookie = NoSession
    /\ \E s \in SessionIds \ issued : cookie' = s /\ issued' = issued \cup {s}
    /\ UNCHANGED <<busVars, transport, ending, ends, restarts, requests, sent, losses, deliveryVars>>

\* The process ends and starts again: sessions and sequence numbers are in
\* memory only, and every socket breaks.
Restart ==
    /\ restarts < MaxRestarts
    /\ restarts' = restarts + 1
    /\ cookie' = NoSession
    /\ ending' = {}
    /\ next_sequence' = 0
    /\ sessions' = {}
    /\ authorization' = [s \in SessionIds |-> 0]
    /\ history' = [s \in SessionIds |-> <<>>]
    /\ idle' = [s \in SessionIds |-> 0]
    /\ connections' = [s \in SessionIds |-> {}]
    /\ subscriptions' = [c \in ConnIds |-> {}]
    /\ queue' = [c \in ConnIds |-> <<>>]
    /\ scope' = [c \in ConnIds |-> NoSession]
    /\ subscribedAt' = [c \in ConnIds |-> [e \in Events |-> 0]]
    /\ taken' = [c \in ConnIds |-> 0]
    /\ transport' = [transport EXCEPT
         !.readyState = [k \in ConnIds |-> IF @[k] = "closed" THEN "closed" ELSE "closing"],
         !.inbox = [k \in ConnIds |-> <<>>],
         !.outbox = [k \in ConnIds |-> <<>>]]
    /\ owed' = {}
    /\ UNCHANGED <<issued, ends, requests, sent, losses, delivered, carried>>

ConfirmedEvents == {EventOf[h] : h \in {g \in Handlers : Client!Confirmed(transport, g)}}

\* An acknowledgement names an event, not the message it answers: that of a
\* subscription that was given up since confirms the one after it too early.
Resubscribing(event) ==
    /\ transport.socket \in ConnIds
    /\ \E i \in DOMAIN transport.outbox[transport.socket] :
        LET message == transport.outbox[transport.socket][i] IN
        \/ message.type = "unsubscribe" /\ event \in message.events
        \/ message.type = "subscribe" /\ message.since = 0 /\ event \in message.events

\* A subscribe() call that has resolved is owed the events its session then
\* receives.  `seen` tells whether the tab had seen an event of this session by
\* then: until it has, lastSequence is 0, or an ended session's, and a new socket
\* asks for no replay, or for the wrong one.
Owe(envelope) ==
    IF envelope.event \in ConfirmedEvents
    THEN owed \cup {[envelope |-> envelope, session |-> cookie,
                     seen |-> /\ transport.lastSequence > 0
                              /\ transport.session \in {cookie} \ {NoSession}
                              /\ ~carried /\ ~Resubscribing(envelope.event)]}
    ELSE owed

\* The application publishes an event to everyone or to this browser.
PublishEvent(event) ==
    /\ \E target \in {Broadcast} \cup ({cookie} \ {NoSession}) :
        /\ Publish(target, event)
        /\ owed' = Owe([event |-> event, payload |-> target, sequence |-> NextSequence])
    /\ UNCHANGED <<transport, netVars, delivered, carried>>

\* Time passes without contact; only a session without connections can age out.
Idle ==
    /\ Tick
    /\ UNCHANGED <<transport, netVars, deliveryVars>>
-----------------------------------------------------------------------------
(***************************************************************************)
(* The browser.  Handlers that leave, and a lastSequence that starts over, *)
(* are owed nothing.                                                       *)
(***************************************************************************)
StillOwed ==
    {o \in owed : /\ o.envelope.event \in Client!EventsOf(transport'.handlers)
                  /\ transport'.lastSequence >= transport.lastSequence}

\* What a step of the tab means for the auxiliary records.
Account(initializes) ==
    /\ owed' = StillOwed
    /\ carried' = ((carried \/ initializes) /\ transport'.lastSequence > 0)

ClientStep(action) ==
    /\ action
    /\ Account(FALSE)
    /\ UNCHANGED <<busVars, netVars, delivered>>

\* The socket a step may create: an id is free when both ends are done with it.
NewSockets ==
    IF Client!MustConnect(transport)
    THEN {k \in ConnIds : transport.readyState[k] = "closed" /\ scope[k] = NoSession}
    ELSE {NoSocket}

SubscribeCall(h) == \E k \in NewSockets : ClientStep(Client!Subscribe(h, k))

UnsubscribeCall(h) == ClientStep(Client!Unsubscribe(h))

\* GET /api/v1/session answers initialize() or reconnect().
Loaded ==
    /\ cookie # NoSession
    /\ \E k \in NewSockets : Client!Initialized(cookie, k)
    /\ Account(TRUE)
    /\ UNCHANGED <<busVars, netVars, delivered>>

LoadFailed == ClientStep(Client!InitializeFailed)

Reconnected(previous) ==
    /\ cookie # NoSession
    /\ \E k \in NewSockets : ClientStep(Client!Reconnect(previous, cookie, k))

ReconnectFailed(previous) == ClientStep(Client!ReconnectFailed(previous))

TimerFires == ClientStep(Client!TimerFires)

SocketOpens(k) == ClientStep(Client!OnOpen(k))

SocketFails(k) == ClientStep(Client!OnError(k))

SocketCloses(k) == ClientStep(Client!OnClose(k))

\* onmessage; `delivered` records the events that reach their handlers.
MessageArrives(k) ==
    /\ Client!OnMessage(k)
    /\ LET message == Head(transport.inbox[k]) IN
        delivered' = IF k = transport.socket /\ Client!Delivers(transport, message)
                     THEN Append(delivered, <<restarts, message.envelope.sequence>>)
                     ELSE delivered
    /\ Account(FALSE)
    /\ UNCHANGED <<busVars, netVars>>

\* The application calls the server, and gets as far as initialize().
Initialize == ClientStep(Client!Initialize)

\* A request goes out with the transport's session.  One that the server
\* accepts changes nothing here.
Request ==
    /\ sent < MaxRequests
    /\ transport.session # NoSession
    /\ sent' = sent + 1
    /\ requests' = requests \cup {transport.session}
    /\ UNCHANGED <<busVars, transport, serverVars, losses, deliveryVars>>

\* The server rejected a request, for its session has ended.
RequestRejected(s) ==
    /\ s \in requests \ {cookie}
    /\ requests' = requests \ {s}
    /\ Client!RequestRejected(s)
    /\ Account(FALSE)
    /\ UNCHANGED <<busVars, serverVars, sent, losses, delivered>>
-----------------------------------------------------------------------------
Next ==
    \/ \E k \in ConnIds :
        \/ Accept(k) \/ Refuse(k) \/ Control(k) \/ Forward(k)
        \/ CloseSocket(k) \/ PeerGone(k) \/ LoseSocket(k)
        \/ SocketOpens(k) \/ SocketFails(k) \/ SocketCloses(k) \/ MessageArrives(k)
    \/ \E h \in Handlers : SubscribeCall(h) \/ UnsubscribeCall(h)
    \/ \E previous \in SessionIds \cup {NoSession} :
        Reconnected(previous) \/ ReconnectFailed(previous)
    \/ \E event \in Events : PublishEvent(event)
    \/ \E s \in SessionIds : RequestRejected(s) \/ Reclaim(s)
    \/ Initialize \/ Request \/ Loaded \/ LoadFailed \/ TimerFires
    \/ Logout \/ LoggedOut \/ Expire \/ IssueSession \/ Restart \/ Idle

Spec == Init /\ [][Next]_vars

(***************************************************************************)
(* Timers fire, callbacks run and the server's tasks go on.  The network   *)
(* may fail a request, but not for ever: loads that are tried again and    *)
(* again succeed in the end.                                               *)
(***************************************************************************)
Fairness ==
    /\ \A k \in ConnIds :
        /\ WF_vars(Accept(k)) /\ WF_vars(Refuse(k)) /\ WF_vars(Control(k)) /\ WF_vars(Forward(k))
        /\ WF_vars(CloseSocket(k)) /\ WF_vars(PeerGone(k))
        /\ WF_vars(SocketOpens(k)) /\ WF_vars(SocketCloses(k)) /\ WF_vars(MessageArrives(k))
    /\ WF_vars(TimerFires)
    /\ WF_vars(Initialize)
    /\ WF_vars(LoggedOut)

    /\ WF_vars(IssueSession)

    /\ SF_vars(Loaded)
    /\ \A previous \in SessionIds \cup {NoSession} : SF_vars(Reconnected(previous))

FairSpec == Spec /\ Fairness
-----------------------------------------------------------------------------
(***************************************************************************)
(* Properties.                                                             *)
(***************************************************************************)
Messages ==
    [type : {"event"}, envelope : Envelope]
        \cup [type : {"subscribed"}, events : SUBSET Events]
        \cup [type : {"unsubscribed", "error", "close"}]

Controls ==
    [type : {"subscribe"}, events : SUBSET Events, since : 0..MaxSequence]
        \cup [type : {"unsubscribe"}, events : SUBSET Events]
        \cup [type : {"close"}]

ReadyStates == {"connecting", "upgraded", "open", "closing", "closed"}

Transports ==
    [session           : SessionIds \cup {NoSession},
     loading           : BOOLEAN,
     initializing      : SUBSET Handlers,
     renewing          : BOOLEAN,
     handlers          : SUBSET Handlers,
     pending           : SUBSET Handlers,
     opening           : [Handlers -> ConnIds \cup {NoSocket}],
     socket            : ConnIds \cup {NoSocket},
     connectionPromise : ConnIds \cup {NoSocket},
     reconnectTimer    : BOOLEAN,
     reconnects        : SUBSET (SessionIds \cup {NoSession}),
     retrying          : SUBSET ConnIds,
     lastSequence      : 0..MaxSequence,
     intentionalClose  : BOOLEAN,
     readyState        : [ConnIds -> ReadyStates],
     outbox            : [ConnIds -> Seq(Controls)],
     inbox             : [ConnIds -> Seq(Messages)]]

TransportTypeOK ==
    /\ transport \in Transports
    /\ transport.initializing \cap transport.handlers = {}
    /\ transport.pending \subseteq transport.handlers
    /\ transport.connectionPromise \in {NoSocket, transport.socket}

\* The state is well formed: of the bus, of the tab and of the session store.
TypeOK ==
    /\ BusTypeOK
    /\ TransportTypeOK
    /\ cookie \in issued \cup {NoSession} /\ issued \subseteq SessionIds
    /\ ending \subseteq issued /\ requests \subseteq issued
    /\ losses \in 0..MaxLosses /\ ends \in 0..MaxEnds
    /\ sent \in 0..MaxRequests /\ restarts \in 0..MaxRestarts
    /\ delivered \in Seq((0..MaxRestarts) \X (1..MaxSequence))
    /\ owed \in SUBSET [envelope : Envelope, session : SessionIds \cup {NoSession}, seen : BOOLEAN]
    /\ carried \in BOOLEAN

(***************************************************************************)
(* The tab leaks no socket: whatever is connecting or open is the one that *)
(* `this.socket` names.  A second live socket would count against the      *)
(* session's connections on the server until its heartbeat times out.      *)
(***************************************************************************)
OneSocket ==
    \A k \in ConnIds :
        transport.readyState[k] \in {"connecting", "upgraded", "open"} => k = transport.socket

HasDelivered(sequence) == \E i \in DOMAIN delivered : delivered[i] = <<restarts, sequence>>

(***************************************************************************)
(* Handlers get the events in the order in which they were published, and  *)
(* none twice, over any number of lost and reopened sockets: what a new    *)
(* socket replays starts after the last event that was seen.               *)
(***************************************************************************)
InOrderOnce ==
    \A i, j \in DOMAIN delivered : i < j =>
        \/ delivered[i][1] < delivered[j][1]
        \/ delivered[i][1] = delivered[j][1] /\ delivered[i][2] < delivered[j][2]

\* A later event was seen and this one was not, although the history has it.
PassedOver(o) ==
    /\ o.envelope.sequence <= transport.lastSequence
    /\ ~HasDelivered(o.envelope.sequence)
    /\ \E i \in DOMAIN history[o.session] : history[o.session][i] = o.envelope

(***************************************************************************)
(* An event that was passed over is gone from the replay history too: once *)
(* the tab has seen an event of its session, only an event that the bounded*)
(* history has dropped by the time of the replay can be missed, whether    *)
(* the socket broke, or the bus dropped it for its full queue.  A tab that *)
(* has seen none asks for no replay (subscribeAll) and is not promised one.*)
(* A session that has ended promises nothing any more.                     *)
(***************************************************************************)
MissedOnlyIfEvicted == \A o \in owed : o.seen /\ o.session = cookie => ~PassedOver(o)

\* An event that arrives on the current socket, that a handler waits for and that
\* was not delivered before, is not filtered out.
FiltersNothingNew ==
    LET k == transport.socket IN
    Client!IsOpen(transport) /\ transport.inbox[k] # <<>> =>
        LET message == Head(transport.inbox[k]) IN
        /\ message.type = "event"
        /\ message.envelope.event \in Client!subscribedEvents(transport)
        /\ ~HasDelivered(message.envelope.sequence)
        => message.envelope.sequence > transport.lastSequence

(***************************************************************************)
(* lastSequence filters out nothing but what was delivered already, even   *)
(* after a restart, when sequence numbers start over: while the tab's      *)
(* session is the browser's, or that of its socket, reconnect() and        *)
(* renewSession() have reset lastSequence in time.  initialize() does not  *)
(* reset it, see `carried`.                                                *)
(***************************************************************************)
NothingNewFilteredInSession ==
    /\ ~carried
    /\ transport.socket \in ConnIds
    /\ transport.session \in {cookie, scope[transport.socket]} \ {NoSession}
    => FiltersNothingNew

\* The current socket serves every event that has a handler.
Served ==
    LET k == transport.socket IN
    /\ Client!IsOpen(transport)
    /\ Connected(k)
    /\ Client!subscribedEvents(transport) \subseteq subscriptions[k]

(***************************************************************************)
(* As long as there are handlers, the tab ends up served: whatever breaks, *)
(* some callback or timer brings the connection back.                      *)
(***************************************************************************)
ServedAgain == transport.handlers # {} ~> (transport.handlers = {} \/ Served)

(***************************************************************************)
(* Every subscribe() call settles: it is confirmed, or it has failed and   *)
(* left no handler behind.                                                 *)
(***************************************************************************)
SubscribeSettles ==
    \A h \in Handlers :
        h \in transport.handlers \cup transport.initializing
            ~> (h \notin transport.handlers \cup transport.initializing
                \/ Client!Confirmed(transport, h))

(***************************************************************************)
(* An event that is owed is delivered in the end, unless the history drops *)
(* it first or its handlers leave.                                         *)
(***************************************************************************)
OwedIsDelivered ==
    \A n \in 1..MaxSequence :
        (\E o \in owed : o.seen /\ o.envelope.sequence = n)
            ~> \/ HasDelivered(n)
               \/ \A o \in owed : o.envelope.sequence # n
               \/ \A s \in SessionIds : \A i \in DOMAIN history[s] : history[s][i].sequence # n
-----------------------------------------------------------------------------
(***************************************************************************)
(* The strengthening that makes the safety properties inductive.  It says  *)
(* what the stream of events to `this.socket` is made of, as long as the   *)
(* socket lives: what was received (Inbox), what the bus has queued behind *)
(* it (Queued) and what the server has yet to be asked for (Outbox).       *)
(***************************************************************************)
LiveStates == {"connecting", "upgraded", "open"}

Live == transport.socket \in ConnIds /\ transport.readyState[transport.socket] \in LiveStates

Inbox == transport.inbox[transport.socket]
Outbox == transport.outbox[transport.socket]
Queued == queue[transport.socket]

EventsIn(messages) == {i \in DOMAIN messages : messages[i].type = "event"}

AsksReplay(message) == message.type = "subscribe" /\ message.since > 0

\* A socket that has not opened is awaited, and one that no longer lives has
\* nothing to dispatch.
Waits ==
    /\ Live /\ transport.readyState[transport.socket] # "open"
         => transport.connectionPromise = transport.socket
    /\ \A k \in ConnIds : transport.readyState[k] \notin LiveStates => transport.inbox[k] = <<>>

\* The ids that the tab and the bus know were issued, and the bus knows the level
\* of this browser's sessions only.
KnownSessions ==
    /\ transport.session \in issued \cup {NoSession}
    /\ \A k \in ConnIds : scope[k] \in issued \cup {NoSession}
    /\ sessions \subseteq issued
    /\ \A s \in sessions : authorization[s] = Level
    /\ \A o \in owed : o.session \in issued \cup {NoSession}

\* A socket of another session than the browser's is older than the browser's
\* session: that one has not reached the bus yet.
CurrentScope ==
    Live /\ scope[transport.socket] \notin {NoSession, cookie} => cookie \notin sessions

\* Nothing flows before the socket opens, nor from a dropped EventConnection.
Fresh ==
    /\ \A k \in ConnIds : scope[k] = NoSession => queue[k] = <<>> /\ subscriptions[k] = {}
    /\ Live /\ transport.readyState[transport.socket] = "connecting" =>
         scope[transport.socket] = NoSession /\ Inbox = <<>> /\ Outbox = <<>>
    /\ Live /\ transport.readyState[transport.socket] = "upgraded" =>
         /\ Outbox = <<>> /\ EventsIn(Inbox) = {}
         /\ Queued = <<>> /\ subscriptions[transport.socket] = {}

\* Only the first message of a socket asks for a replay, of what follows the
\* last event seen, and no event flows before the server has read it.
ReplayFirst ==
    Live => \A i \in DOMAIN Outbox :
        /\ Outbox[i].type # "close" => Outbox[i].events \subseteq {EventOf[h] : h \in Handlers}
        /\ AsksReplay(Outbox[i]) =>
             /\ i = 1
             /\ transport.lastSequence \in {0, Outbox[i].since}
             /\ EventsIn(Inbox) = {}
             /\ Queued = <<>> /\ subscriptions[transport.socket] = {}

\* Received events ascend and precede what is queued.
Stream ==
    Live =>
        /\ \A i, j \in EventsIn(Inbox) :
             i < j => Inbox[i].envelope.sequence < Inbox[j].envelope.sequence
        /\ \A i \in EventsIn(Inbox) :
             /\ Inbox[i].envelope.sequence <= next_sequence
             /\ \A j \in DOMAIN Queued : Inbox[i].envelope.sequence < Queued[j].sequence

\* Everything the socket has yet to bring comes after the event n.
Above(n) ==
    Live =>
        /\ \A i \in EventsIn(Inbox) : Inbox[i].envelope.sequence > n
        /\ \A j \in DOMAIN Queued : Queued[j].sequence > n
        /\ \A i \in DOMAIN Outbox : AsksReplay(Outbox[i]) => Outbox[i].since >= n

\* Nothing the socket has yet to bring was delivered by this server before.
DeliveredBefore ==
    \A i \in DOMAIN delivered :
        /\ delivered[i][1] <= restarts
        /\ delivered[i][1] = restarts =>
             /\ delivered[i][2] <= next_sequence
             /\ transport.lastSequence = 0 \/ delivered[i][2] <= transport.lastSequence
             /\ Above(delivered[i][2])

\* lastSequence belongs to the server that runs, while the tab's session does.
LastSequenceInSession ==
    /\ ~carried
    /\ transport.session # NoSession
    /\ transport.session = cookie \/ \E k \in ConnIds : scope[k] = transport.session
    => transport.lastSequence <= next_sequence /\ Above(transport.lastSequence)

About(message, event) == message.type \in {"subscribe", "unsubscribe"} /\ event \in message.events

\* The server serves the event, or has yet to read that it shall.
WillServe(event) ==
    /\ \A i \in DOMAIN Outbox :
         About(Outbox[i], event) /\ Outbox[i].type = "unsubscribe" =>
             \E j \in DOMAIN Outbox :
                 j > i /\ About(Outbox[j], event) /\ Outbox[j].type = "subscribe"
    /\ (\A i \in DOMAIN Outbox : ~About(Outbox[i], event))
         => event \in subscriptions[transport.socket]

ServesSubscribed ==
    Client!IsOpen(transport) /\ Connected(transport.socket) =>
        \A event \in Client!subscribedEvents(transport) : WillServe(event)

\* The envelope was received, or is queued behind what was, or will be replayed,
\* unless the bus has dropped the connection.
Coming(envelope) ==
    \/ \E i \in EventsIn(Inbox) : Inbox[i].envelope = envelope
    \/ /\ \A i \in EventsIn(Inbox) : Inbox[i].envelope.sequence < envelope.sequence
       /\ \/ ~Connected(transport.socket)
          \/ \E j \in DOMAIN Queued : Queued[j] = envelope
          \/ \E i \in DOMAIN Outbox :
                /\ AsksReplay(Outbox[i])
                /\ envelope.event \in Outbox[i].events
                /\ Outbox[i].since < envelope.sequence

\* The envelope can still be had: its session lasts and has it for replay.
Replayable(o) ==
    /\ o.session = cookie
    /\ ~HasDelivered(o.envelope.sequence)
    /\ \E i \in DOMAIN history[o.session] : history[o.session][i] = o.envelope

Promised(o) ==
    /\ o.session # NoSession
    /\ o.envelope.sequence <= next_sequence
    /\ o.envelope.event \in Client!subscribedEvents(transport)
    /\ transport.lastSequence > 0
    /\ Replayable(o) =>
         /\ o.envelope.sequence > transport.lastSequence
         /\ Client!IsOpen(transport) => Coming(o.envelope)

PromisesKept == \A o \in owed : o.seen => Promised(o)

DeliveryInv ==
    /\ TypeOK
    /\ BusInv
    /\ OneSocket
    /\ Waits
    /\ KnownSessions
    /\ CurrentScope
    /\ Fresh
    /\ ReplayFirst
    /\ Stream
    /\ InOrderOnce
    /\ DeliveredBefore
    /\ LastSequenceInSession
    /\ ServesSubscribed
    /\ PromisesKept
=============================================================================
