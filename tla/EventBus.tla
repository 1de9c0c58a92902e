------------------------------ MODULE EventBus ------------------------------
(***************************************************************************)
(* The web server's event bus, src-tauri/src/transport/web/events.rs.      *)
(*                                                                         *)
(* Every operation of WebEventBus runs under one mutex, so each is one     *)
(* action here.  What the bus keeps per session (authorization, replay     *)
(* history, live connections, last_seen) are functions of the session id;  *)
(* an id outside `sessions` has no entry in the code's HashMap and its     *)
(* slots here are empty.  A connection has two halves: the bus holds the   *)
(* sending half (connections, subscriptions) and the socket task holds     *)
(* the EventConnection with the receiving half of the bounded queue.  The  *)
(* two may disagree: the bus drops a slow connection while its task still  *)
(* owns the receiver.                                                      *)
(*                                                                         *)
(* last_seen is kept as the age `idle`, which stops at the session TTL.    *)
(* subscribedAt and taken are auxiliary: they record facts that the        *)
(* properties compare with and no action reads.                            *)
(***************************************************************************)
EXTENDS Integers, Sequences, FiniteSets

CONSTANTS
    SessionIds,        \* browser session ids
    ConnIds,           \* connection ids; an id is free again once its owner dropped it
    Events,            \* event names
    Granted,           \* the authorization levels that sessions are given
    Required,          \* authorization_for: the level an event requires
    NoSession,         \* no EventConnection holds this connection id
    Broadcast,         \* the target of emit, as opposed to emit_to
    QueueCapacity,     \* connection_queue_capacity
    HistoryCapacity,   \* session_history_capacity
    MaxSessions,       \* max_sessions
    MaxConnections,    \* max_connections_per_session
    TTL,               \* disconnected_session_ttl, in ticks
    MaxSequence        \* bound: events published in a behaviour

\* AuthorizationLevel, in its derived order: Session < Database < Sensitive < LocalAdmin.
Levels == 0..3

\* authorization_for(event) = None.
Unregistered == 4

\* self >= required.  No level permits an unregistered event.
permits(level, required) == level >= required

(***************************************************************************)
(* WebEventBus::new asserts that the capacities are positive.              *)
(***************************************************************************)
ASSUME ConfigAssumption ==
    /\ QueueCapacity \in Nat \ {0}
    /\ HistoryCapacity \in Nat \ {0}
    /\ MaxSessions \in Nat \ {0}
    /\ MaxConnections \in Nat \ {0}
    /\ TTL \in Nat
    /\ MaxSequence \in Nat

ASSUME LevelsAssumption ==
    /\ Granted \subseteq Levels
    /\ Required \in [Events -> Levels \cup {Unregistered}]

ASSUME FiniteIdsAssumption == IsFiniteSet(SessionIds) /\ IsFiniteSet(ConnIds)

ASSUME DistinctAssumption == NoSession \notin SessionIds /\ Broadcast \notin SessionIds

VARIABLES
    next_sequence,   \* sequence of the latest envelope
    sessions,        \* ids with a SessionState
    authorization,   \* [SessionIds -> Levels]
    history,         \* [SessionIds -> Seq(Envelope)], oldest first
    idle,            \* [SessionIds -> 0..TTL], time since last_seen
    connections,     \* [SessionIds -> SUBSET ConnIds]
    subscriptions,   \* [ConnIds -> SUBSET Events]
    queue,           \* [ConnIds -> Seq(Envelope)], the mpsc channel
    scope,           \* [ConnIds -> SessionIds], the session of the EventConnection
    subscribedAt,    \* auxiliary: next_sequence when the subscription began
    taken            \* auxiliary: sequence of the last envelope recv returned

sessionVars == <<sessions, authorization, history, idle, connections>>
connVars == <<subscriptions, queue, scope>>
auxVars == <<subscribedAt, taken>>
busVars == <<next_sequence, sessionVars, connVars, auxVars>>

\* The payload is reduced to whom the publisher addressed.
Envelope == [event : Events, payload : SessionIds \cup {Broadcast}, sequence : 1..MaxSequence]

Connected(c) == scope[c] # NoSession /\ c \in connections[scope[c]]

BusInit ==
    /\ next_sequence = 0
    /\ sessions = {}
    /\ authorization = [s \in SessionIds |-> 0]
    /\ history = [s \in SessionIds |-> <<>>]
    /\ idle = [s \in SessionIds |-> 0]
    /\ connections = [s \in SessionIds |-> {}]
    /\ subscriptions = [c \in ConnIds |-> {}]
    /\ queue = [c \in ConnIds |-> <<>>]
    /\ scope = [c \in ConnIds |-> NoSession]
    /\ subscribedAt = [c \in ConnIds |-> [e \in Events |-> 0]]
    /\ taken = [c \in ConnIds |-> 0]
-----------------------------------------------------------------------------
(***************************************************************************)
(* Sessions.                                                               *)
(***************************************************************************)

\* cleanup_sessions drops the sessions that have no connection and were last
\* seen a TTL ago.
Expired == {s \in sessions : connections[s] = {} /\ idle[s] >= TTL}

\* The state after the SessionStates of `gone` are dropped.
Without(f, gone, empty) == [s \in SessionIds |-> IF s \in gone THEN empty ELSE f[s]]

\* remove_session: logout, or the server's reclaiming of an expired session.
RemoveSession(s) ==
    /\ sessions' = sessions \ {s}
    /\ authorization' = Without(authorization, {s}, 0)
    /\ history' = Without(history, {s}, <<>>)
    /\ idle' = Without(idle, {s}, 0)
    /\ connections' = Without(connections, {s}, {})
    /\ UNCHANGED <<next_sequence, connVars, auxVars>>

\* Time passes.
Tick ==
    /\ \E s \in sessions : idle[s] < TTL
    /\ idle' = [s \in SessionIds |->
                    IF s \in sessions /\ idle[s] < TTL THEN idle[s] + 1 ELSE idle[s]]
    /\ UNCHANGED <<next_sequence, sessions, authorization, history, connections,
                   connVars, auxVars>>
-----------------------------------------------------------------------------
(***************************************************************************)
(* Connections.                                                            *)
(***************************************************************************)

\* No entry for s after the cleanup, and no room for one.
AtSessionLimit(s) ==
    /\ s \notin sessions \ Expired
    /\ Cardinality(sessions \ Expired) >= MaxSessions

\* The connectionless sessions that were seen longest ago; the code takes one.
Removable ==
    LET candidates == {s \in sessions \ Expired : connections[s] = {}}
    IN  {s \in candidates : \A t \in candidates : idle[t] <= idle[s]}

\* connect returns an EventConnection with a fresh id.  `gone` are the sessions
\* that the cleanup and the session limit remove on the way.
Connect(s, level, c) ==
    /\ scope[c] = NoSession
    /\ \E gone \in SUBSET sessions :
        /\ \/ ~AtSessionLimit(s) /\ gone = Expired
           \/ AtSessionLimit(s) /\ \E r \in Removable : gone = Expired \cup {r}
        /\ s \in sessions \ gone =>
            /\ authorization[s] = level
            /\ Cardinality(connections[s]) < MaxConnections
        /\ sessions' = (sessions \ gone) \cup {s}
        /\ authorization' = [Without(authorization, gone, 0) EXCEPT ![s] = level]
        /\ history' = Without(history, gone, <<>>)
        /\ idle' = [Without(idle, gone, 0) EXCEPT ![s] = 0]
        /\ connections' = [connections EXCEPT ![s] = @ \cup {c}]
    /\ subscriptions' = [subscriptions EXCEPT ![c] = {}]
    /\ queue' = [queue EXCEPT ![c] = <<>>]
    /\ scope' = [scope EXCEPT ![c] = s]
    /\ subscribedAt' = [subscribedAt EXCEPT ![c] = [e \in Events |-> 0]]
    /\ taken' = [taken EXCEPT ![c] = 0]
    /\ UNCHANGED next_sequence

\* connect fails, but only after the cleanup: every session is in use, the
\* session has another authorization, or it has its fill of connections.
ConnectRejected(s, level) ==
    /\ \/ AtSessionLimit(s) /\ Removable = {}
       \/ /\ s \in sessions \ Expired
          /\ \/ authorization[s] # level
             \/ Cardinality(connections[s]) >= MaxConnections
    /\ sessions' = sessions \ Expired
    /\ authorization' = Without(authorization, Expired, 0)
    /\ history' = Without(history, Expired, <<>>)
    /\ idle' = Without(idle, Expired, 0)
    /\ UNCHANGED <<next_sequence, connections, connVars, auxVars>>

\* Drop for EventConnection: the socket task ended, for whatever reason.
Disconnect(c) ==
    /\ scope[c] # NoSession
    /\ LET s == scope[c] IN
        /\ connections' = [connections EXCEPT ![s] = @ \ {c}]
        /\ idle' = [idle EXCEPT ![s] = 0]
    /\ scope' = [scope EXCEPT ![c] = NoSession]
    /\ subscriptions' = [subscriptions EXCEPT ![c] = {}]
    /\ queue' = [queue EXCEPT ![c] = <<>>]
    /\ subscribedAt' = [subscribedAt EXCEPT ![c] = [e \in Events |-> 0]]
    /\ taken' = [taken EXCEPT ![c] = 0]
    /\ UNCHANGED <<next_sequence, sessions, authorization, history>>
-----------------------------------------------------------------------------
(***************************************************************************)
(* Subscriptions.                                                          *)
(***************************************************************************)

\* What subscribe and unsubscribe check before they change anything.
CanSubscribe(c, events) ==
    /\ scope[c] \in sessions
    /\ \A e \in events : permits(authorization[scope[c]], Required[e])
    /\ Connected(c)

CanUnsubscribe(c) == scope[c] \in sessions /\ Connected(c)

\* subscribe: what is subscribed already stays so.  A subscription is new, for
\* the auxiliary record, when the connection did not have it.
Subscribe(c, events) ==
    /\ CanSubscribe(c, events)
    /\ subscriptions' = [subscriptions EXCEPT ![c] = @ \cup events]
    /\ idle' = [idle EXCEPT ![scope[c]] = 0]
    /\ subscribedAt' = [subscribedAt EXCEPT ![c] =
                           [e \in Events |-> IF e \in events \ subscriptions[c]
                                             THEN next_sequence ELSE @[e]]]
    /\ UNCHANGED <<next_sequence, sessions, authorization, history, connections,
                   queue, scope, taken>>

\* iter().filter(): the envelopes of h at the positions I.
Filter(h, I) ==
    LET kept[n \in 0..Len(h)] ==
            IF n = 0 THEN <<>>
            ELSE IF n \in I THEN Append(kept[n - 1], h[n]) ELSE kept[n - 1]
    IN  kept[Len(h)]

\* What subscribe returns: the session's history after `since`, of the events
\* asked for.  The client leaves `since` out by sending 0 here.
Replay(s, events, since) ==
    IF since = 0 THEN <<>>
    ELSE Filter(history[s], {i \in DOMAIN history[s] :
                                 history[s][i].sequence > since /\ history[s][i].event \in events})

Unsubscribe(c, events) ==
    /\ CanUnsubscribe(c)
    /\ subscriptions' = [subscriptions EXCEPT ![c] = @ \ events]
    /\ idle' = [idle EXCEPT ![scope[c]] = 0]
    /\ UNCHANGED <<next_sequence, sessions, authorization, history, connections,
                   queue, scope, auxVars>>
-----------------------------------------------------------------------------
(***************************************************************************)
(* Publishing and receiving.                                               *)
(***************************************************************************)

\* next_sequence.wrapping_add(1).max(1), below the wrap.
NextSequence == next_sequence + 1

\* push_back, then pop_front down to the capacity.
Push(h, envelope) ==
    IF Len(h) < HistoryCapacity THEN Append(h, envelope)
    ELSE SubSeq(Append(h, envelope), Len(h) + 2 - HistoryCapacity, Len(h) + 1)

\* The sessions an event published to `target` reaches.
Receivers(target, event) ==
    {s \in sessions \ Expired :
        /\ target \in {s, Broadcast}
        /\ permits(authorization[s], Required[event])}

\* The connections of s for which try_send finds the queue full.
Overflowing(s, event) ==
    {c \in connections[s] : event \in subscriptions[c] /\ Len(queue[c]) >= QueueCapacity}

\* connections.retain: a connection whose try_send fails is dropped.
RetainedButOverflowing(s, event) == connections[s]
Retained(s, event) == connections[s] \ Overflowing(s, event)

\* try_send of an envelope to one connection.
TrySend(c, envelope, receivers) ==
    IF /\ scope[c] \in receivers
       /\ c \in connections[scope[c]] \ Overflowing(scope[c], envelope.event)
       /\ envelope.event \in subscriptions[c]
    THEN Append(queue[c], envelope) ELSE queue[c]

\* publish: a sequence number is spent even when nobody receives the event.
Publish(target, event) ==
    /\ Required[event] \in Levels
    /\ next_sequence < MaxSequence
    /\ next_sequence' = NextSequence
    /\ LET envelope == [event |-> event, payload |-> target, sequence |-> NextSequence]
           receivers == Receivers(target, event)
       IN
        /\ history' = [s \in SessionIds |->
                          IF s \in receivers THEN Push(history[s], envelope)
                          ELSE IF s \in Expired THEN <<>> ELSE history[s]]
        /\ idle' = [s \in SessionIds |->
                       IF s \in receivers \cup Expired THEN 0 ELSE idle[s]]
        /\ connections' = [s \in SessionIds |->
                              IF s \in receivers THEN Retained(s, event)
                              ELSE connections[s]]
        /\ queue' = [c \in ConnIds |-> TrySend(c, envelope, receivers)]
    /\ sessions' = sessions \ Expired
    /\ authorization' = Without(authorization, Expired, 0)
    /\ UNCHANGED <<subscriptions, scope, auxVars>>

\* recv returns the next envelope, unless the bus dropped the connection: then
\* it returns None and what is still queued is never delivered.
Recv(c) ==
    /\ Connected(c)
    /\ queue[c] # <<>>
    /\ queue' = [queue EXCEPT ![c] = Tail(@)]
    /\ taken' = [taken EXCEPT ![c] = Head(queue[c]).sequence]
    /\ UNCHANGED <<next_sequence, sessionVars, subscriptions, scope, subscribedAt>>
-----------------------------------------------------------------------------
BusNext ==
    \/ Tick
    \/ \E s \in SessionIds : RemoveSession(s)
    \/ \E s \in SessionIds, level \in Granted, c \in ConnIds : Connect(s, level, c)
    \/ \E s \in SessionIds, level \in Granted : ConnectRejected(s, level)
    \/ \E c \in ConnIds : Disconnect(c)
    \/ \E c \in ConnIds, events \in SUBSET Events : Subscribe(c, events)
    \/ \E c \in ConnIds, events \in SUBSET Events : Unsubscribe(c, events)
    \/ \E target \in SessionIds \cup {Broadcast}, event \in Events : Publish(target, event)
    \/ \E c \in ConnIds : Recv(c)

BusSpec == BusInit /\ [][BusNext]_busVars
-----------------------------------------------------------------------------
(***************************************************************************)
(* Properties.                                                             *)
(***************************************************************************)
Increasing(s) == \A i, j \in DOMAIN s : i < j => s[i].sequence < s[j].sequence

BusTypeOK ==
    /\ next_sequence \in 0..MaxSequence
    /\ sessions \in SUBSET SessionIds
    /\ authorization \in [SessionIds -> Levels]
    /\ history \in [SessionIds -> Seq(Envelope)]
    /\ idle \in [SessionIds -> 0..TTL]
    /\ connections \in [SessionIds -> SUBSET ConnIds]
    /\ subscriptions \in [ConnIds -> SUBSET Events]
    /\ queue \in [ConnIds -> Seq(Envelope)]
    /\ scope \in [ConnIds -> SessionIds \cup {NoSession}]
    /\ subscribedAt \in [ConnIds -> [Events -> 0..MaxSequence]]
    /\ taken \in [ConnIds -> 0..MaxSequence]

HoldsAllSubscribed(c) ==
    \A i \in DOMAIN history[scope[c]] :
        LET h == history[scope[c]][i] IN
        (/\ h.event \in subscriptions[c]
         /\ h.sequence > subscribedAt[c][h.event]
         /\ h.sequence > taken[c])
        => \E j \in DOMAIN queue[c] : queue[c][j] = h

(***************************************************************************)
(* While the bus keeps a connection, nothing it subscribed to is missing:  *)
(* every event of its session's history published after the subscription   *)
(* began was either taken by recv or is in the queue.  A full queue must   *)
(* therefore cost the connection, never a single event (retain/try_send).  *)
(***************************************************************************)
NothingSkipped == \A c \in ConnIds : Connected(c) => HoldsAllSubscribed(c)

(***************************************************************************)
(* recv hands envelopes out in the order in which they were published, and *)
(* none twice: a queue ascends and lies above what was already taken.      *)
(***************************************************************************)
InOrder ==
    /\ \A s \in SessionIds : Increasing(history[s])
    /\ \A c \in ConnIds :
        /\ Increasing(queue[c])
        /\ \A i \in DOMAIN queue[c] : queue[c][i].sequence > taken[c]

(***************************************************************************)
(* A session only ever holds, for replay or in the queue of one of its     *)
(* connections, events that its level permits and that were addressed to   *)
(* it or to everyone: neither emit_to another session nor a session id     *)
(* that comes back with a lower level leaks an event.                      *)
(***************************************************************************)
Isolated ==
    /\ \A s \in SessionIds : \A i \in DOMAIN history[s] :
        /\ history[s][i].payload \in {s, Broadcast}
        /\ permits(authorization[s], Required[history[s][i].event])
    /\ \A c \in ConnIds : Connected(c) => \A i \in DOMAIN queue[c] :
        /\ queue[c][i].payload \in {scope[c], Broadcast}
        /\ permits(authorization[scope[c]], Required[queue[c][i].event])

(***************************************************************************)
(* The bus is bounded whatever its clients do: sessions, connections per   *)
(* session, history and queues stay within the configuration               *)
(* (docs/web/WEB_PERFORMANCE_RESILIENCE.md, "Resource bounds").            *)
(***************************************************************************)
Bounded ==
    /\ Cardinality(sessions) <= MaxSessions
    /\ \A s \in SessionIds :
        /\ Cardinality(connections[s]) <= MaxConnections
        /\ Len(history[s]) <= HistoryCapacity
    /\ \A c \in ConnIds : Len(queue[c]) <= QueueCapacity

(***************************************************************************)
(* The strengthening that makes the properties above inductive.            *)
(***************************************************************************)

\* The bus keeps no connection whose receiver was dropped, and a session that
\* is gone left nothing behind for a later session with its id.
Owned ==
    \A s \in SessionIds :
        /\ \A c \in connections[s] : scope[c] = s
        /\ s \notin sessions => connections[s] = {} /\ history[s] = <<>>

\* No sequence number runs ahead of next_sequence.
Published ==
    /\ \A s \in SessionIds : \A i \in DOMAIN history[s] : history[s][i].sequence <= next_sequence
    /\ \A c \in ConnIds :
        /\ \A i \in DOMAIN queue[c] : queue[c][i].sequence <= next_sequence
        /\ \A e \in Events : subscribedAt[c][e] <= next_sequence
        /\ taken[c] <= next_sequence

\* The part of Bounded that concerns sequences.
Lengths ==
    /\ \A s \in SessionIds : Len(history[s]) <= HistoryCapacity
    /\ \A c \in ConnIds : Len(queue[c]) <= QueueCapacity

BusInv ==
    /\ BusTypeOK
    /\ Owned
    /\ Published
    /\ Lengths
    /\ InOrder
    /\ NothingSkipped
    /\ Isolated
=============================================================================
