--------------------------- MODULE HttpTransport ----------------------------
(***************************************************************************)
(* The event half of the browser's transport,                              *)
(* packages/web-ui/src/api/transports/httpTransport.ts.                    *)
(*                                                                         *)
(* The class is one record, `transport`, and each private method is an     *)
(* operator from a record to the record it leaves behind: a browser task   *)
(* (a socket callback, a timer, a settled fetch) runs to completion with   *)
(* all its promise continuations, so it is one step that chains those      *)
(* operators.  The browser's WebSocket objects are part of the record:     *)
(* readyState, what was sent and not yet read by the server (outbox), and  *)
(* what was received and not yet dispatched (inbox).                       *)
(*                                                                         *)
(* A member of Handlers is one subscribe() call with its handler.  A       *)
(* socket that is `closed` may be created anew; reconnect delays, payloads *)
(* and the authorization check of subscribe() are left out.                *)
(***************************************************************************)
EXTENDS Integers, Sequences, FiniteSets

CONSTANTS
    Sockets,     \* WebSocket objects
    NoSocket,    \* null
    Handlers,    \* subscribe() calls
    EventOf,     \* the event each of them subscribes to
    NoSession    \* undefined

VARIABLE transport

Init ==
    transport =
        [session           |-> NoSession,  \* this.session
         loading           |-> FALSE,      \* sessionPromise is unsettled
         initializing      |-> {},         \* subscribe() calls that await it
         renewing          |-> FALSE,      \* a renewSession() awaits it
         handlers          |-> {},         \* registered handlers
         pending           |-> {},         \* pendingSubscriptions
         opening           |-> [h \in Handlers |-> NoSocket],  \* connection it awaits
         socket            |-> NoSocket,
         connectionPromise |-> NoSocket,   \* the socket it belongs to
         reconnectTimer    |-> FALSE,
         reconnects        |-> {},         \* reconnect() calls in loadSession, by `previous`
         retrying          |-> {},         \* sockets whose opening a reconnect() awaits
         lastSequence      |-> 0,
         intentionalClose  |-> FALSE,
         readyState        |-> [k \in Sockets |-> "closed"],
         outbox            |-> [k \in Sockets |-> <<>>],
         inbox             |-> [k \in Sockets |-> <<>>]]

SubscribeMessage(events, since) == [type |-> "subscribe", events |-> events, since |-> since]
UnsubscribeMessage(events) == [type |-> "unsubscribe", events |-> events]
CloseFrame == [type |-> "close"]

IsOpen(t) == t.socket # NoSocket /\ t.readyState[t.socket] = "open"

EventsOf(handlers) == {EventOf[h] : h \in handlers}

subscribedEvents(t) == EventsOf(t.handlers)

\* The handler's subscribe() call has resolved.
Confirmed(t, h) == h \in t.handlers \ t.pending /\ t.opening[h] = NoSocket
-----------------------------------------------------------------------------
(***************************************************************************)
(* The browser's WebSocket.                                                *)
(***************************************************************************)

\* The connection is lost, or is never made.
Lose(t, k) ==
    [t EXCEPT !.readyState[k] = "closing", !.inbox[k] = <<>>, !.outbox[k] = <<>>]

\* socket.close(): nothing that arrives from now on is dispatched; the close
\* frame follows what was sent.
close(t, k) ==
    CASE k = NoSocket -> t
      [] k # NoSocket /\ t.readyState[k] \in {"closing", "closed"} -> t
      [] k # NoSocket /\ t.readyState[k] = "connecting" -> Lose(t, k)
      [] k # NoSocket /\ t.readyState[k] \in {"upgraded", "open"} ->
            [t EXCEPT !.readyState[k] = "closing",
                      !.inbox[k] = <<>>,
                      !.outbox[k] = Append(@, CloseFrame)]


sendControl(t, message) ==
    IF IsOpen(t) THEN [t EXCEPT !.outbox[t.socket] = Append(@, message)] ELSE t
-----------------------------------------------------------------------------
(***************************************************************************)
(* Private methods.                                                        *)
(***************************************************************************)
scheduleReconnect(t) ==
    IF t.intentionalClose \/ subscribedEvents(t) = {} THEN t
    ELSE [t EXCEPT !.reconnectTimer = TRUE]

\* removeSubscription, for every handler in `gone`: the last handler of an event
\* unsubscribes, the last handler of all closes the socket for good.
removeSubscriptionLeaking(t, gone) ==
    LET left == t.handlers \ gone
        removed == [t EXCEPT !.handlers = left,
                             !.pending = @ \ gone,
                             !.opening = [h \in Handlers |-> IF h \in gone THEN NoSocket ELSE @[h]]]
    IN  IF left = {} /\ t.handlers # {}
        THEN [removed EXCEPT !.intentionalClose = TRUE, !.reconnectTimer = FALSE,
                             !.socket = NoSocket, !.connectionPromise = NoSocket]
        ELSE removed
removeSubscription(t, gone) ==
    LET left == t.handlers \ gone
        ended == subscribedEvents(t) \ EventsOf(left)
        removed == [t EXCEPT !.handlers = left,
                             !.pending = @ \ gone,
                             !.opening = [h \in Handlers |-> IF h \in gone THEN NoSocket ELSE @[h]]]
        told == IF ended = {} THEN removed ELSE sendControl(removed, UnsubscribeMessage(ended))
    IN  IF ended # {} /\ left = {}
        THEN [close(told, told.socket) EXCEPT !.intentionalClose = TRUE,
                                              !.reconnectTimer = FALSE,
                                              !.socket = NoSocket,
                                              !.connectionPromise = NoSocket]
        ELSE told

\* ensureConnected, with k the socket that createSocket returns if it is called.
MustConnect(t) == ~IsOpen(t) /\ t.connectionPromise = NoSocket

ensureConnected(t, k) ==
    IF ~MustConnect(t) THEN t
    ELSE [t EXCEPT !.socket = k,
                   !.connectionPromise = k,
                   !.readyState[k] = "connecting",
                   !.outbox[k] = <<>>]


\* The part of subscribe() after `await this.initialize()`, for the calls in
\* `new`.  An event that has no handler yet is sent to a socket that is open
\* already, and otherwise left to subscribeAll.
subscribe(t, new, k) ==
    LET first == EventsOf(new) \ subscribedEvents(t)
        unconfirmed == first \cup EventsOf(t.pending)
        connected == ensureConnected(
            [t EXCEPT !.handlers = @ \cup new,
                      !.intentionalClose = FALSE,
                      !.pending = @ \cup {h \in new : EventOf[h] \in unconfirmed}], k)
        waiting == [connected EXCEPT !.opening =
                       [h \in Handlers |-> IF h \in new THEN connected.connectionPromise ELSE @[h]]]
    IN  IF IsOpen(t) /\ first # {} THEN sendControl(waiting, SubscribeMessage(first, 0))
        ELSE waiting

\* subscribeAll, on a socket that has just opened.
subscribeAllFromNext(t) ==
    IF subscribedEvents(t) = {} THEN t
    ELSE sendControl(t, SubscribeMessage(subscribedEvents(t), t.lastSequence + 1))
subscribeAllAfresh(t) ==
    IF subscribedEvents(t) = {} THEN t
    ELSE sendControl(t, SubscribeMessage(subscribedEvents(t), 0))
subscribeAll(t) ==
    IF subscribedEvents(t) = {} THEN t
    ELSE sendControl(t, SubscribeMessage(subscribedEvents(t), t.lastSequence))

\* The handlers whose subscribe() rejects when the promise of socket k does.
AwaitingOpen(t, k) == {h \in t.handlers : t.opening[h] = k}

\* failBeforeOpen.  Its rejection reaches the subscribe() calls, which take
\* their handlers back, and then the reconnect() that awaits the socket.
failBeforeOpen(t, k, rejected) ==
    LET settled == [t EXCEPT !.connectionPromise = IF @ = k THEN NoSocket ELSE @,
                             !.retrying = @ \ {k}]
        removed == removeSubscription(settled, rejected \cup AwaitingOpen(t, k))
    IN  IF k \in t.retrying THEN scheduleReconnect(removed) ELSE removed

\* renewSession up to its await of initialize().
dropSession(t) ==
    [close(t, t.socket) EXCEPT !.session = NoSession,
                               !.reconnectTimer = FALSE,
                               !.socket = NoSocket,
                               !.connectionPromise = NoSocket,
                               !.lastSequence = 0]
-----------------------------------------------------------------------------
(***************************************************************************)
(* Calls by the application.  k is the socket that the step creates, if it *)
(* creates one.                                                            *)
(***************************************************************************)

Subscribe(h, k) ==
    /\ h \notin transport.handlers \cup transport.initializing
    /\ \/ /\ transport.session # NoSession
          /\ transport' = subscribe(transport, {h}, k)
       \/ /\ transport.session = NoSession
          /\ transport' = [transport EXCEPT !.initializing = @ \cup {h}, !.loading = TRUE]

\* The function that subscribe() returned.
Unsubscribe(h) ==
    /\ Confirmed(transport, h)
    /\ transport' = removeSubscription(transport, {h})

\* callRpc (or any other request) awaits initialize(), with no session yet.
Initialize ==
    /\ transport.session = NoSession
    /\ transport' = [transport EXCEPT !.loading = TRUE]

\* A response rejects the session that its request was sent with, and
\* renewSession drops that session unless it has been replaced since.
RequestRejected(rejected) ==
    LET t == IF transport.session = rejected THEN dropSession(transport) ELSE transport
    IN  transport' = IF t.session # NoSession THEN scheduleReconnect(t)
                     ELSE [t EXCEPT !.renewing = TRUE, !.loading = TRUE]
-----------------------------------------------------------------------------
(***************************************************************************)
(* Session requests and timers.                                            *)
(***************************************************************************)

\* initialize() resolves with session s: the calls that await it go on, in the
\* order in which they began to wait.
Initialized(s, k) ==
    /\ transport.loading
    /\ LET t == [transport EXCEPT !.session = s, !.loading = FALSE,
                                  !.initializing = {}, !.renewing = FALSE]
           subscribed(u) == IF transport.initializing = {} THEN u
                            ELSE subscribe(u, transport.initializing, k)
           renewed(u) == IF transport.renewing THEN scheduleReconnect(u) ELSE u
       IN  transport' \in {renewed(subscribed(t)), subscribed(renewed(t))}


\* initialize() rejects, and with it every call that awaits it.
InitializeFailed ==
    /\ transport.loading
    /\ transport' = [transport EXCEPT !.loading = FALSE, !.initializing = {}, !.renewing = FALSE]

TimerFires ==
    /\ transport.reconnectTimer
    /\ transport' = [transport EXCEPT !.reconnectTimer = FALSE,
                                      !.reconnects = @ \cup {transport.session}]

\* What a reconnect() that began with session `previous` makes of session s.
adoptWithSequence(t, previous, s) ==
    IF t.session # previous THEN t ELSE [t EXCEPT !.session = s]
adopt(t, previous, s) ==
    IF t.session # previous THEN t
    ELSE [t EXCEPT !.session = s,
                   !.lastSequence = IF previous # s THEN 0 ELSE @]

\* loadSession() in reconnect() resolves.
Reconnect(previous, s, k) ==
    /\ previous \in transport.reconnects
    /\ LET t == adopt([transport EXCEPT !.reconnects = @ \ {previous}], previous, s)
           u == ensureConnected(t, k)
       IN  transport' = IF t.intentionalClose \/ subscribedEvents(t) = {} THEN t
                        ELSE [u EXCEPT !.retrying = @ \cup ({u.connectionPromise} \ {NoSocket})]

ReconnectFailed(previous) ==
    /\ previous \in transport.reconnects
    /\ transport' = scheduleReconnect([transport EXCEPT !.reconnects = @ \ {previous}])
-----------------------------------------------------------------------------
(***************************************************************************)
(* Socket callbacks.                                                       *)
(***************************************************************************)
OnOpen(k) ==
    /\ transport.readyState[k] = "upgraded"
    /\ LET t == [transport EXCEPT !.readyState[k] = "open"]
           u == [t EXCEPT !.connectionPromise = NoSocket,
                          !.retrying = @ \ {k},
                          !.opening = [h \in Handlers |-> IF @[h] = k THEN NoSocket ELSE @[h]]]
       IN  transport' = IF k # transport.socket THEN close(t, k) ELSE subscribeAll(u)

\* The error of a socket that never opened; the close follows.
OnError(k) ==
    /\ transport.readyState[k] = "closing"
    /\ k \in {transport.connectionPromise} \cup transport.retrying
           \/ AwaitingOpen(transport, k) # {}
    /\ transport' = failBeforeOpen(transport, k, {})

OnCloseSilent(k) ==
    /\ transport.readyState[k] = "closing"
    /\ LET t == [transport EXCEPT !.readyState[k] = "closed"]
       IN  transport' =
            IF k # transport.socket THEN failBeforeOpen(t, k, {})
            ELSE failBeforeOpen([t EXCEPT !.socket = NoSocket], k, t.pending)
OnClose(k) ==
    /\ transport.readyState[k] = "closing"
    /\ LET t == [transport EXCEPT !.readyState[k] = "closed"]
       IN  transport' =
            IF k # transport.socket THEN failBeforeOpen(t, k, {})
            ELSE failBeforeOpen(scheduleReconnect([t EXCEPT !.socket = NoSocket]), k, t.pending)

\* handleSocketMessage.
acknowledgeOthers(t, events) ==
    [t EXCEPT !.pending = {h \in @ : EventOf[h] \in events}]
acknowledge(t, events) ==
    [t EXCEPT !.pending = {h \in @ : EventOf[h] \notin events}]

IsNew(t, envelope) == envelope.sequence > t.lastSequence

handleSocketMessageBehind(t, message) ==
    CASE message.type = "subscribed" -> acknowledge(t, message.events)
      [] message.type = "error" -> removeSubscription(t, t.pending)
      [] message.type = "event" /\ IsNew(t, message.envelope) ->
            [t EXCEPT !.lastSequence = message.envelope.sequence - 1]
      [] OTHER -> t

handleSocketMessage(t, message) ==
    CASE message.type = "subscribed" -> acknowledge(t, message.events)
      [] message.type = "error" -> removeSubscription(t, t.pending)
      [] message.type = "event" /\ IsNew(t, message.envelope) ->
            [t EXCEPT !.lastSequence = message.envelope.sequence]
      [] OTHER -> t

\* Whether the message makes deliverEvent call the handlers.
Delivers(t, message) ==
    /\ message.type = "event"
    /\ IsNew(t, message.envelope)
    /\ message.envelope.event \in subscribedEvents(t)

\* onmessage, or the server's close frame.
OnMessage(k) ==
    /\ transport.readyState[k] = "open"
    /\ transport.inbox[k] # <<>>
    /\ LET message == Head(transport.inbox[k])
           t == [transport EXCEPT !.inbox[k] = Tail(@)]
       IN  transport' = IF message.type = "close" THEN Lose(transport, k)
                        ELSE IF k = transport.socket THEN handleSocketMessage(t, message)
                        ELSE t
=============================================================================
