------------------------ MODULE EventDeliveryProofs ------------------------
(***************************************************************************)
(* What reaches a browser tab, for every set of sessions, sockets, events  *)
(* and handlers, every history capacity, and every bound on the numbers.   *)
(*                                                                         *)
(* DeliveryInv is inductive. Its steps fall into four shapes. A step of    *)
(* the tab (Tab) keeps its socket or takes a new one, on which nothing has *)
(* been said. A step aside (Aside) shrinks the queues and registers        *)
(* nothing. The server answers a control message with a replay that comes  *)
(* before anything it queues later (AnswerInv). And a published event is   *)
(* behind everything published before it, in the history and in every      *)
(* queue it enters (Spreads). The steps of opening, delivery, forwarding,  *)
(* upgrade and restart have a lemma each.                                  *)
(***************************************************************************)
EXTENDS EventDelivery, EventBusProofs

\* The fields of a server message.
LEMMA MessageTyped ==
    ASSUME NEW m \in Messages
    PROVE  /\ m.type \in {"event", "subscribed", "unsubscribed", "error", "close"}
           /\ m.type = "event" => m.envelope \in Envelope
           /\ m.type = "subscribed" => m.events \in SUBSET Events
BY DEF Messages

\* The fields of a control message.
LEMMA ControlTyped ==
    ASSUME NEW m \in Controls
    PROVE  /\ m.type \in {"subscribe", "unsubscribe", "close"}
           /\ m.type # "close" => m.events \in SUBSET Events
           /\ m.type = "subscribe" => m.since \in 0..MaxSequence
BY DEF Controls

\* EventMessage wraps an envelope in a server message.
LEMMA EventTyped ==
    ASSUME NEW e \in Envelope
    PROVE  /\ EventMessage(e) \in Messages
           /\ EventMessage(e).type = "event"
           /\ EventMessage(e).envelope = e
BY DEF EventMessage, Messages

\* A close frame may travel in either direction.
LEMMA CloseTyped ==
    /\ Client!CloseFrame \in Messages
    /\ Client!CloseFrame \in Controls
    /\ Client!CloseFrame.type = "close"
BY DEF Client!CloseFrame, Messages, Controls

\* A subscription is a control message.
LEMMA SubscribeTyped ==
    ASSUME NEW E \in SUBSET Events, NEW n \in 0..MaxSequence
    PROVE  LET m == Client!SubscribeMessage(E, n) IN
           /\ m \in Controls
           /\ m.type = "subscribe"
           /\ m.events = E
           /\ m.since = n
BY DEF Client!SubscribeMessage, Controls

\* An unsubscription is a control message.
LEMMA UnsubscribeTyped ==
    ASSUME NEW E \in SUBSET Events
    PROVE  LET m == Client!UnsubscribeMessage(E) IN
           /\ m \in Controls
           /\ m.type = "unsubscribe"
           /\ m.events = E
BY DEF Client!UnsubscribeMessage, Controls

\* Losing a socket closes it and drops what it carried, and changes nothing else.
LEMMA LoseShape ==
    ASSUME NEW t \in Transports, NEW k \in ConnIds
    PROVE  LET u == Client!Lose(t, k) IN
           /\ u \in Transports
           /\ u.session = t.session
           /\ u.handlers = t.handlers
           /\ u.pending = t.pending
           /\ u.initializing = t.initializing
           /\ u.socket = t.socket
           /\ u.connectionPromise = t.connectionPromise
           /\ u.lastSequence = t.lastSequence
           /\ u.readyState = [t.readyState EXCEPT ![k] = "closing"]
           /\ u.inbox = [t.inbox EXCEPT ![k] = <<>>]
           /\ u.outbox = [t.outbox EXCEPT ![k] = <<>>]
<1>. DEFINE u == Client!Lose(t, k)
<1>1. /\ t.readyState \in [ConnIds -> ReadyStates]
      /\ t.outbox \in [ConnIds -> Seq(Controls)]
      /\ t.inbox \in [ConnIds -> Seq(Messages)]
  BY DEF Transports
<1>2. /\ [t.readyState EXCEPT ![k] = "closing"] \in [ConnIds -> ReadyStates]
      /\ [t.outbox EXCEPT ![k] = <<>>] \in [ConnIds -> Seq(Controls)]
      /\ [t.inbox EXCEPT ![k] = <<>>] \in [ConnIds -> Seq(Messages)]
  BY <1>1 DEF ReadyStates
<1>3. u = [t EXCEPT !.readyState = [t.readyState EXCEPT ![k] = "closing"],
                    !.inbox = [t.inbox EXCEPT ![k] = <<>>],
                    !.outbox = [t.outbox EXCEPT ![k] = <<>>]]
  BY DEF Client!Lose
<1>4. u \in Transports
  BY <1>2, <1>3 DEF Transports
<1>. QED
  BY <1>3, <1>4 DEF Transports

-----------------------------------------------------------------------------
Lives(t) == t.socket \in ConnIds /\ t.readyState[t.socket] \in LiveStates

\* What TypeOK, OneSocket and Waits say of a transport.
Sound(t) ==
    /\ t \in Transports
    /\ t.initializing \cap t.handlers = {}
    /\ t.pending \subseteq t.handlers
    /\ t.connectionPromise \in {NoSocket, t.socket}
    /\ \A k \in ConnIds : t.readyState[k] \in LiveStates => k = t.socket
    /\ Lives(t) /\ t.readyState[t.socket] # "open" => t.connectionPromise = t.socket
    /\ \A k \in ConnIds : t.readyState[k] \notin LiveStates => t.inbox[k] = <<>>

\* They differ in what no socket and no handler shows.
Alike(t, u) ==
    /\ u \in Transports
    /\ u.session = t.session
    /\ u.initializing = t.initializing
    /\ u.handlers = t.handlers
    /\ u.pending = t.pending
    /\ u.socket = t.socket
    /\ u.connectionPromise = t.connectionPromise
    /\ u.lastSequence = t.lastSequence
    /\ u.readyState = t.readyState
    /\ u.outbox = t.outbox
    /\ u.inbox = t.inbox

\* The socket lives on, and was told of the events that gained or lost handlers.
Told(t, u) ==
    LET k == t.socket IN
    /\ Lives(t)
    /\ u.socket = k
    /\ u.readyState[k] = t.readyState[k]
    /\ \/ /\ u.outbox[k] = t.outbox[k]
          /\ t.readyState[k] = "open" => Client!subscribedEvents(u) = Client!subscribedEvents(t)
       \/ /\ t.readyState[k] = "open"
          /\ \E E \in SUBSET Client!EventsOf(Handlers) :
              \/ /\ u.outbox[k] = Append(t.outbox[k], Client!SubscribeMessage(E, 0))
                 /\ Client!subscribedEvents(u) = Client!subscribedEvents(t) \cup E
              \/ /\ u.outbox[k] = Append(t.outbox[k], Client!UnsubscribeMessage(E))
                 /\ Client!subscribedEvents(u) = Client!subscribedEvents(t) \ E

\* A change Alike covers leaves a sound transport sound.
LEMMA AlikeSound ==
    ASSUME NEW t, NEW u, Sound(t), Alike(t, u)
    PROVE  Sound(u)
BY DEF Sound, Alike, Lives

\* Arming the reconnect timer touches no socket, handler, session or number.
LEMMA ScheduleReconnectShape ==
    ASSUME NEW t \in Transports
    PROVE  Alike(t, Client!scheduleReconnect(t))
<1>. DEFINE u == [t EXCEPT !.reconnectTimer = TRUE]
<1>1. u \in Transports
  BY DEF Transports
<1>2. Alike(t, u) /\ Alike(t, t)
  BY <1>1 DEF Alike, Transports
<1>. QED
  BY <1>2 DEF Client!scheduleReconnect

\* sendControl appends to the open socket's outbox or does nothing.
LEMMA SendControlShape ==
    ASSUME NEW t \in Transports, NEW m \in Controls
    PROVE  LET u == Client!sendControl(t, m) IN
           /\ ~Client!IsOpen(t) => u = t
           /\ Client!IsOpen(t) =>
                /\ t.socket \in ConnIds
                /\ u = [t EXCEPT !.outbox = [t.outbox EXCEPT ![t.socket] = Append(t.outbox[t.socket], m)]]
                /\ u \in Transports
<1>. DEFINE u == Client!sendControl(t, m)
<1>. SUFFICES ASSUME Client!IsOpen(t)
              PROVE  /\ t.socket \in ConnIds
                     /\ u = [t EXCEPT !.outbox = [t.outbox EXCEPT ![t.socket] = Append(t.outbox[t.socket], m)]]
                     /\ u \in Transports
  BY DEF Client!sendControl
<1>1. t.socket \in ConnIds
  BY DEF Client!IsOpen, Transports
<1>2. u = [t EXCEPT !.outbox = [t.outbox EXCEPT ![t.socket] = Append(t.outbox[t.socket], m)]]
  BY DEF Client!sendControl
<1>3. t.outbox \in [ConnIds -> Seq(Controls)]
  BY DEF Transports
<1>4. [t.outbox EXCEPT ![t.socket] = Append(t.outbox[t.socket], m)] \in [ConnIds -> Seq(Controls)]
  BY <1>1, <1>3
<1>. QED
  BY <1>1, <1>2, <1>4 DEF Transports

\* close() leaves a socket that lives no longer, and changes no other.
LEMMA CloseShape ==
    ASSUME NEW t \in Transports, NEW k \in ConnIds \cup {NoSocket},
           \A j \in ConnIds : t.readyState[j] \notin LiveStates => t.inbox[j] = <<>>
    PROVE  LET u == Client!close(t, k) IN
           /\ u \in Transports
           /\ u.session = t.session
           /\ u.initializing = t.initializing
           /\ u.handlers = t.handlers
           /\ u.pending = t.pending
           /\ u.socket = t.socket
           /\ u.connectionPromise = t.connectionPromise
           /\ u.lastSequence = t.lastSequence
           /\ k \in ConnIds => u.readyState[k] \notin LiveStates /\ u.inbox[k] = <<>>
           /\ \A j \in ConnIds \ {k} : /\ u.readyState[j] = t.readyState[j]
                                       /\ u.outbox[j] = t.outbox[j]
                                       /\ u.inbox[j] = t.inbox[j]
<1>. USE DEF LiveStates
<1>1. /\ t.readyState \in [ConnIds -> ReadyStates]
      /\ t.outbox \in [ConnIds -> Seq(Controls)]
      /\ t.inbox \in [ConnIds -> Seq(Messages)]
  BY DEF Transports
<1>2. CASE k = NoSocket
  <2>1. Client!close(t, k) = t
    BY <1>2 DEF Client!close
  <2>. QED
    BY <1>1, <1>2, <2>1, TabAssumption
<1>3. CASE k # NoSocket /\ t.readyState[k] \in {"closing", "closed"}
  <2>1. Client!close(t, k) = t
    BY <1>3 DEF Client!close
  <2>2. t.readyState[k] \notin LiveStates /\ t.inbox[k] = <<>>
    BY <1>3
  <2>. QED
    BY <1>1, <2>1, <2>2
<1>4. CASE k # NoSocket /\ t.readyState[k] \in LiveStates
  <2>1. k \in ConnIds /\ k # NoSocket
    BY <1>4
  <2>. DEFINE r == [t.readyState EXCEPT ![k] = "closing"]
              i == [t.inbox EXCEPT ![k] = <<>>]
              oLost == [t.outbox EXCEPT ![k] = <<>>]
              oClosed == [t.outbox EXCEPT ![k] = Append(t.outbox[k], Client!CloseFrame)]
  <2>2. \/ Client!close(t, k) = [t EXCEPT !.readyState = r, !.outbox = oLost, !.inbox = i]
        \/ Client!close(t, k) = [t EXCEPT !.readyState = r, !.outbox = oClosed, !.inbox = i]
    <3>1. CASE t.readyState[k] = "connecting"
      <4>1. Client!close(t, k) = Client!Lose(t, k)
        BY <1>4, <3>1 DEF Client!close
      <4>. QED
        BY <4>1 DEF Client!Lose, Transports
    <3>2. CASE t.readyState[k] \in {"upgraded", "open"}
      <4>1. Client!close(t, k) = [t EXCEPT !.readyState[k] = "closing",
                      !.inbox[k] = <<>>,
                      !.outbox[k] = Append(@, Client!CloseFrame)]
        BY <1>4, <3>2 DEF Client!close
      <4>. QED
        BY <4>1 DEF Transports
    <3>. QED
      BY <1>4, <3>1, <3>2
  <2>3. /\ r \in [ConnIds -> ReadyStates]
        /\ i \in [ConnIds -> Seq(Messages)]
        /\ oLost \in [ConnIds -> Seq(Controls)]
        /\ oClosed \in [ConnIds -> Seq(Controls)]
    BY <1>1, <2>1, CloseTyped DEF ReadyStates
  <2>4. r[k] \notin LiveStates /\ i[k] = <<>>
    BY <1>1, <2>1
  <2>5. \A j \in ConnIds \ {k} : /\ r[j] = t.readyState[j] /\ i[j] = t.inbox[j]
                                 /\ oLost[j] = t.outbox[j] /\ oClosed[j] = t.outbox[j]
    BY <1>1
  <2>6. PICK o \in {oLost, oClosed} :
          Client!close(t, k) = [t EXCEPT !.readyState = r, !.outbox = o, !.inbox = i]
    BY <2>2
  <2>7. \A j \in ConnIds \ {k} : o[j] = t.outbox[j]
    BY <2>5, <2>6
  <2>8. o \in [ConnIds -> Seq(Controls)]
    BY <2>3, <2>6
  <2>. HIDE DEF r, i, oLost, oClosed
  <2>9. Client!close(t, k) \in Transports
    BY <2>3, <2>6, <2>8 DEF Transports
  <2>10. /\ Client!close(t, k).readyState = r
         /\ Client!close(t, k).outbox = o
         /\ Client!close(t, k).inbox = i
    BY <2>6 DEF Transports
  <2>. QED
    BY <2>4, <2>5, <2>6, <2>7, <2>9, <2>10 DEF Transports
<1>. QED
  BY <1>1, <1>2, <1>3, <1>4 DEF ReadyStates

\* removeSubscription: the handlers are gone, and the socket was told of it or is
\* not `this.socket` any more.
LEMMA RemoveSubscriptionShape ==
    ASSUME NEW t, Sound(t), NEW gone \in SUBSET Handlers
    PROVE  LET u == Client!removeSubscription(t, gone) IN
           /\ Sound(u)
           /\ u.session = t.session
           /\ u.lastSequence = t.lastSequence
           /\ u.handlers = t.handlers \ gone
           /\ Lives(u) => Told(t, u) /\ u.inbox[t.socket] = t.inbox[t.socket]
           /\ u.socket \in {t.socket, NoSocket}
<1>. DEFINE left == t.handlers \ gone
            ended == Client!subscribedEvents(t) \ Client!EventsOf(left)
            removed == [t EXCEPT !.handlers = left,
                             !.pending = t.pending \ gone,
                             !.opening = [h \in Handlers |-> IF h \in gone THEN NoSocket ELSE t.opening[h]]]
            told == IF ended = {} THEN removed
                    ELSE Client!sendControl(removed, Client!UnsubscribeMessage(ended))
            u == Client!removeSubscription(t, gone)
<1>1. t \in Transports
  BY DEF Sound
<1>2. /\ t.opening \in [Handlers -> ConnIds \cup {NoSocket}]
      /\ t.handlers \in SUBSET Handlers /\ t.pending \in SUBSET Handlers
      /\ t.socket \in ConnIds \cup {NoSocket}
  BY <1>1 DEF Transports
<1>3. [h \in Handlers |-> IF h \in gone THEN NoSocket ELSE t.opening[h]]
        \in [Handlers -> ConnIds \cup {NoSocket}]
  BY <1>2
<1>4. removed \in Transports
  BY <1>1, <1>2, <1>3 DEF Transports
<1>5. /\ removed.session = t.session /\ removed.initializing = t.initializing
      /\ removed.handlers = left /\ removed.pending = t.pending \ gone
      /\ removed.socket = t.socket /\ removed.connectionPromise = t.connectionPromise
      /\ removed.lastSequence = t.lastSequence /\ removed.readyState = t.readyState
      /\ removed.outbox = t.outbox /\ removed.inbox = t.inbox
  BY <1>1 DEF Transports
<1>6. /\ Client!subscribedEvents(t) \in SUBSET Events
      /\ Client!subscribedEvents(t) \in SUBSET Client!EventsOf(Handlers)
      /\ ended \in SUBSET Events
      /\ ended \in SUBSET Client!EventsOf(Handlers)
      /\ Client!EventsOf(left) = Client!subscribedEvents(t) \ ended
  BY <1>2, TabAssumption DEF Client!subscribedEvents, Client!EventsOf
<1>7. u = IF ended # {} /\ left = {}
          THEN [Client!close(told, told.socket) EXCEPT !.intentionalClose = TRUE,
                                              !.reconnectTimer = FALSE,
                                              !.socket = NoSocket,
                                              !.connectionPromise = NoSocket]
          ELSE told
  BY DEF Client!removeSubscription
<1>. HIDE DEF removed, u
<1>8. Client!UnsubscribeMessage(ended) \in Controls
  BY <1>6, UnsubscribeTyped
<1>9. /\ told \in Transports
      /\ told.session = t.session /\ told.initializing = t.initializing
      /\ told.handlers = left /\ told.pending = t.pending \ gone
      /\ told.socket = t.socket /\ told.connectionPromise = t.connectionPromise
      /\ told.lastSequence = t.lastSequence /\ told.readyState = t.readyState
      /\ told.inbox = t.inbox
  <2>1. CASE ended = {} \/ ~Client!IsOpen(removed)
    <3>1. told = removed
      BY <2>1, <1>4, <1>8, SendControlShape
    <3>. QED
      BY <3>1, <1>4, <1>5
  <2>2. CASE ended # {} /\ Client!IsOpen(removed)
    <3>1. /\ told = [removed EXCEPT !.outbox = [removed.outbox EXCEPT ![removed.socket] =
                        Append(removed.outbox[removed.socket], Client!UnsubscribeMessage(ended))]]
          /\ told \in Transports
      BY <2>2, <1>4, <1>8, SendControlShape
    <3>. HIDE DEF told
    <3>. QED
      BY <3>1, <1>4, <1>5 DEF Transports
  <2>. QED
    BY <2>1, <2>2
<1>10. \/ told.outbox = t.outbox /\ (ended = {} \/ ~Client!IsOpen(t))
       \/ /\ Client!IsOpen(t)
          /\ told.outbox[t.socket] = Append(t.outbox[t.socket], Client!UnsubscribeMessage(ended))
  <2>0. Client!IsOpen(removed) = Client!IsOpen(t)
    BY <1>5 DEF Client!IsOpen
  <2>1. CASE ended = {} \/ ~Client!IsOpen(removed)
    <3>1. told = removed
      BY <2>1, <1>4, <1>8, SendControlShape
    <3>. QED
      BY <3>1, <1>5, <2>0, <2>1
  <2>2. CASE ended # {} /\ Client!IsOpen(removed)
    <3>1. /\ told = [removed EXCEPT !.outbox = [removed.outbox EXCEPT ![removed.socket] =
                        Append(removed.outbox[removed.socket], Client!UnsubscribeMessage(ended))]]
          /\ removed.socket \in ConnIds
      BY <2>2, <1>4, <1>8, SendControlShape
    <3>2. t.outbox \in [ConnIds -> Seq(Controls)]
      BY <1>1 DEF Transports
    <3>. HIDE DEF told
    <3>. QED
      BY <3>1, <3>2, <1>4, <1>5, <2>0, <2>2 DEF Transports
  <2>. QED
    BY <2>1, <2>2
<1>. HIDE DEF told, ended, left
<1>11. left \cap t.initializing = {} /\ t.pending \ gone \subseteq left
  BY DEF left, Sound
<1>12. CASE ~(ended # {} /\ left = {})
  <2>1. u = told
    BY <1>7, <1>12
  <2>2. Sound(u)
    BY <2>1, <1>9, <1>11 DEF Sound, Lives
  <2>3. Lives(u) => Told(t, u)
    <3>. SUFFICES ASSUME Lives(u) PROVE Told(t, u)
      OBVIOUS
    <3>1. Lives(t)
      BY <2>1, <1>9 DEF Lives
    <3>2. Client!subscribedEvents(u) = Client!subscribedEvents(t) \ ended
      BY <2>1, <1>6, <1>9 DEF Client!subscribedEvents
    <3>3. Client!IsOpen(t) <=> t.readyState[t.socket] = "open"
      BY <3>1, TabAssumption DEF Client!IsOpen, Lives
    <3>. QED
      BY <2>1, <3>1, <3>2, <3>3, <1>6, <1>9, <1>10 DEF Told
  <2>. QED
    BY <2>1, <2>2, <2>3, <1>9 DEF left, u, Told
<1>13. CASE ended # {} /\ left = {}
  <2>. DEFINE v == Client!close(told, told.socket)
  <2>1. \A j \in ConnIds : told.readyState[j] \notin LiveStates => told.inbox[j] = <<>>
    BY <1>9 DEF Sound
  <2>2. /\ v \in Transports
        /\ v.session = t.session
        /\ v.initializing = t.initializing
        /\ v.handlers = left
        /\ v.pending = t.pending \ gone
        /\ v.lastSequence = t.lastSequence
        /\ t.socket \in ConnIds => v.readyState[t.socket] \notin LiveStates /\ v.inbox[t.socket] = <<>>
        /\ \A j \in ConnIds \ {t.socket} : v.readyState[j] = t.readyState[j] /\ v.inbox[j] = t.inbox[j]
    <3>1. told.socket \in ConnIds \cup {NoSocket}
      BY <1>2, <1>9
    <3>. QED
      BY <3>1, <1>9, <2>1, CloseShape
  <2>4. u = [v EXCEPT !.intentionalClose = TRUE,
                      !.reconnectTimer = FALSE,
                      !.socket = NoSocket,
                      !.connectionPromise = NoSocket]
    BY <1>7, <1>13
  <2>. HIDE DEF v
  <2>5. u \in Transports
    BY <2>2, <2>4 DEF Transports
  <2>6. /\ u.session = t.session /\ u.initializing = t.initializing
        /\ u.handlers = left /\ u.pending = t.pending \ gone
        /\ u.socket = NoSocket /\ u.connectionPromise = NoSocket
        /\ u.lastSequence = t.lastSequence
        /\ u.readyState = v.readyState /\ u.inbox = v.inbox
    BY <2>2, <2>4 DEF Transports
  <2>7. \A k \in ConnIds : u.readyState[k] \notin LiveStates /\ u.inbox[k] = <<>>
    <3>. TAKE k \in ConnIds
    <3>1. CASE k = t.socket
      BY <3>1, <2>2, <2>6
    <3>2. CASE k # t.socket
      <4>1. t.readyState[k] \notin LiveStates /\ t.inbox[k] = <<>>
        BY <3>2 DEF Sound
      <4>2. v.readyState[k] = t.readyState[k] /\ v.inbox[k] = t.inbox[k]
        BY <3>2, <2>2
      <4>. QED
        BY <4>1, <4>2, <2>6
    <3>. QED
      BY <3>1, <3>2
  <2>8. Sound(u) /\ ~Lives(u)
    BY <2>5, <2>6, <2>7, <1>11, TabAssumption DEF Sound, Lives
  <2>. QED
    BY <2>6, <2>8 DEF left, u
<1>. QED
  BY <1>12, <1>13

\* Told does not look at the fields in which Alike transports may differ.
LEMMA ToldAlike ==
    ASSUME NEW t, NEW v, NEW u, Told(t, v), Alike(v, u)
    PROVE  Told(t, u)
BY DEF Told, Alike, Client!subscribedEvents

\* failBeforeOpen, for a socket that lives no longer.
LEMMA FailBeforeOpenShape ==
    ASSUME NEW t \in Transports, NEW k \in ConnIds, NEW rejected \in SUBSET Handlers,
           t.initializing \cap t.handlers = {},
           t.pending \subseteq t.handlers,
           t.connectionPromise \in {NoSocket, k, t.socket},
           \A j \in ConnIds : t.readyState[j] \in LiveStates => j = t.socket,
           Lives(t) /\ t.readyState[t.socket] # "open" => t.connectionPromise = t.socket,
           \A j \in ConnIds : t.readyState[j] \notin LiveStates => t.inbox[j] = <<>>,
           t.readyState[k] \notin LiveStates
    PROVE  LET u == Client!failBeforeOpen(t, k, rejected) IN
           /\ Sound(u)
           /\ u.session = t.session
           /\ u.lastSequence = t.lastSequence
           /\ u.handlers \subseteq t.handlers
           /\ Lives(u) => Told(t, u) /\ u.inbox[t.socket] = t.inbox[t.socket]
<1>. DEFINE settled == [t EXCEPT !.connectionPromise = IF t.connectionPromise = k THEN NoSocket
                                                       ELSE t.connectionPromise,
                                 !.retrying = t.retrying \ {k}]
            gone == rejected \cup Client!AwaitingOpen(t, k)
            removed == Client!removeSubscription(settled, gone)
            u == Client!failBeforeOpen(t, k, rejected)
<1>1. gone \in SUBSET Handlers
  BY DEF Client!AwaitingOpen, Transports
<1>2. settled \in Transports
  BY DEF Transports
<1>3. /\ settled.session = t.session /\ settled.initializing = t.initializing
      /\ settled.handlers = t.handlers /\ settled.pending = t.pending
      /\ settled.socket = t.socket
      /\ settled.connectionPromise = (IF t.connectionPromise = k THEN NoSocket ELSE t.connectionPromise)
      /\ settled.lastSequence = t.lastSequence /\ settled.readyState = t.readyState
      /\ settled.outbox = t.outbox /\ settled.inbox = t.inbox
  BY DEF Transports
<1>4. u = IF k \in t.retrying THEN Client!scheduleReconnect(removed) ELSE removed
  BY DEF Client!failBeforeOpen
<1>. HIDE DEF settled, gone, u
<1>5. Sound(settled)
  BY <1>2, <1>3 DEF Sound, Lives
<1>6. /\ Sound(removed)
      /\ removed.session = settled.session
      /\ removed.lastSequence = settled.lastSequence
      /\ removed.handlers = settled.handlers \ gone
      /\ Lives(removed) => Told(settled, removed) /\ removed.inbox[settled.socket] = settled.inbox[settled.socket]
  BY <1>1, <1>5, RemoveSubscriptionShape
<1>. HIDE DEF removed
<1>7. Lives(removed) => Told(t, removed)
  BY <1>3, <1>6 DEF Told, Lives, Client!subscribedEvents
<1>8. Alike(removed, u)
  <2>1. removed \in Transports
    BY <1>6 DEF Sound
  <2>2. Alike(removed, removed)
    BY <2>1 DEF Alike
  <2>. QED
    BY <1>4, <2>1, <2>2, ScheduleReconnectShape
<1>9. Sound(u) /\ (Lives(u) => Told(t, u))
  <2>1. Sound(u)
    BY <1>6, <1>8, AlikeSound
  <2>2. Lives(u) => Lives(removed)
    BY <1>8 DEF Alike, Lives
  <2>. QED
    BY <2>1, <2>2, <1>7, <1>8, ToldAlike
<1>10. Lives(u) => u.inbox[t.socket] = t.inbox[t.socket]
  BY <1>3, <1>6, <1>8 DEF Alike, Lives
<1>. QED
  BY <1>3, <1>6, <1>8, <1>9, <1>10 DEF Alike, u

\* The socket was made by this step.
Created(u, k) ==
    /\ k \in ConnIds
    /\ u.socket = k
    /\ u.readyState[k] = "connecting"
    /\ u.outbox[k] = <<>>
    /\ u.inbox[k] = <<>>

\* The id is that of a socket that closed, if one is to be made.
Available(t, k) == Client!MustConnect(t) => k \in ConnIds /\ t.readyState[k] = "closed"

\* ensureConnected: what is connecting or open stays, or a socket is made.
LEMMA EnsureConnectedShape ==
    ASSUME NEW t, Sound(t), NEW k, Available(t, k)
    PROVE  LET u == Client!ensureConnected(t, k) IN
           /\ Sound(u)
           /\ u.session = t.session
           /\ u.initializing = t.initializing
           /\ u.handlers = t.handlers
           /\ u.pending = t.pending
           /\ u.lastSequence = t.lastSequence
           /\ u = t \/ Created(u, k)
           /\ Client!IsOpen(t) => u = t
<1>. DEFINE u == Client!ensureConnected(t, k)
<1>1. CASE ~Client!MustConnect(t)
  <2>1. u = t
    BY <1>1 DEF Client!ensureConnected
  <2>. HIDE DEF u
  <2>2. /\ Sound(u) /\ u.session = t.session /\ u.initializing = t.initializing
        /\ u.handlers = t.handlers /\ u.pending = t.pending /\ u.lastSequence = t.lastSequence
    BY <2>1
  <2>. QED
    BY <2>1, <2>2 DEF u
<1>2. CASE Client!MustConnect(t)
  <2>1. t \in Transports /\ k \in ConnIds /\ t.readyState[k] = "closed"
    BY <1>2 DEF Sound, Available
  <2>2. /\ t.readyState \in [ConnIds -> ReadyStates]
        /\ t.outbox \in [ConnIds -> Seq(Controls)]
        /\ t.inbox \in [ConnIds -> Seq(Messages)]
    BY <2>1 DEF Transports
  <2>. DEFINE r == [t.readyState EXCEPT ![k] = "connecting"]
              o == [t.outbox EXCEPT ![k] = <<>>]
  <2>3. r \in [ConnIds -> ReadyStates] /\ o \in [ConnIds -> Seq(Controls)]
    BY <2>1, <2>2 DEF ReadyStates
  <2>4. u = [t EXCEPT !.socket = k, !.connectionPromise = k, !.readyState = r, !.outbox = o]
    BY <1>2 DEF Client!ensureConnected
  <2>5. /\ r[k] = "connecting" /\ o[k] = <<>>
        /\ \A j \in ConnIds \ {k} : r[j] = t.readyState[j]
    BY <2>1, <2>2
  <2>. HIDE DEF r, o, u
  <2>6. u \in Transports
    BY <2>1, <2>3, <2>4 DEF Transports
  <2>7. /\ u.session = t.session /\ u.initializing = t.initializing
        /\ u.handlers = t.handlers /\ u.pending = t.pending
        /\ u.socket = k /\ u.connectionPromise = k
        /\ u.lastSequence = t.lastSequence
        /\ u.readyState = r /\ u.outbox = o /\ u.inbox = t.inbox
    BY <2>1, <2>4 DEF Transports
  <2>8. \A j \in ConnIds : t.readyState[j] \notin LiveStates
    <3>1. ~Lives(t)
      <4>. SUFFICES ASSUME Lives(t) PROVE FALSE
        OBVIOUS
      <4>1. t.readyState[t.socket] # "open"
        BY <1>2, TabAssumption DEF Client!MustConnect, Client!IsOpen, Lives
      <4>2. t.connectionPromise = NoSocket /\ t.socket \in ConnIds
        BY <1>2 DEF Client!MustConnect, Lives
      <4>. QED
        BY <4>1, <4>2, TabAssumption DEF Sound
    <3>. QED
      BY <3>1 DEF Lives, Sound
  <2>9. Created(u, k)
    BY <2>1, <2>5, <2>7, <2>8 DEF Created, Sound
  <2>10. Sound(u)
    <3>1. \A j \in ConnIds : u.readyState[j] \in LiveStates => j = u.socket
      BY <2>5, <2>7, <2>8
    <3>2. \A j \in ConnIds : u.inbox[j] = <<>>
      BY <2>7, <2>8 DEF Sound
    <3>. QED
      BY <2>6, <2>7, <3>1, <3>2 DEF Sound, Lives
  <2>11. ~Client!IsOpen(t)
    BY <1>2 DEF Client!MustConnect
  <2>. QED
    BY <2>7, <2>9, <2>10, <2>11 DEF u
<1>. QED
  BY <1>1, <1>2

\* What a step of the tab may make of `this.socket`, other than opening it or
\* handing it a message.
Moved(t, u, k) ==
    \/ ~Lives(u)
    \/ Told(t, u) /\ u.inbox[t.socket] = t.inbox[t.socket]
    \/ Created(u, k)

\* subscribe, for calls that are not waiting for the session.
LEMMA SubscribeShape ==
    ASSUME NEW t, Sound(t), NEW k, Available(t, k),
           NEW new \in SUBSET Handlers, new \cap t.initializing = {}
    PROVE  LET u == Client!subscribe(t, new, k) IN
           /\ Sound(u)
           /\ u.session = t.session
           /\ u.lastSequence = t.lastSequence
           /\ u.handlers = t.handlers \cup new
           /\ Moved(t, u, k)
<1>. DEFINE first == Client!EventsOf(new) \ Client!subscribedEvents(t)
            unconfirmed == first \cup Client!EventsOf(t.pending)
            base == [t EXCEPT !.handlers = t.handlers \cup new,
                      !.intentionalClose = FALSE,
                      !.pending = t.pending \cup {h \in new : EventOf[h] \in unconfirmed}]
            connected == Client!ensureConnected(base, k)
            waiting == [connected EXCEPT !.opening =
                       [h \in Handlers |-> IF h \in new THEN connected.connectionPromise
                                           ELSE connected.opening[h]]]
            u == Client!subscribe(t, new, k)
<1>1. t \in Transports /\ t.handlers \in SUBSET Handlers /\ t.pending \in SUBSET Handlers
  BY DEF Sound, Transports
<1>2. base \in Transports
  BY <1>1 DEF Transports
<1>3. /\ base.session = t.session /\ base.initializing = t.initializing
      /\ base.handlers = t.handlers \cup new
      /\ base.pending = t.pending \cup {h \in new : EventOf[h] \in unconfirmed}
      /\ base.socket = t.socket /\ base.connectionPromise = t.connectionPromise
      /\ base.lastSequence = t.lastSequence /\ base.readyState = t.readyState
      /\ base.outbox = t.outbox /\ base.inbox = t.inbox
  BY <1>1 DEF Transports
<1>4. /\ first \in SUBSET Events
      /\ first \in SUBSET Client!EventsOf(Handlers)
      /\ Client!EventsOf(t.handlers \cup new) = Client!subscribedEvents(t) \cup first
  BY <1>1, TabAssumption DEF Client!subscribedEvents, Client!EventsOf
<1>5. u = IF Client!IsOpen(t) /\ first # {}
          THEN Client!sendControl(waiting, Client!SubscribeMessage(first, 0))
          ELSE waiting
  BY DEF Client!subscribe
<1>. HIDE DEF base, first, u
<1>6. Sound(base)
  BY <1>2, <1>3 DEF Sound, Lives
<1>7. /\ Available(base, k)
      /\ Client!IsOpen(base) <=> Client!IsOpen(t)
  BY <1>3 DEF Available, Client!MustConnect, Client!IsOpen
<1>8. /\ Sound(connected)
      /\ connected.session = base.session
      /\ connected.initializing = base.initializing
      /\ connected.handlers = base.handlers
      /\ connected.pending = base.pending
      /\ connected.lastSequence = base.lastSequence
      /\ connected = base \/ Created(connected, k)
      /\ Client!IsOpen(base) => connected = base
  BY <1>6, <1>7, EnsureConnectedShape
<1>. HIDE DEF connected
<1>9. connected \in Transports
  BY <1>8 DEF Sound
<1>10. [h \in Handlers |-> IF h \in new THEN connected.connectionPromise
                           ELSE connected.opening[h]] \in [Handlers -> ConnIds \cup {NoSocket}]
  BY <1>9 DEF Transports
<1>11. waiting \in Transports
  BY <1>9, <1>10 DEF Transports
<1>12. Alike(connected, waiting)
  BY <1>9, <1>11 DEF Alike, Transports
<1>. HIDE DEF waiting
<1>13. Sound(waiting)
  BY <1>8, <1>12, AlikeSound
<1>14. Client!SubscribeMessage(first, 0) \in Controls
  BY <1>4, SubscribeTyped, ConfigAssumption
<1>15. CASE ~(Client!IsOpen(t) /\ first # {})
  <2>1. u = waiting
    BY <1>5, <1>15
  <2>2. Moved(t, u, k)
    <3>. SUFFICES ASSUME Lives(u), ~Created(u, k)
                  PROVE  Told(t, u) /\ u.inbox[t.socket] = t.inbox[t.socket]
      BY DEF Moved
    <3>1. connected = base
      <4>1. ~Created(connected, k)
        BY <2>1, <1>12 DEF Created, Alike
      <4>. QED
        BY <4>1, <1>8
    <3>2. /\ u.socket = t.socket /\ u.readyState = t.readyState
          /\ u.outbox = t.outbox /\ u.inbox = t.inbox
          /\ u.handlers = t.handlers \cup new
      BY <2>1, <3>1, <1>3, <1>12 DEF Alike
    <3>3. Lives(t)
      BY <3>2 DEF Lives
    <3>4. t.readyState[t.socket] = "open" => Client!IsOpen(t)
      BY <3>3, TabAssumption DEF Client!IsOpen, Lives
    <3>5. t.readyState[t.socket] = "open" => Client!subscribedEvents(u) = Client!subscribedEvents(t)
      BY <1>4, <1>15, <3>2, <3>4 DEF Client!subscribedEvents
    <3>. QED
      BY <3>2, <3>3, <3>5 DEF Told
  <2>. QED
    BY <2>1, <2>2, <1>3, <1>8, <1>12, <1>13 DEF Alike, u
<1>16. CASE Client!IsOpen(t) /\ first # {}
  <2>1. connected = base /\ Client!IsOpen(waiting)
    BY <1>7, <1>8, <1>12, <1>16 DEF Alike, Client!IsOpen
  <2>2. /\ waiting.socket = t.socket /\ waiting.readyState = t.readyState
        /\ waiting.outbox = t.outbox /\ waiting.inbox = t.inbox
        /\ waiting.session = t.session /\ waiting.initializing = t.initializing
        /\ waiting.handlers = t.handlers \cup new /\ waiting.pending = base.pending
        /\ waiting.connectionPromise = t.connectionPromise
        /\ waiting.lastSequence = t.lastSequence
    BY <2>1, <1>3, <1>12 DEF Alike
  <2>3. /\ t.socket \in ConnIds
        /\ u = [waiting EXCEPT !.outbox = [t.outbox EXCEPT ![t.socket] =
                    Append(t.outbox[t.socket], Client!SubscribeMessage(first, 0))]]
        /\ u \in Transports
    BY <1>5, <1>11, <1>14, <1>16, <2>1, <2>2, SendControlShape
  <2>4. t.outbox \in [ConnIds -> Seq(Controls)]
    BY <1>1 DEF Transports
  <2>5. /\ u.socket = t.socket /\ u.readyState = t.readyState /\ u.inbox = t.inbox
        /\ u.outbox[t.socket] = Append(t.outbox[t.socket], Client!SubscribeMessage(first, 0))
        /\ u.session = t.session /\ u.initializing = t.initializing
        /\ u.handlers = t.handlers \cup new /\ u.pending = base.pending
        /\ u.connectionPromise = t.connectionPromise
        /\ u.lastSequence = t.lastSequence
    BY <1>11, <2>2, <2>3, <2>4 DEF Transports
  <2>6. Sound(u)
    BY <2>2, <2>3, <2>5, <1>13 DEF Sound, Lives
  <2>7. Told(t, u)
    <3>1. Lives(t) /\ t.readyState[t.socket] = "open"
      BY <1>16, <2>3 DEF Client!IsOpen, Lives, LiveStates
    <3>2. Client!subscribedEvents(u) = Client!subscribedEvents(t) \cup first
      BY <1>4, <2>5 DEF Client!subscribedEvents
    <3>. QED
      BY <1>4, <2>5, <3>1, <3>2 DEF Told
  <2>. QED
    BY <2>5, <2>6, <2>7 DEF Moved, u
<1>. QED
  BY <1>15, <1>16

\* dropSession leaves no socket.
LEMMA DropSessionShape ==
    ASSUME NEW t, Sound(t)
    PROVE  LET u == Client!dropSession(t) IN
           /\ Sound(u)
           /\ u.session = NoSession
           /\ u.lastSequence = 0
           /\ u.handlers = t.handlers
           /\ ~Lives(u)
<1>. DEFINE v == Client!close(t, t.socket)
            u == Client!dropSession(t)
<1>1. t \in Transports /\ t.socket \in ConnIds \cup {NoSocket}
  BY DEF Sound, Transports
<1>2. /\ v \in Transports
      /\ v.initializing = t.initializing
      /\ v.handlers = t.handlers
      /\ v.pending = t.pending
      /\ t.socket \in ConnIds => v.readyState[t.socket] \notin LiveStates /\ v.inbox[t.socket] = <<>>
      /\ \A j \in ConnIds \ {t.socket} : v.readyState[j] = t.readyState[j] /\ v.inbox[j] = t.inbox[j]
  BY <1>1, CloseShape DEF Sound
<1>3. u = [v EXCEPT !.session = NoSession,
                    !.reconnectTimer = FALSE,
                    !.socket = NoSocket,
                    !.connectionPromise = NoSocket,
                    !.lastSequence = 0]
  BY DEF Client!dropSession
<1>. HIDE DEF v, u
<1>. 0 \in 0..MaxSequence
  BY ConfigAssumption
<1>4. u \in Transports
  BY <1>2, <1>3 DEF Transports
<1>5. /\ u.session = NoSession /\ u.initializing = t.initializing
      /\ u.handlers = t.handlers /\ u.pending = t.pending
      /\ u.socket = NoSocket /\ u.connectionPromise = NoSocket
      /\ u.lastSequence = 0 /\ u.readyState = v.readyState /\ u.inbox = v.inbox
  BY <1>2, <1>3 DEF Transports
<1>6. \A j \in ConnIds : u.readyState[j] \notin LiveStates /\ u.inbox[j] = <<>>
  <2>. TAKE j \in ConnIds
  <2>1. CASE j = t.socket
    BY <2>1, <1>2, <1>5
  <2>2. CASE j # t.socket
    BY <2>2, <1>2, <1>5 DEF Sound
  <2>. QED
    BY <2>1, <2>2
<1>. QED
  BY <1>4, <1>5, <1>6, TabAssumption DEF Sound, Lives, u

\* adopt: another session starts lastSequence over.
LEMMA AdoptShape ==
    ASSUME NEW t, Sound(t), NEW previous, NEW s \in SessionIds
    PROVE  LET u == Client!adopt(t, previous, s) IN
           /\ Sound(u)
           /\ u.session \in {t.session, s}
           /\ \/ u.session = t.session /\ u.lastSequence = t.lastSequence
              \/ u.lastSequence = 0
           /\ u.intentionalClose = t.intentionalClose
           /\ u.initializing = t.initializing
           /\ u.handlers = t.handlers
           /\ u.socket = t.socket
           /\ u.connectionPromise = t.connectionPromise
           /\ u.readyState = t.readyState
           /\ u.outbox = t.outbox
           /\ u.inbox = t.inbox
<1>. DEFINE u == [t EXCEPT !.session = s,
                   !.lastSequence = IF previous # s THEN 0 ELSE t.lastSequence]
<1>1. t \in Transports
  BY DEF Sound
<1>. (IF previous # s THEN 0 ELSE t.lastSequence) \in 0..MaxSequence
  BY <1>1, ConfigAssumption DEF Transports
<1>2. u \in Transports
  BY <1>1 DEF Transports
<1>3. /\ u.session = s /\ u.lastSequence = (IF previous # s THEN 0 ELSE t.lastSequence)
      /\ u.intentionalClose = t.intentionalClose
      /\ u.initializing = t.initializing /\ u.handlers = t.handlers /\ u.pending = t.pending
      /\ u.socket = t.socket /\ u.connectionPromise = t.connectionPromise
      /\ u.readyState = t.readyState /\ u.outbox = t.outbox /\ u.inbox = t.inbox
  BY <1>1 DEF Transports
<1>. HIDE DEF u
<1>4. Sound(u)
  BY <1>2, <1>3 DEF Sound, Lives
<1>5. CASE t.session # previous
  BY <1>5 DEF Client!adopt
<1>6. CASE t.session = previous
  <2>1. Client!adopt(t, previous, s) = u
    BY <1>6 DEF Client!adopt, u
  <2>. QED
    BY <2>1, <1>3, <1>4, <1>6
<1>. QED
  BY <1>5, <1>6

-----------------------------------------------------------------------------
(***************************************************************************)
(* The steps of the tab, other than the opening of its socket and the      *)
(* arrival of an event.                                                    *)
(***************************************************************************)
\* What such a step does.
Tab(initializes) ==
    /\ Sound(transport')
    /\ \/ ~Lives(transport')
       \/ /\ Told(transport, transport')
          /\ \/ transport'.inbox[transport.socket] = Inbox
             \/ /\ Inbox # <<>>
                /\ Head(Inbox).type # "event"
                /\ transport'.inbox[transport.socket] = Tail(Inbox)
       \/ \E k \in ConnIds : scope[k] = NoSession /\ Created(transport', k)
    /\ transport'.session \in {transport.session, NoSession, cookie}
    /\ transport'.lastSequence \in {transport.lastSequence, 0}
    /\ transport'.session # transport.session /\ ~initializes => transport'.lastSequence = 0

\* In a state of the invariant the transport is sound.
LEMMA SoundState ==
    ASSUME TypeOK, OneSocket, Waits
    PROVE  Sound(transport)
BY DEF TypeOK, TransportTypeOK, OneSocket, Waits, Sound, Lives, Live, LiveStates

\* What a step of the tab comes to, for one that keeps the session.
LEMMA MovedTab ==
    ASSUME NEW k, k \in ConnIds => scope[k] = NoSession,
           Sound(transport'), Moved(transport, transport', k),
           transport'.session = transport.session,
           transport'.lastSequence = transport.lastSequence
    PROVE  Tab(FALSE)
BY DEF Moved, Tab, Created, Inbox

\* A socket the transport may create is not in use on either side.
LEMMA NewSocket ==
    ASSUME NEW k \in NewSockets
    PROVE  /\ Available(transport, k)
           /\ k \in ConnIds => scope[k] = NoSession
BY TabAssumption DEF NewSockets, Available

\* subscribe() is a step of the tab.
LEMMA SubscribeTab ==
    ASSUME TypeOK, OneSocket, Waits, NEW h \in Handlers, NEW k \in NewSockets,
           Client!Subscribe(h, k)
    PROVE  Tab(FALSE)
<1>1. Sound(transport)
  BY SoundState
<1>2. CASE transport' = Client!subscribe(transport, {h}, k)
  <2>1. {h} \in SUBSET Handlers /\ {h} \cap transport.initializing = {}
    BY DEF Client!Subscribe
  <2>2. /\ Sound(transport')
        /\ transport'.session = transport.session
        /\ transport'.lastSequence = transport.lastSequence
        /\ Moved(transport, transport', k)
    BY <1>1, <1>2, <2>1, NewSocket, SubscribeShape
  <2>. QED
    BY <2>2, NewSocket, MovedTab
<1>3. CASE transport' = [transport EXCEPT !.initializing = @ \cup {h}, !.loading = TRUE]
  <2>0. transport \in Transports /\ transport.initializing \in SUBSET Handlers
    BY <1>1 DEF Sound, Transports
  <2>1. transport' \in Transports
    BY <1>3, <2>0 DEF Transports
  <2>2. /\ transport'.session = transport.session
        /\ transport'.initializing = transport.initializing \cup {h}
        /\ transport'.handlers = transport.handlers
        /\ transport'.pending = transport.pending
        /\ transport'.socket = transport.socket
        /\ transport'.connectionPromise = transport.connectionPromise
        /\ transport'.lastSequence = transport.lastSequence
        /\ transport'.readyState = transport.readyState
        /\ transport'.outbox = transport.outbox
        /\ transport'.inbox = transport.inbox
    BY <1>3, <2>0 DEF Transports
  <2>3. h \notin transport.handlers
    BY DEF Client!Subscribe
  <2>4. Sound(transport')
    BY <1>1, <2>1, <2>2, <2>3 DEF Sound, Lives
  <2>5. Lives(transport') => Told(transport, transport')
    BY <2>2 DEF Lives, Told, Client!subscribedEvents
  <2>. QED
    BY <2>2, <2>4, <2>5, NewSocket, MovedTab DEF Moved
<1>. QED
  BY <1>2, <1>3 DEF Client!Subscribe

\* Removing a handler is a step of the tab.
LEMMA UnsubscribeTab ==
    ASSUME TypeOK, OneSocket, Waits, NEW h \in Handlers, Client!Unsubscribe(h)
    PROVE  Tab(FALSE)
<1>1. Sound(transport)
  BY SoundState
<1>2. {h} \in SUBSET Handlers /\ transport' = Client!removeSubscription(transport, {h})
  BY DEF Client!Unsubscribe
<1>3. /\ Sound(transport')
      /\ transport'.session = transport.session
      /\ transport'.lastSequence = transport.lastSequence
      /\ Moved(transport, transport', NoSocket)
  BY <1>1, <1>2, RemoveSubscriptionShape DEF Moved
<1>. QED
  BY <1>3, TabAssumption, MovedTab

\* A step that shows in no socket and no handler.
LEMMA AlikeTab ==
    ASSUME TypeOK, OneSocket, Waits, Alike(transport, transport')
    PROVE  Tab(FALSE)
<1>1. Sound(transport')
  BY SoundState, AlikeSound
<1>2. Moved(transport, transport', NoSocket)
  BY DEF Moved, Alike, Told, Lives, Client!subscribedEvents
<1>. QED
  BY <1>1, <1>2, TabAssumption, MovedTab DEF Alike

\* Starting initialize() is a step of the tab.
LEMMA InitializeTab ==
    ASSUME TypeOK, OneSocket, Waits, Client!Initialize
    PROVE  Tab(FALSE)
<1>1. transport \in Transports
  BY DEF TypeOK, TransportTypeOK
<1>2. transport' \in Transports
  BY <1>1 DEF Client!Initialize, Transports
<1>3. Alike(transport, transport')
  BY <1>1, <1>2 DEF Client!Initialize, Alike, Transports
<1>. QED
  BY <1>3, AlikeTab

\* The reconnect timer's callback is a step of the tab.
LEMMA TimerFiresTab ==
    ASSUME TypeOK, OneSocket, Waits, Client!TimerFires
    PROVE  Tab(FALSE)
<1>1. /\ transport \in Transports
      /\ transport.reconnects \cup {transport.session} \in SUBSET (SessionIds \cup {NoSession})
  BY DEF TypeOK, TransportTypeOK, Transports
<1>2. transport' \in Transports
  BY <1>1 DEF Client!TimerFires, Transports
<1>3. Alike(transport, transport')
  BY <1>1, <1>2 DEF Client!TimerFires, Alike, Transports
<1>. QED
  BY <1>3, AlikeTab

\* A reconnect whose initialize() failed is a step of the tab.
LEMMA ReconnectFailedTab ==
    ASSUME TypeOK, OneSocket, Waits, NEW previous, Client!ReconnectFailed(previous)
    PROVE  Tab(FALSE)
<1>. DEFINE t == [transport EXCEPT !.reconnects = transport.reconnects \ {previous}]
<1>1. transport \in Transports
  BY DEF TypeOK, TransportTypeOK
<1>2. t \in Transports
  BY <1>1 DEF Transports
<1>3. Alike(transport, t)
  BY <1>1, <1>2 DEF Alike, Transports
<1>4. transport' = Client!scheduleReconnect(t)
  BY DEF Client!ReconnectFailed
<1>. HIDE DEF t
<1>5. Alike(t, transport')
  BY <1>2, <1>4, ScheduleReconnectShape
<1>6. Alike(transport, transport')
  BY <1>3, <1>5 DEF Alike
<1>. QED
  BY <1>6, AlikeTab

\* A failed initialize() is a step of the tab.
LEMMA LoadFailedTab ==
    ASSUME TypeOK, OneSocket, Waits, Client!InitializeFailed
    PROVE  Tab(FALSE)
<1>1. transport \in Transports
  BY DEF TypeOK, TransportTypeOK
<1>2. transport' \in Transports
  BY <1>1 DEF Client!InitializeFailed, Transports
<1>3. /\ transport'.session = transport.session
      /\ transport'.initializing = {}
      /\ transport'.handlers = transport.handlers
      /\ transport'.pending = transport.pending
      /\ transport'.socket = transport.socket
      /\ transport'.connectionPromise = transport.connectionPromise
      /\ transport'.lastSequence = transport.lastSequence
      /\ transport'.readyState = transport.readyState
      /\ transport'.outbox = transport.outbox
      /\ transport'.inbox = transport.inbox
  BY <1>1 DEF Client!InitializeFailed, Transports
<1>4. Sound(transport')
  BY <1>2, <1>3, SoundState DEF Sound, Lives
<1>5. Moved(transport, transport', NoSocket)
  BY <1>3 DEF Moved, Told, Lives, Client!subscribedEvents
<1>. QED
  BY <1>3, <1>4, <1>5, TabAssumption, MovedTab

\* initialize() resolves: the only step that brings a session and keeps
\* lastSequence.
LEMMA LoadedTab ==
    ASSUME TypeOK, OneSocket, Waits, cookie # NoSession, NEW k \in NewSockets,
           Client!Initialized(cookie, k)
    PROVE  Tab(TRUE)
<1>. DEFINE t == [transport EXCEPT !.session = cookie, !.loading = FALSE,
                                  !.initializing = {}, !.renewing = FALSE]
            subscribed(u) == IF transport.initializing = {} THEN u
                             ELSE Client!subscribe(u, transport.initializing, k)
            renewed(u) == IF transport.renewing THEN Client!scheduleReconnect(u) ELSE u
<1>1. transport \in Transports /\ transport.initializing \in SUBSET Handlers
  BY DEF TypeOK, TransportTypeOK, Transports
<1>2. cookie \in SessionIds
  BY DEF TypeOK
<1>3. t \in Transports
  BY <1>1, <1>2 DEF Transports
<1>4. /\ t.session = cookie
      /\ t.initializing = {}
      /\ t.handlers = transport.handlers
      /\ t.pending = transport.pending
      /\ t.socket = transport.socket
      /\ t.connectionPromise = transport.connectionPromise
      /\ t.lastSequence = transport.lastSequence
      /\ t.readyState = transport.readyState
      /\ t.outbox = transport.outbox
      /\ t.inbox = transport.inbox
  BY <1>1 DEF Transports
<1>5. transport' \in {renewed(subscribed(t)), subscribed(renewed(t))}
  BY DEF Client!Initialized
<1>. HIDE DEF t
<1>6. Sound(t)
  BY <1>3, <1>4, SoundState DEF Sound, Lives
<1>7. Available(t, k)
  BY <1>4, NewSocket DEF Available, Client!MustConnect, Client!IsOpen
<1>. DEFINE Right(u) == /\ Sound(u)
                        /\ u.session = cookie
                        /\ u.lastSequence = transport.lastSequence
                        /\ Moved(transport, u, k)
<1>8. ASSUME NEW u, Sound(u), Alike(t, u)
      PROVE  /\ Right(u)
             /\ Right(Client!subscribe(u, transport.initializing, k))
  <2>1. /\ u.session = cookie /\ u.initializing = {}
        /\ u.handlers = transport.handlers
        /\ u.socket = transport.socket
        /\ u.connectionPromise = transport.connectionPromise
        /\ u.lastSequence = transport.lastSequence
        /\ u.readyState = transport.readyState
        /\ u.outbox = transport.outbox
        /\ u.inbox = transport.inbox
    BY <1>4, <1>8 DEF Alike
  <2>2. Right(u)
    BY <1>8, <2>1 DEF Moved, Told, Lives, Client!subscribedEvents
  <2>. DEFINE v == Client!subscribe(u, transport.initializing, k)
  <2>3. Available(u, k)
    BY <2>1, NewSocket DEF Available, Client!MustConnect, Client!IsOpen
  <2>4. /\ Sound(v)
        /\ v.session = u.session
        /\ v.lastSequence = u.lastSequence
        /\ Moved(u, v, k)
    BY <1>1, <1>8, <2>1, <2>3, SubscribeShape
  <2>. HIDE DEF v
  <2>5. Moved(transport, v, k)
    BY <2>1, <2>4 DEF Moved, Told, Lives, Client!subscribedEvents
  <2>. QED
    BY <2>1, <2>2, <2>4, <2>5 DEF v
<1>9. ASSUME NEW u, Right(u)
      PROVE  Right(Client!scheduleReconnect(u))
  <2>. DEFINE v == Client!scheduleReconnect(u)
  <2>1. Alike(u, v)
    BY <1>9, ScheduleReconnectShape DEF Sound
  <2>2. Sound(v)
    BY <1>9, <2>1, AlikeSound
  <2>. HIDE DEF v
  <2>3. Moved(transport, v, k)
    BY <1>9, <2>1 DEF Moved, Told, Created, Lives, Alike, Client!subscribedEvents
  <2>. QED
    BY <1>9, <2>1, <2>2, <2>3 DEF Alike, v
<1>10. Alike(t, t) /\ Alike(t, Client!scheduleReconnect(t))
  BY <1>3, ScheduleReconnectShape DEF Alike
<1>11. Sound(Client!scheduleReconnect(t))
  BY <1>6, <1>10, AlikeSound
<1>. HIDE DEF Right
<1>12. Right(subscribed(t)) /\ Right(subscribed(renewed(t)))
  BY <1>6, <1>8, <1>10, <1>11
<1>13. Right(renewed(subscribed(t)))
  BY <1>9, <1>12
<1>14. Right(transport')
  BY <1>5, <1>12, <1>13
<1>. QED
  BY <1>14, NewSocket DEF Right, Moved, Tab, Created, Inbox

\* A reconnect that opens a socket again is a step of the tab.
LEMMA ReconnectTab ==
    ASSUME TypeOK, OneSocket, Waits, cookie # NoSession, NEW previous, NEW k \in NewSockets,
           Client!Reconnect(previous, cookie, k)
    PROVE  Tab(FALSE)
<1>. DEFINE t0 == [transport EXCEPT !.reconnects = transport.reconnects \ {previous}]
            t == Client!adopt(t0, previous, cookie)
            u == Client!ensureConnected(t, k)
            v == [u EXCEPT !.retrying = u.retrying \cup ({u.connectionPromise} \ {NoSocket})]
<1>1. transport \in Transports /\ cookie \in SessionIds
  BY DEF TypeOK, TransportTypeOK
<1>2. t0 \in Transports
  BY <1>1 DEF Transports
<1>3. Alike(transport, t0)
  BY <1>1, <1>2 DEF Alike, Transports
<1>4. transport' = IF t.intentionalClose \/ Client!subscribedEvents(t) = {} THEN t ELSE v
  BY DEF Client!Reconnect
<1>. HIDE DEF t0
<1>5. Sound(t0)
  BY <1>3, SoundState, AlikeSound
<1>6. /\ Sound(t)
      /\ t.session \in {t0.session, cookie}
      /\ \/ t.session = t0.session /\ t.lastSequence = t0.lastSequence
         \/ t.lastSequence = 0
      /\ t.handlers = t0.handlers
      /\ t.socket = t0.socket
      /\ t.connectionPromise = t0.connectionPromise
      /\ t.readyState = t0.readyState
      /\ t.outbox = t0.outbox
      /\ t.inbox = t0.inbox
  BY <1>1, <1>5, AdoptShape
<1>7. /\ t.session \in {transport.session, cookie}
      /\ \/ t.session = transport.session /\ t.lastSequence = transport.lastSequence
         \/ t.lastSequence = 0
      /\ t.handlers = transport.handlers
      /\ t.socket = transport.socket
      /\ t.connectionPromise = transport.connectionPromise
      /\ t.readyState = transport.readyState
      /\ t.outbox = transport.outbox
      /\ t.inbox = transport.inbox
  BY <1>3, <1>6 DEF Alike
<1>. HIDE DEF t
<1>8. Available(t, k)
  BY <1>7, NewSocket DEF Available, Client!MustConnect, Client!IsOpen
<1>9. /\ Sound(u)
      /\ u.session = t.session
      /\ u.handlers = t.handlers
      /\ u.lastSequence = t.lastSequence
      /\ u = t \/ Created(u, k)
  BY <1>6, <1>8, EnsureConnectedShape
<1>. HIDE DEF u
<1>10. /\ u \in Transports
       /\ u.retrying \cup ({u.connectionPromise} \ {NoSocket}) \in SUBSET ConnIds
  BY <1>9 DEF Sound, Transports
<1>11. v \in Transports
  BY <1>10 DEF Transports
<1>12. Alike(u, v)
  BY <1>10, <1>11 DEF Alike, Transports
<1>. HIDE DEF v
<1>13. Sound(v)
  BY <1>9, <1>12, AlikeSound
<1>14. Moved(transport, t, k)
  BY <1>7 DEF Moved, Told, Lives, Client!subscribedEvents
<1>15. Moved(transport, v, k)
  <2>1. CASE u = t
    <3>1. /\ v.handlers = transport.handlers
          /\ v.socket = transport.socket
          /\ v.readyState = transport.readyState
          /\ v.outbox = transport.outbox
          /\ v.inbox = transport.inbox
      BY <2>1, <1>7, <1>12 DEF Alike
    <3>. QED
      BY <3>1 DEF Moved, Told, Lives, Client!subscribedEvents
  <2>2. CASE Created(u, k)
    BY <2>2, <1>12 DEF Moved, Created, Alike
  <2>. QED
    BY <1>9, <2>1, <2>2
<1>16. /\ Sound(transport') /\ Moved(transport, transport', k)
       /\ transport'.session = t.session /\ transport'.lastSequence = t.lastSequence
  BY <1>4, <1>6, <1>9, <1>12, <1>13, <1>14, <1>15 DEF Alike
<1>. QED
  BY <1>7, <1>16, NewSocket DEF Moved, Tab, Created, Inbox

\* A rejected request is a step of the tab.
LEMMA RequestRejectedTab ==
    ASSUME TypeOK, OneSocket, Waits, NEW s, Client!RequestRejected(s)
    PROVE  Tab(FALSE)
<1>. DEFINE t == IF transport.session = s THEN Client!dropSession(transport) ELSE transport
            v == [t EXCEPT !.renewing = TRUE, !.loading = TRUE]
<1>1. Sound(transport)
  BY SoundState
<1>2. transport' = IF t.session # NoSession THEN Client!scheduleReconnect(t) ELSE v
  BY DEF Client!RequestRejected
<1>3. /\ Sound(t)
      /\ \/ t = transport
         \/ t.session = NoSession /\ t.lastSequence = 0 /\ ~Lives(t)
  BY <1>1, DropSessionShape
<1>. HIDE DEF t
<1>4. v \in Transports
  BY <1>3 DEF Sound, Transports
<1>5. Alike(t, v)
  BY <1>3, <1>4 DEF Alike, Sound, Transports
<1>. HIDE DEF v
<1>6. Alike(t, transport')
  BY <1>2, <1>3, <1>5, ScheduleReconnectShape DEF Sound
<1>7. CASE t = transport
  BY <1>6, <1>7, AlikeTab
<1>8. CASE t.session = NoSession /\ t.lastSequence = 0 /\ ~Lives(t)
  <2>1. Sound(transport')
    BY <1>3, <1>6, AlikeSound
  <2>2. ~Lives(transport') /\ transport'.session = NoSession /\ transport'.lastSequence = 0
    BY <1>6, <1>8 DEF Alike, Lives
  <2>. QED
    BY <2>1, <2>2 DEF Tab
<1>. QED
  BY <1>3, <1>7, <1>8

\* A socket's error is a step of the tab.
LEMMA SocketFailsTab ==
    ASSUME TypeOK, OneSocket, Waits, NEW k \in ConnIds, Client!OnError(k)
    PROVE  Tab(FALSE)
<1>1. Sound(transport)
  BY SoundState
<1>2. transport.readyState[k] \notin LiveStates /\ transport' = Client!failBeforeOpen(transport, k, {})
  BY DEF Client!OnError, LiveStates
<1>3. /\ Sound(transport')
      /\ transport'.session = transport.session
      /\ transport'.lastSequence = transport.lastSequence
      /\ Moved(transport, transport', NoSocket)
  BY <1>1, <1>2, FailBeforeOpenShape DEF Sound, Moved
<1>. QED
  BY <1>3, TabAssumption, MovedTab

\* A socket's close event is a step of the tab.
LEMMA SocketClosesTab ==
    ASSUME TypeOK, OneSocket, Waits, NEW k \in ConnIds, Client!OnClose(k)
    PROVE  Tab(FALSE)
<1>. DEFINE r == [transport.readyState EXCEPT ![k] = "closed"]
            t == [transport EXCEPT !.readyState = r]
            w == [t EXCEPT !.socket = NoSocket]
<1>1. Sound(transport) /\ transport \in Transports
  BY SoundState DEF Sound
<1>2. transport.readyState[k] = "closing"
  BY DEF Client!OnClose
<1>3. transport.readyState \in [ConnIds -> ReadyStates]
  BY <1>1 DEF Transports
<1>4. r \in [ConnIds -> ReadyStates] /\ r[k] = "closed" /\ \A j \in ConnIds \ {k} : r[j] = transport.readyState[j]
  BY <1>3 DEF ReadyStates
<1>5. transport' = IF k # t.socket THEN Client!failBeforeOpen(t, k, {})
                   ELSE Client!failBeforeOpen(Client!scheduleReconnect(w), k, t.pending)
  BY <1>1 DEF Client!OnClose, Transports
<1>. HIDE DEF r
<1>6. t \in Transports
  BY <1>1, <1>4 DEF Transports
<1>7. /\ t.session = transport.session /\ t.initializing = transport.initializing
      /\ t.handlers = transport.handlers /\ t.pending = transport.pending
      /\ t.socket = transport.socket /\ t.connectionPromise = transport.connectionPromise
      /\ t.lastSequence = transport.lastSequence
      /\ t.readyState = r
      /\ t.outbox = transport.outbox /\ t.inbox = transport.inbox
  BY <1>1 DEF Transports
<1>. HIDE DEF t
<1>8. /\ \A j \in ConnIds : r[j] \in LiveStates => transport.readyState[j] = r[j] /\ j # k
      /\ \A j \in ConnIds : r[j] \notin LiveStates => transport.readyState[j] \notin LiveStates
      /\ r[k] \notin LiveStates
  BY <1>2, <1>4 DEF LiveStates
<1>9. CASE k # t.socket
  <2>1. /\ Lives(t) <=> Lives(transport)
        /\ Lives(t) => t.readyState[t.socket] = transport.readyState[transport.socket]
    BY <1>7, <1>8, <1>4, <1>9 DEF Lives
  <2>. DEFINE u == Client!failBeforeOpen(t, k, {})
  <2>2. /\ Sound(u)
        /\ u.session = t.session
        /\ u.lastSequence = t.lastSequence
        /\ Lives(u) => Told(t, u) /\ u.inbox[t.socket] = t.inbox[t.socket]
    <3>1. /\ t.initializing \cap t.handlers = {}
          /\ t.pending \subseteq t.handlers
          /\ t.connectionPromise \in {NoSocket, k, t.socket}
          /\ \A j \in ConnIds : t.readyState[j] \in LiveStates => j = t.socket
          /\ Lives(t) /\ t.readyState[t.socket] # "open" => t.connectionPromise = t.socket
          /\ \A j \in ConnIds : t.readyState[j] \notin LiveStates => t.inbox[j] = <<>>
          /\ t.readyState[k] \notin LiveStates
      BY <1>1, <1>7, <1>8, <2>1 DEF Sound
    <3>. QED
      BY <1>6, <3>1, FailBeforeOpenShape
  <2>3. transport' = u
    BY <1>5, <1>9
  <2>. HIDE DEF u
  <2>4. Lives(transport') => Told(transport, transport')
    BY <1>7, <2>1, <2>2, <2>3 DEF Told, Lives, Client!subscribedEvents
  <2>5. Lives(transport') => transport'.inbox[transport.socket] = transport.inbox[transport.socket]
    BY <1>7, <2>2, <2>3
  <2>. QED
    BY <1>7, <2>2, <2>3, <2>4, <2>5, TabAssumption, MovedTab DEF Moved
<1>10. CASE k = t.socket
  <2>1. w \in Transports
    BY <1>6 DEF Transports
  <2>2. /\ w.session = transport.session /\ w.initializing = transport.initializing
        /\ w.handlers = transport.handlers /\ w.pending = transport.pending
        /\ w.socket = NoSocket /\ w.connectionPromise = transport.connectionPromise
        /\ w.lastSequence = transport.lastSequence
        /\ w.readyState = r
        /\ w.outbox = transport.outbox /\ w.inbox = transport.inbox
    BY <1>6, <1>7 DEF Transports
  <2>. HIDE DEF w
  <2>. DEFINE x == Client!scheduleReconnect(w)
  <2>3. Alike(w, x)
    BY <2>1, ScheduleReconnectShape
  <2>. HIDE DEF x
  <2>4. /\ x \in Transports
        /\ x.session = transport.session /\ x.initializing = transport.initializing
        /\ x.handlers = transport.handlers /\ x.pending = transport.pending
        /\ x.socket = NoSocket /\ x.connectionPromise = transport.connectionPromise
        /\ x.lastSequence = transport.lastSequence
        /\ x.readyState = r
        /\ x.inbox = transport.inbox
    BY <2>2, <2>3 DEF Alike
  <2>5. t.pending \in SUBSET Handlers
    BY <1>6 DEF Transports
  <2>6. /\ x.initializing \cap x.handlers = {}
        /\ x.pending \subseteq x.handlers
        /\ x.connectionPromise \in {NoSocket, k, x.socket}
        /\ ~Lives(x)
        /\ \A j \in ConnIds : x.readyState[j] \in LiveStates => j = x.socket
        /\ \A j \in ConnIds : x.readyState[j] \notin LiveStates => x.inbox[j] = <<>>
        /\ x.readyState[k] \notin LiveStates
    BY <1>1, <1>7, <1>8, <1>10, <2>4, TabAssumption DEF Sound, Lives
  <2>. DEFINE u == Client!failBeforeOpen(x, k, t.pending)
  <2>7. /\ Sound(u)
        /\ u.session = x.session
        /\ u.lastSequence = x.lastSequence
        /\ Lives(u) => Told(x, u)
    BY <2>4, <2>5, <2>6, FailBeforeOpenShape
  <2>8. transport' = u
    BY <1>5, <1>10 DEF x
  <2>. HIDE DEF u
  <2>9. ~Lives(transport')
    BY <2>6, <2>7, <2>8 DEF Told
  <2>. QED
    BY <2>4, <2>7, <2>8, <2>9, TabAssumption, MovedTab DEF Moved
<1>. QED
  BY <1>9, <1>10

\* A message other than an event, or the server's close frame, arrives.
LEMMA MessageTab ==
    ASSUME TypeOK, OneSocket, Waits, NEW k \in ConnIds, Client!OnMessage(k),
           Head(transport.inbox[k]).type # "event"
    PROVE  Tab(FALSE)
<1>. DEFINE message == Head(transport.inbox[k])
            i == [transport.inbox EXCEPT ![k] = Tail(transport.inbox[k])]
            t == [transport EXCEPT !.inbox = i]
<1>1. Sound(transport) /\ transport \in Transports
  BY SoundState DEF Sound
<1>2. /\ transport.readyState[k] = "open" /\ transport.inbox[k] # <<>>
      /\ k = transport.socket /\ Lives(transport)
  BY <1>1 DEF Client!OnMessage, Sound, Lives, LiveStates
<1>3. transport.inbox \in [ConnIds -> Seq(Messages)]
  BY <1>1 DEF Transports
<1>4. message \in Messages /\ Tail(transport.inbox[k]) \in Seq(Messages)
  BY <1>2, <1>3
<1>5. /\ i \in [ConnIds -> Seq(Messages)]
      /\ i[k] = Tail(transport.inbox[k])
      /\ \A j \in ConnIds \ {k} : i[j] = transport.inbox[j]
  BY <1>3, <1>4
<1>6. transport' = IF message.type = "close" THEN Client!Lose(transport, k)
                   ELSE Client!handleSocketMessage(t, message)
  BY <1>2 DEF Client!OnMessage
<1>. HIDE DEF i
<1>7. t \in Transports
  BY <1>1, <1>5 DEF Transports
<1>8. /\ t.session = transport.session /\ t.initializing = transport.initializing
      /\ t.handlers = transport.handlers /\ t.pending = transport.pending
      /\ t.socket = transport.socket /\ t.connectionPromise = transport.connectionPromise
      /\ t.lastSequence = transport.lastSequence
      /\ t.readyState = transport.readyState
      /\ t.outbox = transport.outbox /\ t.inbox = i
  BY <1>1 DEF Transports
<1>. HIDE DEF t
<1>9. Sound(t)
  BY <1>1, <1>2, <1>5, <1>7, <1>8 DEF Sound, Lives, LiveStates
<1>10. t.inbox[k] = Tail(Inbox) /\ Inbox # <<>> /\ Head(Inbox).type # "event"
  BY <1>2, <1>5, <1>8 DEF Inbox
<1>11. CASE message.type = "close"
  <2>1. transport' = Client!Lose(transport, k)
    BY <1>6, <1>11
  <2>2. /\ transport' \in Transports
        /\ transport'.session = transport.session
        /\ transport'.handlers = transport.handlers
        /\ transport'.pending = transport.pending
        /\ transport'.initializing = transport.initializing
        /\ transport'.socket = transport.socket
        /\ transport'.connectionPromise = transport.connectionPromise
        /\ transport'.lastSequence = transport.lastSequence
        /\ transport'.readyState = [transport.readyState EXCEPT ![k] = "closing"]
        /\ transport'.inbox = [transport.inbox EXCEPT ![k] = <<>>]
    BY <1>1, <2>1, LoseShape
  <2>3. transport.readyState \in [ConnIds -> ReadyStates]
    BY <1>1 DEF Transports
  <2>4. \A j \in ConnIds : transport'.readyState[j] \notin LiveStates /\ transport'.inbox[j] = <<>>
    BY <1>1, <1>2, <1>3, <2>2, <2>3 DEF Sound, LiveStates
  <2>. QED
    BY <1>1, <2>2, <2>4 DEF Sound, Lives, Tab
<1>12. CASE message.type = "error"
  <2>1. transport' = Client!removeSubscription(t, t.pending)
    BY <1>6, <1>12 DEF Client!handleSocketMessage
  <2>2. t.pending \in SUBSET Handlers
    BY <1>7 DEF Transports
  <2>3. /\ Sound(transport')
        /\ transport'.session = t.session
        /\ transport'.lastSequence = t.lastSequence
        /\ Lives(transport') => Told(t, transport') /\ transport'.inbox[t.socket] = t.inbox[t.socket]
    BY <1>9, <2>1, <2>2, RemoveSubscriptionShape
  <2>4. Lives(transport') => Told(transport, transport')
    BY <1>8, <2>3 DEF Told, Lives, Client!subscribedEvents
  <2>. QED
    BY <1>2, <1>8, <1>10, <2>3, <2>4 DEF Tab
<1>13. CASE message.type = "subscribed"
  <2>. DEFINE p == {h \in t.pending : EventOf[h] \notin message.events}
  <2>1. transport' = [t EXCEPT !.pending = p]
    BY <1>6, <1>13 DEF Client!handleSocketMessage, Client!acknowledge
  <2>2. p \in SUBSET Handlers /\ p \subseteq t.pending
    BY <1>7 DEF Transports
  <2>. HIDE DEF p
  <2>3. transport' \in Transports
    BY <1>7, <2>1, <2>2 DEF Transports
  <2>4. /\ transport'.session = transport.session /\ transport'.initializing = transport.initializing
        /\ transport'.handlers = transport.handlers /\ transport'.pending = p
        /\ transport'.socket = transport.socket /\ transport'.connectionPromise = transport.connectionPromise
        /\ transport'.lastSequence = transport.lastSequence
        /\ transport'.readyState = transport.readyState
        /\ transport'.outbox = transport.outbox /\ transport'.inbox = t.inbox
    BY <1>7, <1>8, <2>1 DEF Transports
  <2>5. Sound(transport')
    BY <1>8, <1>9, <2>2, <2>3, <2>4 DEF Sound, Lives
  <2>6. Told(transport, transport')
    BY <1>2, <2>4 DEF Told, Lives, Client!subscribedEvents
  <2>. QED
    BY <1>2, <1>10, <2>4, <2>5, <2>6 DEF Tab
<1>14. CASE message.type = "unsubscribed"
  <2>1. transport' = t
    BY <1>6, <1>14 DEF Client!handleSocketMessage
  <2>2. Told(transport, transport')
    BY <1>2, <1>8, <2>1 DEF Told, Lives, Client!subscribedEvents
  <2>. QED
    BY <1>2, <1>8, <1>9, <1>10, <2>1, <2>2 DEF Tab
<1>. QED
  BY <1>4, <1>11, <1>12, <1>13, <1>14, MessageTyped

-----------------------------------------------------------------------------
(***************************************************************************)
(* Sequences of messages.                                                  *)
(***************************************************************************)
\* The events of q are those of p, d places on.
Shifted(p, q, d) ==
    /\ \A i \in EventsIn(q) : i + d \in EventsIn(p) /\ q[i] = p[i + d]
    /\ \A j \in EventsIn(p) : j - d \in EventsIn(q)

\* A queue that does not change is shifted by nothing.
LEMMA NotShifted ==
    ASSUME NEW q \in Seq(Messages)
    PROVE  Shifted(q, q, 0)
BY DEF Shifted, EventsIn

\* Taking a message that is no event shifts the events of a queue by one.
LEMMA TailShifted ==
    ASSUME NEW q \in Seq(Messages), q # <<>>, Head(q).type # "event"
    PROVE  Shifted(q, Tail(q), 1)
<1>1. /\ Len(q) \in Nat \ {0} /\ Len(Tail(q)) = Len(q) - 1
      /\ DOMAIN q = 1..Len(q) /\ DOMAIN Tail(q) = 1..(Len(q) - 1)
      /\ \A i \in 1..(Len(q) - 1) : Tail(q)[i] = q[i + 1]
      /\ Head(q) = q[1]
  OBVIOUS
<1>2. \A i \in EventsIn(Tail(q)) : i + 1 \in EventsIn(q) /\ Tail(q)[i] = q[i + 1]
  BY <1>1 DEF EventsIn
<1>3. \A j \in EventsIn(q) : j - 1 \in EventsIn(Tail(q))
  <2>. TAKE j \in EventsIn(q)
  <2>1. j \in 1..Len(q) /\ j # 1 /\ q[j].type = "event"
    BY <1>1 DEF EventsIn
  <2>2. j - 1 \in 1..(Len(q) - 1) /\ Tail(q)[j - 1] = q[j - 1 + 1] /\ j - 1 + 1 = j
    BY <1>1, <2>1
  <2>. QED
    BY <1>1, <2>1, <2>2 DEF EventsIn
<1>. QED
  BY <1>2, <1>3 DEF Shifted

\* Appending a message that is no event shifts no event of a queue.
LEMMA SnocShifted ==
    ASSUME NEW q \in Seq(Messages), NEW m \in Messages, m.type # "event"
    PROVE  q \o <<m>> \in Seq(Messages) /\ Shifted(q, q \o <<m>>, 0)
<1>1. /\ q \o <<m>> \in Seq(Messages)
      /\ Len(q \o <<m>>) = Len(q) + 1
      /\ DOMAIN q = 1..Len(q) /\ DOMAIN (q \o <<m>>) = 1..(Len(q) + 1)
      /\ \A i \in 1..Len(q) : (q \o <<m>>)[i] = q[i]
      /\ (q \o <<m>>)[Len(q) + 1] = m
      /\ Len(q) \in Nat
  OBVIOUS
<1>. QED
  BY <1>1 DEF Shifted, EventsIn

\* Appending a control message: the positions of the longer queue.
LEMMA AppendIndices ==
    ASSUME NEW o \in Seq(Controls), NEW m \in Controls
    PROVE  /\ Append(o, m) \in Seq(Controls)
           /\ Len(o) \in Nat /\ DOMAIN o = 1..Len(o)
           /\ DOMAIN Append(o, m) = 1..(Len(o) + 1)
           /\ \A i \in 1..Len(o) : Append(o, m)[i] = o[i]
           /\ Append(o, m)[Len(o) + 1] = m
OBVIOUS

\* Taking the first control message: the positions of the shorter queue.
LEMMA TailIndices ==
    ASSUME NEW o \in Seq(Controls), o # <<>>
    PROVE  /\ Tail(o) \in Seq(Controls)
           /\ Head(o) = o[1] /\ 1 \in DOMAIN o
           /\ Len(o) \in Nat \ {0} /\ DOMAIN o = 1..Len(o)
           /\ DOMAIN Tail(o) = 1..(Len(o) - 1)
           /\ \A i \in 1..(Len(o) - 1) : Tail(o)[i] = o[i + 1]
OBVIOUS
-----------------------------------------------------------------------------
(***************************************************************************)
(* The steps of the tab keep the invariant.                                *)
(***************************************************************************)
\* What is left of the bus, of the server and of the delivered events.
TabFrame == UNCHANGED <<busVars, serverVars, losses, sent, delivered>> /\ requests' \in SUBSET requests

\* A step that leaves the bus alone keeps the bus's invariant.
LEMMA BusStutters ==
    ASSUME BusInv, UNCHANGED busVars
    PROVE  BusInv'
BY DEF BusInv, BusTypeOK, Owned, Published, Lengths, InOrder, NothingSkipped, Isolated, Connected,
       HoldsAllSubscribed, busVars, sessionVars, connVars, auxVars

\* A socket that lives after such a step lived before, or was just made.
TabLasts ==
    /\ Live
    /\ transport'.socket = transport.socket
    /\ transport'.readyState[transport.socket] = transport.readyState[transport.socket]
    /\ \E d \in {0, 1} : Shifted(Inbox, Inbox', d)
    /\ Inbox = <<>> => Inbox' = <<>>
    /\ Told(transport, transport')

TabCreates ==
    /\ transport'.socket \in ConnIds
    /\ scope[transport'.socket] = NoSession
    /\ queue[transport'.socket] = <<>>
    /\ subscriptions[transport'.socket] = {}
    /\ transport'.readyState[transport'.socket] = "connecting"
    /\ Inbox' = <<>>
    /\ Outbox' = <<>>

\* After a step of the tab the live socket is the one it had or a new, empty one.
LEMMA TabSocket ==
    ASSUME TypeOK, Fresh, NEW initializes, Tab(initializes), Live'
    PROVE  TabLasts \/ TabCreates
<1>1. Lives(transport')
  BY DEF Live, Lives
<1>2. CASE /\ Told(transport, transport')
           /\ \/ transport'.inbox[transport.socket] = Inbox
              \/ /\ Inbox # <<>>
                 /\ Head(Inbox).type # "event"
                 /\ transport'.inbox[transport.socket] = Tail(Inbox)
  <2>1. Live /\ transport'.socket = transport.socket
        /\ transport'.readyState[transport.socket] = transport.readyState[transport.socket]
    BY <1>2 DEF Told, Lives, Live
  <2>2. CASE transport'.inbox[transport.socket] = Inbox
    <3>1. Inbox \in Seq(Messages)
      BY <2>1 DEF TypeOK, TransportTypeOK, Transports, Inbox, Live
    <3>2. Inbox' = Inbox
      BY <2>1, <2>2 DEF Inbox
    <3>3. Shifted(Inbox, Inbox', 0)
      BY <3>1, <3>2, NotShifted
    <3>. QED
      BY <1>2, <2>1, <3>2, <3>3 DEF TabLasts
  <2>3. CASE /\ Inbox # <<>>
             /\ Head(Inbox).type # "event"
             /\ transport'.inbox[transport.socket] = Tail(Inbox)
    <3>1. Inbox \in Seq(Messages)
      BY <2>1 DEF TypeOK, TransportTypeOK, Transports, Inbox, Live
    <3>2. Inbox' = Tail(Inbox)
      BY <2>1, <2>3 DEF Inbox
    <3>3. Shifted(Inbox, Inbox', 1)
      BY <2>3, <3>1, <3>2, TailShifted
    <3>. QED
      BY <1>2, <2>1, <2>3, <3>3 DEF TabLasts
  <2>. QED
    BY <1>2, <2>2, <2>3
<1>3. CASE \E k \in ConnIds : scope[k] = NoSession /\ Created(transport', k)
  <2>1. PICK k \in ConnIds : scope[k] = NoSession /\ Created(transport', k)
    BY <1>3
  <2>2. queue[k] = <<>> /\ subscriptions[k] = {}
    BY <2>1 DEF Fresh
  <2>. QED
    BY <2>1, <2>2 DEF TabCreates, Created, Inbox, Outbox
<1>. QED
  BY <1>1, <1>2, <1>3 DEF Tab

\* What Told makes of the messages that the server has yet to read.
LEMMA ToldOutbox ==
    ASSUME TypeOK, TabLasts
    PROVE  /\ Outbox \in Seq(Controls)
           /\ Outbox' \in Seq(Controls)
           /\ Len(Outbox) \in Nat
           /\ DOMAIN Outbox = 1..Len(Outbox)
           /\ \A i \in DOMAIN Outbox : i \in DOMAIN Outbox' /\ Outbox'[i] = Outbox[i]
           /\ \A i \in DOMAIN Outbox' \ DOMAIN Outbox :
                /\ i = Len(Outbox) + 1
                /\ transport.readyState[transport.socket] = "open"
                /\ ~AsksReplay(Outbox'[i])
                /\ Outbox'[i].type \in {"subscribe", "unsubscribe"}
                /\ Outbox'[i].events \subseteq Client!EventsOf(Handlers)
                /\ Outbox'[i].type = "subscribe" =>
                     Client!subscribedEvents(transport') =
                        Client!subscribedEvents(transport) \cup Outbox'[i].events
                /\ Outbox'[i].type = "unsubscribe" =>
                     Client!subscribedEvents(transport') =
                        Client!subscribedEvents(transport) \ Outbox'[i].events
           /\ transport.readyState[transport.socket] = "open" /\ DOMAIN Outbox' = DOMAIN Outbox =>
                Client!subscribedEvents(transport') = Client!subscribedEvents(transport)
<1>1. /\ Live /\ transport'.socket = transport.socket
      /\ Told(transport, transport')
  BY DEF TabLasts
<1>2. Outbox \in Seq(Controls)
  BY <1>1 DEF TypeOK, TransportTypeOK, Transports, Outbox, Live
<1>3. Outbox' = transport'.outbox[transport.socket]
  BY <1>1 DEF Outbox
<1>4. Client!EventsOf(Handlers) \in SUBSET Events
  BY TabAssumption DEF Client!EventsOf
<1>5. CASE /\ Outbox' = Outbox
           /\ transport.readyState[transport.socket] = "open" =>
                Client!subscribedEvents(transport') = Client!subscribedEvents(transport)
  BY <1>2, <1>5
<1>6. ASSUME transport.readyState[transport.socket] = "open",
             NEW E \in SUBSET Client!EventsOf(Handlers), NEW m \in Controls,
             Outbox' = Append(Outbox, m), m.events = E,
             \/ /\ m.type = "subscribe" /\ m.since = 0
                /\ Client!subscribedEvents(transport') = Client!subscribedEvents(transport) \cup E
             \/ /\ m.type = "unsubscribe"
                /\ Client!subscribedEvents(transport') = Client!subscribedEvents(transport) \ E
      PROVE  /\ Outbox' \in Seq(Controls)
             /\ \A i \in DOMAIN Outbox : i \in DOMAIN Outbox' /\ Outbox'[i] = Outbox[i]
             /\ \A i \in DOMAIN Outbox' \ DOMAIN Outbox : i = Len(Outbox) + 1 /\ Outbox'[i] = m
             /\ DOMAIN Outbox' # DOMAIN Outbox
             /\ ~AsksReplay(m)
  BY <1>2, <1>6, AppendIndices DEF AsksReplay
<1>7. CASE /\ transport.readyState[transport.socket] = "open"
           /\ \E E \in SUBSET Client!EventsOf(Handlers) :
              \/ /\ Outbox' = Append(Outbox, Client!SubscribeMessage(E, 0))
                 /\ Client!subscribedEvents(transport') = Client!subscribedEvents(transport) \cup E
              \/ /\ Outbox' = Append(Outbox, Client!UnsubscribeMessage(E))
                 /\ Client!subscribedEvents(transport') = Client!subscribedEvents(transport) \ E
  <2>1. PICK E \in SUBSET Client!EventsOf(Handlers) :
              \/ /\ Outbox' = Append(Outbox, Client!SubscribeMessage(E, 0))
                 /\ Client!subscribedEvents(transport') = Client!subscribedEvents(transport) \cup E
              \/ /\ Outbox' = Append(Outbox, Client!UnsubscribeMessage(E))
                 /\ Client!subscribedEvents(transport') = Client!subscribedEvents(transport) \ E
    BY <1>7
  <2>2. E \in SUBSET Events /\ 0 \in 0..MaxSequence
    BY <1>4, ConfigAssumption
  <2>3. PICK m \in Controls :
          /\ Outbox' = Append(Outbox, m) /\ m.events = E
          /\ \/ /\ m.type = "subscribe" /\ m.since = 0
                /\ Client!subscribedEvents(transport') = Client!subscribedEvents(transport) \cup E
             \/ /\ m.type = "unsubscribe"
                /\ Client!subscribedEvents(transport') = Client!subscribedEvents(transport) \ E
    BY <2>1, <2>2, SubscribeTyped, UnsubscribeTyped
  <2>4. /\ Outbox' \in Seq(Controls)
        /\ \A i \in DOMAIN Outbox : i \in DOMAIN Outbox' /\ Outbox'[i] = Outbox[i]
        /\ \A i \in DOMAIN Outbox' \ DOMAIN Outbox : i = Len(Outbox) + 1 /\ Outbox'[i] = m
        /\ DOMAIN Outbox' # DOMAIN Outbox
        /\ ~AsksReplay(m)
    BY <1>6, <1>7, <2>3
  <2>. QED
    BY <1>2, <1>7, <2>3, <2>4
<1>. QED
  BY <1>1, <1>3, <1>5, <1>7 DEF Told, Outbox

\* A step of the tab keeps the types and the bus's invariant.
LEMMA TabTypeOK ==
    ASSUME DeliveryInv, NEW initializes, Tab(initializes), Account(initializes), TabFrame
    PROVE  TypeOK' /\ BusInv' /\ OneSocket' /\ Waits' /\ KnownSessions'
<1>1. BusInv'
  BY BusStutters DEF DeliveryInv, TabFrame
<1>2. Sound(transport')
  BY DEF Tab
<1>3. TransportTypeOK' /\ OneSocket' /\ Waits'
  BY <1>2 DEF Sound, Lives, TransportTypeOK, OneSocket, Waits, Live, LiveStates
<1>4. owed' \subseteq owed /\ carried' \in BOOLEAN
  BY DEF Account, StillOwed
<1>5. TypeOK'
  BY <1>1, <1>3, <1>4 DEF DeliveryInv, TypeOK, BusInv, TabFrame, serverVars
<1>6. KnownSessions'
  <2>1. cookie \in issued \cup {NoSession} /\ issued' = issued
    BY DEF DeliveryInv, TypeOK, TabFrame, serverVars
  <2>2. transport'.session \in issued \cup {NoSession}
    BY <2>1 DEF Tab, DeliveryInv, KnownSessions
  <2>. QED
    BY <1>4, <2>1, <2>2 DEF DeliveryInv, KnownSessions, TabFrame, busVars, sessionVars, connVars
<1>. QED
  BY <1>1, <1>3, <1>5, <1>6

\* A step of the tab keeps every socket's registration in order.
LEMMA TabFresh ==
    ASSUME DeliveryInv, NEW initializes, Tab(initializes), TabFrame
    PROVE  CurrentScope' /\ Fresh'
<1>1. TypeOK /\ Fresh /\ CurrentScope
  BY DEF DeliveryInv
<1>2. UNCHANGED <<cookie, sessions, scope, queue, subscriptions>>
  BY DEF TabFrame, busVars, sessionVars, connVars, serverVars
<1>3. CASE ~Live'
  BY <1>1, <1>2, <1>3 DEF CurrentScope, Fresh
<1>4. CASE TabLasts
  <2>1. /\ Live
        /\ transport'.socket = transport.socket
        /\ transport'.readyState[transport.socket] = transport.readyState[transport.socket]
    BY <1>4 DEF TabLasts
  <2>2. PICK d \in {0, 1} : Shifted(Inbox, Inbox', d)
    BY <1>4 DEF TabLasts
  <2>3. CurrentScope'
    BY <1>1, <1>2, <2>1 DEF CurrentScope
  <2>4. CASE transport.readyState[transport.socket] \in {"connecting", "upgraded"}
    <3>1. Outbox = <<>> /\ EventsIn(Inbox) = {}
      BY <1>1, <2>1, <2>4 DEF Fresh, EventsIn
    <3>2. Outbox' = <<>>
      <4>1. Outbox' = Outbox
        BY <1>4, <2>1, <2>4 DEF TabLasts, Told, Outbox
      <4>. QED
        BY <3>1, <4>1
    <3>3. EventsIn(Inbox') = {}
      BY <2>2, <3>1 DEF Shifted
    <3>4. CASE transport.readyState[transport.socket] = "upgraded"
      BY <1>1, <1>2, <2>1, <2>3, <3>2, <3>3, <3>4 DEF Fresh, Queued, EventsIn
    <3>5. CASE transport.readyState[transport.socket] = "connecting"
      <4>1. Inbox = <<>> /\ scope[transport.socket] = NoSession
        BY <1>1, <2>1, <3>5 DEF Fresh
      <4>2. Inbox' = <<>>
        BY <1>4, <4>1 DEF TabLasts
      <4>. QED
        BY <1>1, <1>2, <2>1, <2>3, <3>2, <3>5, <4>1, <4>2 DEF Fresh
    <3>. QED
      BY <2>3, <2>4, <3>4, <3>5
  <2>5. CASE transport.readyState[transport.socket] \notin {"connecting", "upgraded"}
    BY <1>1, <1>2, <2>1, <2>3, <2>5 DEF Fresh
  <2>. QED
    BY <2>3, <2>4, <2>5
<1>5. CASE TabCreates
  BY <1>1, <1>2, <1>5 DEF TabCreates, CurrentScope, Fresh
<1>. QED
  BY <1>1, <1>3, <1>4, <1>5, TabSocket

\* A step of the tab keeps the replay ahead of what is queued live.
LEMMA TabReplayFirst ==
    ASSUME DeliveryInv, NEW initializes, Tab(initializes), TabFrame
    PROVE  ReplayFirst'
<1>1. TypeOK /\ Fresh /\ ReplayFirst
  BY DEF DeliveryInv
<1>2. UNCHANGED <<queue, subscriptions>>
  BY DEF TabFrame, busVars, connVars
<1>3. transport'.lastSequence \in {transport.lastSequence, 0}
  BY DEF Tab
<1>. SUFFICES ASSUME Live', NEW i \in DOMAIN Outbox'
              PROVE  /\ Outbox'[i].type # "close" => Outbox'[i].events \subseteq {EventOf[h] : h \in Handlers}
                     /\ AsksReplay(Outbox'[i]) =>
                          /\ i = 1
                          /\ transport'.lastSequence \in {0, Outbox'[i].since}
                          /\ EventsIn(Inbox') = {}
                          /\ Queued' = <<>> /\ subscriptions'[transport'.socket] = {}
  BY DEF ReplayFirst, AsksReplay, EventsIn
<1>4. CASE TabCreates
  BY <1>4 DEF TabCreates
<1>5. CASE TabLasts
  <2>1. Live /\ transport'.socket = transport.socket
    BY <1>5 DEF TabLasts
  <2>2. PICK d \in {0, 1} : Shifted(Inbox, Inbox', d)
    BY <1>5 DEF TabLasts
  <2>3. CASE i \in DOMAIN Outbox
    <3>1. Outbox'[i] = Outbox[i]
      BY <1>1, <1>5, <2>3, ToldOutbox
    <3>2. /\ Outbox[i].type # "close" => Outbox[i].events \subseteq {EventOf[h] : h \in Handlers}
          /\ AsksReplay(Outbox[i]) =>
                          /\ i = 1
                          /\ transport.lastSequence \in {0, Outbox[i].since}
                          /\ EventsIn(Inbox) = {}
                          /\ Queued = <<>> /\ subscriptions[transport.socket] = {}
      BY <1>1, <2>1, <2>3 DEF ReplayFirst
    <3>3. Queued' = Queued /\ subscriptions'[transport'.socket] = subscriptions[transport.socket]
      BY <1>2, <2>1 DEF Queued
    <3>4. EventsIn(Inbox) = {} => EventsIn(Inbox') = {}
      BY <2>2 DEF Shifted
    <3>. QED
      BY <1>3, <3>1, <3>2, <3>3, <3>4
  <2>4. CASE i \notin DOMAIN Outbox
    <3>1. ~AsksReplay(Outbox'[i]) /\ Outbox'[i].events \subseteq Client!EventsOf(Handlers)
      BY <1>1, <1>5, <2>4, ToldOutbox
    <3>. QED
      BY <3>1 DEF Client!EventsOf
  <2>. QED
    BY <2>3, <2>4
<1>. QED
  BY <1>1, <1>4, <1>5, TabSocket

\* A step of the tab keeps the stream from queue to inbox in order.
LEMMA TabStream ==
    ASSUME DeliveryInv, NEW initializes, Tab(initializes), TabFrame
    PROVE  Stream'
<1>1. TypeOK /\ Fresh /\ Stream
  BY DEF DeliveryInv
<1>2. queue' = queue /\ next_sequence' = next_sequence
  BY DEF TabFrame, busVars, connVars
<1>. SUFFICES ASSUME Live'
              PROVE  /\ \A i, j \in EventsIn(Inbox') :
                          i < j => Inbox'[i].envelope.sequence < Inbox'[j].envelope.sequence
                     /\ \A i \in EventsIn(Inbox') :
                          /\ Inbox'[i].envelope.sequence <= next_sequence
                          /\ \A j \in DOMAIN Queued' : Inbox'[i].envelope.sequence < Queued'[j].sequence
  BY <1>2 DEF Stream, EventsIn
<1>3. CASE TabCreates
  BY <1>3 DEF TabCreates, EventsIn
<1>4. CASE TabLasts
  <2>1. Live /\ transport'.socket = transport.socket /\ Queued' = Queued
    BY <1>2, <1>4 DEF TabLasts, Queued
  <2>2. PICK d \in {0, 1} : Shifted(Inbox, Inbox', d)
    BY <1>4 DEF TabLasts
  <2>3. \A i \in EventsIn(Inbox') : i \in Int /\ i + d \in EventsIn(Inbox) /\ Inbox'[i] = Inbox[i + d]
    <3>1. Inbox' \in Seq(Messages)
      BY TabTypeOK DEF Tab, Sound, Transports, Inbox, Live
    <3>. QED
      BY <2>2, <3>1 DEF Shifted, EventsIn
  <2>4. \A i, j \in EventsIn(Inbox') : i < j => i + d < j + d
    BY <2>3
  <2>. QED
    BY <1>1, <2>1, <2>3, <2>4 DEF Stream
<1>. QED
  BY <1>1, <1>3, <1>4, TabSocket

\* What comes after n still does.
LEMMA TabAbove ==
    ASSUME DeliveryInv, NEW initializes, Tab(initializes), TabFrame, NEW n, Above(n)
    PROVE  Live' => /\ \A i \in EventsIn(Inbox') : Inbox'[i].envelope.sequence > n
                    /\ \A j \in DOMAIN Queued' : Queued'[j].sequence > n
                    /\ \A i \in DOMAIN Outbox' : AsksReplay(Outbox'[i]) => Outbox'[i].since >= n
<1>1. TypeOK /\ Fresh
  BY DEF DeliveryInv
<1>2. queue' = queue
  BY DEF TabFrame, busVars, connVars
<1>. SUFFICES ASSUME Live'
              PROVE /\ \A i \in EventsIn(Inbox') : Inbox'[i].envelope.sequence > n
                    /\ \A j \in DOMAIN Queued' : Queued'[j].sequence > n
                    /\ \A i \in DOMAIN Outbox' : AsksReplay(Outbox'[i]) => Outbox'[i].since >= n
  OBVIOUS
<1>3. CASE TabCreates
  BY <1>2, <1>3 DEF TabCreates, EventsIn, Queued
<1>4. CASE TabLasts
  <2>1. Live /\ transport'.socket = transport.socket /\ Queued' = Queued
    BY <1>2, <1>4 DEF TabLasts, Queued
  <2>2. PICK d \in {0, 1} : Shifted(Inbox, Inbox', d)
    BY <1>4 DEF TabLasts
  <2>3. \A i \in EventsIn(Inbox') : Inbox'[i].envelope.sequence > n
    BY <2>1, <2>2 DEF Shifted, Above
  <2>4. \A i \in DOMAIN Outbox' : AsksReplay(Outbox'[i]) => i \in DOMAIN Outbox /\ Outbox'[i] = Outbox[i]
    BY <1>1, <1>4, ToldOutbox
  <2>. QED
    BY <2>1, <2>3, <2>4 DEF Above
<1>. QED
  BY <1>1, <1>3, <1>4, TabSocket

\* A step of the tab delivers nothing, so keeps what was delivered in order.
LEMMA TabDelivered ==
    ASSUME DeliveryInv, NEW initializes, Tab(initializes), TabFrame
    PROVE  InOrderOnce' /\ DeliveredBefore'
<1>1. UNCHANGED <<delivered, restarts, next_sequence>>
  BY DEF TabFrame, busVars, serverVars
<1>2. InOrderOnce'
  BY <1>1 DEF DeliveryInv, InOrderOnce
<1>3. transport'.lastSequence \in {transport.lastSequence, 0}
  BY DEF Tab
<1>4. ASSUME NEW i \in DOMAIN delivered
      PROVE  /\ delivered[i][1] <= restarts
             /\ delivered[i][1] = restarts =>
                  /\ delivered[i][2] <= next_sequence
                  /\ transport'.lastSequence = 0 \/ delivered[i][2] <= transport'.lastSequence
                  /\ Live' => /\ \A j \in EventsIn(Inbox') : Inbox'[j].envelope.sequence > delivered[i][2]
                              /\ \A j \in DOMAIN Queued' : Queued'[j].sequence > delivered[i][2]
                              /\ \A j \in DOMAIN Outbox' : AsksReplay(Outbox'[j]) => Outbox'[j].since >= delivered[i][2]
  <2>1. PICK n : n = delivered[i][2]
    OBVIOUS
  <2>2. delivered[i][1] = restarts => Above(n)
    BY <2>1 DEF DeliveryInv, DeliveredBefore
  <2>. QED
    BY <1>3, <2>1, <2>2, TabAbove DEF DeliveryInv, DeliveredBefore
<1>5. DeliveredBefore'
  BY <1>1, <1>4 DEF DeliveredBefore, Above, EventsIn, AsksReplay
<1>. QED
  BY <1>2, <1>5

\* Every event comes after 0.
LEMMA AboveZero ==
    ASSUME TypeOK
    PROVE  Above(0)
<1>. SUFFICES ASSUME Live PROVE Above(0)
  BY DEF Above
<1>1. /\ Inbox \in Seq(Messages) /\ Outbox \in Seq(Controls) /\ Queued \in Seq(Envelope)
  BY DEF TypeOK, BusTypeOK, TransportTypeOK, Transports, Live, Inbox, Outbox, Queued
<1>2. \A i \in EventsIn(Inbox) : Inbox[i].envelope.sequence > 0
  <2>. TAKE i \in EventsIn(Inbox)
  <2>1. Inbox[i] \in Messages /\ Inbox[i].type = "event"
    BY <1>1 DEF EventsIn
  <2>2. Inbox[i].envelope \in Envelope
    BY <2>1, MessageTyped
  <2>. QED
    BY <2>2 DEF Envelope
<1>3. \A j \in DOMAIN Queued : Queued[j].sequence > 0
  <2>. TAKE j \in DOMAIN Queued
  <2>1. Queued[j] \in Envelope
    BY <1>1
  <2>. QED
    BY <2>1 DEF Envelope
<1>4. \A i \in DOMAIN Outbox : AsksReplay(Outbox[i]) => Outbox[i].since >= 0
  <2>. TAKE i \in DOMAIN Outbox
  <2>1. Outbox[i] \in Controls
    BY <1>1
  <2>. QED
    BY <2>1, ControlTyped DEF AsksReplay
<1>. QED
  BY <1>2, <1>3, <1>4 DEF Above

\* A step of the tab keeps lastSequence a number of the tab's session.
LEMMA TabLastSequence ==
    ASSUME DeliveryInv, NEW initializes \in BOOLEAN, Tab(initializes), Account(initializes), TabFrame
    PROVE  LastSequenceInSession'
<1>1. UNCHANGED <<cookie, scope, next_sequence>>
  BY DEF TabFrame, busVars, connVars, serverVars
<1>. SUFFICES ASSUME ~carried', transport'.session # NoSession,
                     transport'.session = cookie \/ \E k \in ConnIds : scope[k] = transport'.session
              PROVE  /\ transport'.lastSequence <= next_sequence
                     /\ Live' => /\ \A j \in EventsIn(Inbox') : Inbox'[j].envelope.sequence > transport'.lastSequence
                                 /\ \A j \in DOMAIN Queued' : Queued'[j].sequence > transport'.lastSequence
                                 /\ \A j \in DOMAIN Outbox' : AsksReplay(Outbox'[j]) =>
                                        Outbox'[j].since >= transport'.lastSequence
  BY <1>1 DEF LastSequenceInSession, Above, EventsIn, AsksReplay
<1>2. PICK n : n = transport'.lastSequence
  OBVIOUS
<1>3. n \in 0..MaxSequence
  BY <1>2 DEF Tab, Sound, Transports
<1>4. CASE n = 0
  <2>1. Above(0)
    BY AboveZero DEF DeliveryInv
  <2>. QED
    BY <1>2, <1>4, <2>1, TabAbove DEF DeliveryInv, TypeOK, BusTypeOK
<1>5. CASE n # 0
  <2>1. n = transport.lastSequence
    BY <1>2, <1>5 DEF Tab
  <2>2. ~carried /\ ~initializes
    <3>1. transport'.lastSequence > 0
      BY <1>2, <1>3, <1>5
    <3>2. carried' = ((carried \/ initializes) /\ transport'.lastSequence > 0)
      BY DEF Account
    <3>. QED
      BY <3>1, <3>2, Zenon
  <2>3. transport'.session = transport.session
    BY <1>2, <1>5, <2>2 DEF Tab
  <2>4. n <= next_sequence /\ Above(n)
    BY <1>1, <2>1, <2>2, <2>3 DEF DeliveryInv, LastSequenceInSession
  <2>. QED
    BY <1>2, <2>4, TabAbove
<1>. QED
  BY <1>4, <1>5

\* A step of the tab keeps every subscription served or on its way.
LEMMA TabServes ==
    ASSUME DeliveryInv, NEW initializes, Tab(initializes), TabFrame
    PROVE  ServesSubscribed'
<1>1. TypeOK /\ Fresh
  BY DEF DeliveryInv
<1>2. UNCHANGED <<scope, connections, subscriptions>>
  BY DEF TabFrame, busVars, connVars, sessionVars
<1>. SUFFICES ASSUME Client!IsOpen(transport'),
                     scope[transport'.socket] # NoSession,
                     transport'.socket \in connections[scope[transport'.socket]],
                     NEW e \in Client!subscribedEvents(transport')
              PROVE  /\ \A i \in DOMAIN Outbox' :
                          About(Outbox'[i], e) /\ Outbox'[i].type = "unsubscribe" =>
                              \E j \in DOMAIN Outbox' :
                                j > i /\ About(Outbox'[j], e) /\ Outbox'[j].type = "subscribe"
                     /\ (\A i \in DOMAIN Outbox' : ~About(Outbox'[i], e))
                          => e \in subscriptions[transport'.socket]
  BY <1>2 DEF ServesSubscribed, WillServe, Connected, About, Client!IsOpen, Client!subscribedEvents, Client!EventsOf
<1>3. Live'
  BY DEF Client!IsOpen, Live, Tab, Sound, Transports, LiveStates
<1>4. TabLasts
  <2>1. ~TabCreates
    BY DEF TabCreates, Client!IsOpen
  <2>. QED
    BY <1>1, <1>3, <2>1, TabSocket
<1>5. /\ Live /\ transport'.socket = transport.socket
      /\ Client!IsOpen(transport) /\ Connected(transport.socket)
      /\ transport.readyState[transport.socket] = "open"
  BY <1>4 DEF TabLasts, Client!IsOpen, Connected
<1>6. e \in Client!subscribedEvents(transport) =>
        /\ \A i \in DOMAIN Outbox :
             About(Outbox[i], e) /\ Outbox[i].type = "unsubscribe" =>
                 \E j \in DOMAIN Outbox :
                   j > i /\ About(Outbox[j], e) /\ Outbox[j].type = "subscribe"
        /\ (\A i \in DOMAIN Outbox : ~About(Outbox[i], e)) => e \in subscriptions[transport.socket]
  BY <1>5 DEF DeliveryInv, ServesSubscribed, WillServe
<1>7. \A i \in DOMAIN Outbox : i \in DOMAIN Outbox' /\ Outbox'[i] = Outbox[i]
  BY <1>1, <1>4, ToldOutbox
<1>8. CASE DOMAIN Outbox' = DOMAIN Outbox
  <2>1. e \in Client!subscribedEvents(transport)
    BY <1>1, <1>4, <1>5, <1>8, ToldOutbox
  <2>. QED
    BY <1>5, <1>6, <1>7, <1>8, <2>1
<1>9. CASE DOMAIN Outbox' # DOMAIN Outbox
  <2>1. PICK n \in DOMAIN Outbox' : n \notin DOMAIN Outbox
    BY <1>7, <1>9
  <2>2. /\ n = Len(Outbox) + 1
        /\ Outbox'[n].type \in {"subscribe", "unsubscribe"}
        /\ Outbox'[n].type = "subscribe" =>
             Client!subscribedEvents(transport') =
                Client!subscribedEvents(transport) \cup Outbox'[n].events
        /\ Outbox'[n].type = "unsubscribe" =>
             Client!subscribedEvents(transport') =
                Client!subscribedEvents(transport) \ Outbox'[n].events
        /\ Len(Outbox) \in Nat /\ DOMAIN Outbox = 1..Len(Outbox)
        /\ \A i \in DOMAIN Outbox' \ DOMAIN Outbox : i = Len(Outbox) + 1
    BY <1>1, <1>4, <2>1, ToldOutbox
  <2>3. \A i \in DOMAIN Outbox : i < n
    BY <2>2
  <2>4. CASE e \in Outbox'[n].events
    <3>1. Outbox'[n].type = "subscribe" /\ About(Outbox'[n], e)
      BY <2>2, <2>4 DEF About
    <3>. QED
      BY <1>7, <2>1, <2>2, <2>3, <3>1
  <2>5. CASE e \notin Outbox'[n].events
    <3>1. e \in Client!subscribedEvents(transport)
      BY <2>2, <2>5
    <3>2. ~About(Outbox'[n], e)
      BY <2>5 DEF About
    <3>3. \A i \in DOMAIN Outbox' : i \in DOMAIN Outbox \/ i = n
      BY <2>2
    <3>4. \A i \in DOMAIN Outbox' :
             About(Outbox'[i], e) /\ Outbox'[i].type = "unsubscribe" =>
                 \E j \in DOMAIN Outbox' :
                   j > i /\ About(Outbox'[j], e) /\ Outbox'[j].type = "subscribe"
      <4>. SUFFICES ASSUME NEW i \in DOMAIN Outbox', About(Outbox'[i], e), Outbox'[i].type = "unsubscribe"
                    PROVE  \E j \in DOMAIN Outbox' :
                              j > i /\ About(Outbox'[j], e) /\ Outbox'[j].type = "subscribe"
        OBVIOUS
      <4>1. i \in DOMAIN Outbox /\ Outbox[i] = Outbox'[i]
        BY <1>7, <3>2, <3>3
      <4>2. PICK j \in DOMAIN Outbox : j > i /\ About(Outbox[j], e) /\ Outbox[j].type = "subscribe"
        BY <1>6, <3>1, <4>1
      <4>. QED
        BY <1>7, <4>2
    <3>5. (\A i \in DOMAIN Outbox' : ~About(Outbox'[i], e)) => e \in subscriptions[transport.socket]
      BY <1>6, <1>7, <3>1
    <3>. QED
      BY <1>5, <3>4, <3>5
  <2>. QED
    BY <2>4, <2>5
<1>. QED
  BY <1>8, <1>9

\* A step of the tab keeps the account of the events that are owed.
LEMMA TabPromises ==
    ASSUME DeliveryInv, NEW initializes, Tab(initializes), Account(initializes), TabFrame
    PROVE  PromisesKept'
<1>1. TypeOK /\ Fresh
  BY DEF DeliveryInv
<1>2. UNCHANGED <<cookie, restarts, delivered, next_sequence, history, scope, connections, queue>>
  BY DEF TabFrame, busVars, connVars, sessionVars, serverVars
<1>. SUFFICES ASSUME NEW o \in owed', o.seen
              PROVE  Promised(o)'
  BY DEF PromisesKept
<1>3. /\ o \in owed /\ Promised(o)
      /\ o.envelope.event \in Client!EventsOf(transport'.handlers)
      /\ transport'.lastSequence >= transport.lastSequence
  BY DEF Account, StillOwed, DeliveryInv, PromisesKept
<1>4. transport'.lastSequence = transport.lastSequence /\ transport.lastSequence > 0
  BY <1>1, <1>3 DEF Promised, Tab, TypeOK, TransportTypeOK, Transports
<1>5. Replayable(o)' => Replayable(o)
  BY <1>2 DEF Replayable, HasDelivered
<1>6. ASSUME Replayable(o), Client!IsOpen(transport')
      PROVE  \/ \E i \in EventsIn(Inbox') : Inbox'[i].envelope = o.envelope
             \/ /\ \A i \in EventsIn(Inbox') : Inbox'[i].envelope.sequence < o.envelope.sequence
                /\ \/ ~(scope[transport'.socket] # NoSession
                         /\ transport'.socket \in connections[scope[transport'.socket]])
                   \/ \E j \in DOMAIN Queued' : Queued'[j] = o.envelope
                   \/ \E i \in DOMAIN Outbox' :
                         /\ AsksReplay(Outbox'[i])
                         /\ o.envelope.event \in Outbox'[i].events
                         /\ Outbox'[i].since < o.envelope.sequence
  <2>1. Live'
    BY <1>6 DEF Client!IsOpen, Live, Tab, Sound, Transports, LiveStates
  <2>2. TabLasts
    <3>1. ~TabCreates
      BY <1>6 DEF TabCreates, Client!IsOpen
    <3>. QED
      BY <1>1, <2>1, <3>1, TabSocket
  <2>3. /\ Live /\ transport'.socket = transport.socket /\ Queued' = Queued
        /\ Client!IsOpen(transport)
    BY <1>2, <1>6, <2>2 DEF TabLasts, Client!IsOpen, Queued
  <2>4. Coming(o.envelope)
    BY <1>3, <1>6, <2>3 DEF Promised
  <2>5. PICK d \in {0, 1} : Shifted(Inbox, Inbox', d)
    BY <2>2 DEF TabLasts
  <2>6. /\ \A i \in EventsIn(Inbox') : i + d \in EventsIn(Inbox) /\ Inbox'[i] = Inbox[i + d]
        /\ \A j \in EventsIn(Inbox) : j - d \in EventsIn(Inbox')
        /\ \A j \in EventsIn(Inbox) : j \in Int /\ (j - d) + d = j
    <3>1. Inbox \in Seq(Messages)
      BY <1>1, <2>3 DEF TypeOK, TransportTypeOK, Transports, Inbox, Live
    <3>. QED
      BY <2>5, <3>1 DEF Shifted, EventsIn
  <2>7. \A i \in DOMAIN Outbox : i \in DOMAIN Outbox' /\ Outbox'[i] = Outbox[i]
    BY <1>1, <2>2, ToldOutbox
  <2>8. CASE \E i \in EventsIn(Inbox) : Inbox[i].envelope = o.envelope
    <3>1. PICK i \in EventsIn(Inbox) : Inbox[i].envelope = o.envelope
      BY <2>8
    <3>2. i - d \in EventsIn(Inbox') /\ Inbox'[i - d] = Inbox[i]
      BY <2>6, <3>1
    <3>. QED
      BY <3>1, <3>2
  <2>9. CASE ~\E i \in EventsIn(Inbox) : Inbox[i].envelope = o.envelope
    <3>1. /\ \A i \in EventsIn(Inbox) : Inbox[i].envelope.sequence < o.envelope.sequence
          /\ \/ ~Connected(transport.socket)
             \/ \E j \in DOMAIN Queued : Queued[j] = o.envelope
             \/ \E i \in DOMAIN Outbox :
                   /\ AsksReplay(Outbox[i])
                   /\ o.envelope.event \in Outbox[i].events
                   /\ Outbox[i].since < o.envelope.sequence
      BY <2>4, <2>9 DEF Coming
    <3>. QED
      BY <2>3, <2>6, <2>7, <3>1 DEF Connected
  <2>. QED
    BY <2>8, <2>9
<1>7. Promised(o)'
  <2>1. /\ o.session # NoSession
        /\ o.envelope.sequence <= next_sequence
        /\ Replayable(o) => o.envelope.sequence > transport.lastSequence
    BY <1>3 DEF Promised
  <2>3. Replayable(o)' /\ Client!IsOpen(transport') => Coming(o.envelope)'
    BY <1>2, <1>5, <1>6 DEF Coming, Connected, EventsIn, AsksReplay
  <2>. QED
    BY <1>2, <1>3, <1>4, <1>5, <2>1, <2>3 DEF Promised, Client!IsOpen, Client!subscribedEvents, Client!EventsOf
<1>. QED
  BY <1>7

\* A step of the tab preserves the invariant.
LEMMA TabInv ==
    ASSUME DeliveryInv, NEW initializes \in BOOLEAN, Tab(initializes), Account(initializes), TabFrame
    PROVE  DeliveryInv'
BY TabTypeOK, TabFresh, TabReplayFirst, TabStream, TabDelivered, TabLastSequence, TabServes, TabPromises
   DEF DeliveryInv

\* The steps of the module that Tab covers.
LEMMA TabSteps ==
    ASSUME DeliveryInv,
           \/ \E h \in Handlers : SubscribeCall(h) \/ UnsubscribeCall(h)
           \/ \E previous \in SessionIds \cup {NoSession} :
                Reconnected(previous) \/ ReconnectFailed(previous)
           \/ \E s \in SessionIds : RequestRejected(s)
           \/ \E k \in ConnIds : SocketFails(k) \/ SocketCloses(k)
           \/ \E k \in ConnIds : MessageArrives(k) /\ Head(transport.inbox[k]).type # "event"
           \/ Initialize \/ Loaded \/ LoadFailed \/ TimerFires
    PROVE  DeliveryInv'
<1>1. TypeOK /\ OneSocket /\ Waits
  BY DEF DeliveryInv
<1>3. ASSUME NEW h \in Handlers, SubscribeCall(h) \/ UnsubscribeCall(h)
      PROVE  DeliveryInv'
  <2>1. CASE SubscribeCall(h)
    <3>1. PICK k \in NewSockets : ClientStep(Client!Subscribe(h, k))
      BY <2>1 DEF SubscribeCall
    <3>2. Tab(FALSE) /\ Account(FALSE) /\ TabFrame
      BY <1>1, <3>1, SubscribeTab DEF ClientStep, TabFrame, netVars
    <3>. QED
      BY <3>2, TabInv
  <2>2. CASE UnsubscribeCall(h)
    <3>1. Tab(FALSE) /\ Account(FALSE) /\ TabFrame
      BY <1>1, <2>2, UnsubscribeTab DEF UnsubscribeCall, ClientStep, TabFrame, netVars
    <3>. QED
      BY <3>1, TabInv
  <2>. QED
    BY <1>3, <2>1, <2>2
<1>4. ASSUME NEW previous \in SessionIds \cup {NoSession}, Reconnected(previous) \/ ReconnectFailed(previous)
      PROVE  DeliveryInv'
  <2>1. CASE Reconnected(previous)
    <3>1. PICK k \in NewSockets : ClientStep(Client!Reconnect(previous, cookie, k))
      BY <2>1 DEF Reconnected
    <3>2. Tab(FALSE) /\ Account(FALSE) /\ TabFrame
      BY <1>1, <2>1, <3>1, ReconnectTab DEF Reconnected, ClientStep, TabFrame, netVars
    <3>. QED
      BY <3>2, TabInv
  <2>2. CASE ReconnectFailed(previous)
    <3>1. Tab(FALSE) /\ Account(FALSE) /\ TabFrame
      BY <1>1, <2>2, ReconnectFailedTab DEF ReconnectFailed, ClientStep, TabFrame, netVars
    <3>. QED
      BY <3>1, TabInv
  <2>. QED
    BY <1>4, <2>1, <2>2
<1>5. ASSUME NEW s \in SessionIds, RequestRejected(s)
      PROVE  DeliveryInv'
  <2>1. Tab(FALSE) /\ Account(FALSE) /\ TabFrame
    BY <1>1, <1>5, RequestRejectedTab DEF RequestRejected, TabFrame
  <2>. QED
    BY <2>1, TabInv
<1>6. ASSUME NEW k \in ConnIds, SocketFails(k) \/ SocketCloses(k)
      PROVE  DeliveryInv'
  <2>1. Tab(FALSE) /\ Account(FALSE) /\ TabFrame
    BY <1>1, <1>6, SocketFailsTab, SocketClosesTab DEF SocketFails, SocketCloses, ClientStep, TabFrame, netVars
  <2>. QED
    BY <2>1, TabInv
<1>7. ASSUME NEW k \in ConnIds, MessageArrives(k), Head(transport.inbox[k]).type # "event"
      PROVE  DeliveryInv'
  <2>1. Tab(FALSE)
    BY <1>1, <1>7, MessageTab DEF MessageArrives
  <2>2. delivered' = delivered
    BY <1>7 DEF MessageArrives, Client!Delivers
  <2>3. Account(FALSE) /\ TabFrame
    BY <1>7, <2>2 DEF MessageArrives, TabFrame, netVars
  <2>. QED
    BY <2>1, <2>3, TabInv
<1>8. CASE Initialize \/ LoadFailed \/ TimerFires
  <2>1. Tab(FALSE) /\ Account(FALSE) /\ TabFrame
    BY <1>1, <1>8, InitializeTab, LoadFailedTab, TimerFiresTab
       DEF Initialize, LoadFailed, TimerFires, ClientStep, TabFrame, netVars
  <2>. QED
    BY <2>1, TabInv
<1>9. CASE Loaded
  <2>1. PICK k \in NewSockets : Client!Initialized(cookie, k)
    BY <1>9 DEF Loaded
  <2>2. Tab(TRUE) /\ Account(TRUE) /\ TabFrame
    BY <1>1, <1>9, <2>1, LoadedTab DEF Loaded, TabFrame, netVars
  <2>. QED
    BY <2>2, TabInv
<1>. QED
  BY <1>3, <1>4, <1>5, <1>6, <1>7, <1>8, <1>9
-----------------------------------------------------------------------------
(***************************************************************************)
(* The socket opens.                                                       *)
(***************************************************************************)
LEMMA Opened ==
    ASSUME DeliveryInv, NEW k \in ConnIds, Client!OnOpen(k)
    PROVE  /\ Sound(transport')
           /\ k = transport.socket /\ transport.readyState[k] = "upgraded"
           /\ transport'.session = transport.session
           /\ transport'.handlers = transport.handlers
           /\ transport'.socket = k
           /\ transport'.lastSequence = transport.lastSequence
           /\ transport'.readyState[k] = "open"
           /\ transport'.inbox = transport.inbox
           /\ \/ /\ Client!subscribedEvents(transport) = {}
                 /\ transport'.outbox[k] = <<>>
              \/ \E m \in Controls :
                 /\ m.type = "subscribe"
                 /\ m.events = Client!subscribedEvents(transport)
                 /\ m.since = transport.lastSequence
                 /\ transport'.outbox[k] = <<m>>
<1>. DEFINE r == [transport.readyState EXCEPT ![k] = "open"]
            o == [h \in Handlers |-> IF transport.opening[h] = k THEN NoSocket ELSE transport.opening[h]]
            u == [transport EXCEPT !.readyState = r,
                          !.connectionPromise = NoSocket,
                          !.retrying = transport.retrying \ {k},
                          !.opening = o]
            subscribed == Client!subscribedEvents(transport)
            m == Client!SubscribeMessage(subscribed, transport.lastSequence)
<1>1. Sound(transport) /\ transport \in Transports
  BY SoundState DEF Sound, DeliveryInv
<1>2. transport.readyState[k] = "upgraded" /\ k = transport.socket /\ Live
  BY DEF Client!OnOpen, DeliveryInv, OneSocket, Live, LiveStates
<1>3. transport.outbox[k] = <<>>
  BY <1>2 DEF DeliveryInv, Fresh, Outbox
<1>4. /\ transport.readyState \in [ConnIds -> ReadyStates]
      /\ transport.outbox \in [ConnIds -> Seq(Controls)]
      /\ transport.opening \in [Handlers -> ConnIds \cup {NoSocket}]
      /\ transport.handlers \in SUBSET Handlers
      /\ transport.lastSequence \in 0..MaxSequence
  BY <1>1 DEF Transports
<1>5. /\ r \in [ConnIds -> ReadyStates]
      /\ o \in [Handlers -> ConnIds \cup {NoSocket}]
      /\ r[k] = "open" /\ \A j \in ConnIds \ {k} : r[j] = transport.readyState[j]
  BY <1>4 DEF ReadyStates
<1>6. transport' = Client!subscribeAll(u)
  <2>1. transport' = Client!subscribeAll([[transport EXCEPT !.readyState[k] = "open"]
                                          EXCEPT !.connectionPromise = NoSocket,
                                                 !.retrying = @ \ {k},
                                                 !.opening = [h \in Handlers |-> IF @[h] = k THEN NoSocket ELSE @[h]]])
    BY <1>2 DEF Client!OnOpen
  <2>2. [[transport EXCEPT !.readyState[k] = "open"]
                                          EXCEPT !.connectionPromise = NoSocket,
                                                 !.retrying = @ \ {k},
                                                 !.opening = [h \in Handlers |-> IF @[h] = k THEN NoSocket ELSE @[h]]] = u
    BY <1>1 DEF Transports
  <2>. QED
    BY <2>1, <2>2
<1>. HIDE DEF r, o
<1>7. u \in Transports
  BY <1>1, <1>5 DEF Transports
<1>8. /\ u.session = transport.session /\ u.initializing = transport.initializing
      /\ u.handlers = transport.handlers /\ u.pending = transport.pending
      /\ u.socket = transport.socket /\ u.connectionPromise = NoSocket
      /\ u.lastSequence = transport.lastSequence
      /\ u.readyState = r
      /\ u.outbox = transport.outbox /\ u.inbox = transport.inbox
  BY <1>1 DEF Transports
<1>. HIDE DEF u
<1>9. Sound(u)
  BY <1>1, <1>2, <1>5, <1>7, <1>8 DEF Sound, Lives, LiveStates
<1>10. Client!subscribedEvents(u) = subscribed
  BY <1>8 DEF Client!subscribedEvents
<1>11. Client!IsOpen(u)
  BY <1>2, <1>5, <1>8, TabAssumption DEF Client!IsOpen
<1>12. /\ m \in Controls /\ m.type = "subscribe" /\ m.events = subscribed
       /\ m.since = transport.lastSequence
  <2>1. subscribed \in SUBSET Events
    BY <1>4, TabAssumption DEF Client!subscribedEvents, Client!EventsOf
  <2>. QED
    BY <2>1, <1>4, SubscribeTyped
<1>. HIDE DEF m
<1>13. CASE subscribed = {}
  <2>1. transport' = u
    BY <1>6, <1>10, <1>13 DEF Client!subscribeAll
  <2>. QED
    BY <1>2, <1>3, <1>5, <1>8, <1>9, <1>13, <2>1
<1>14. CASE subscribed # {}
  <2>1. transport' = Client!sendControl(u, m)
    BY <1>6, <1>8, <1>10, <1>14 DEF Client!subscribeAll, m
  <2>2. /\ transport' = [u EXCEPT !.outbox = [transport.outbox EXCEPT ![k] = Append(transport.outbox[k], m)]]
        /\ transport' \in Transports
    BY <1>2, <1>7, <1>8, <1>11, <1>12, <2>1, SendControlShape
  <2>3. /\ transport'.session = transport.session /\ transport'.initializing = transport.initializing
        /\ transport'.handlers = transport.handlers /\ transport'.pending = transport.pending
        /\ transport'.socket = transport.socket /\ transport'.connectionPromise = NoSocket
        /\ transport'.lastSequence = transport.lastSequence
        /\ transport'.readyState = r
        /\ transport'.inbox = transport.inbox
        /\ transport'.outbox = [transport.outbox EXCEPT ![k] = Append(transport.outbox[k], m)]
    BY <1>7, <1>8, <2>2 DEF Transports
  <2>4. transport'.outbox[k] = <<m>>
    BY <1>3, <1>4, <2>3
  <2>5. Sound(transport')
    BY <1>8, <1>9, <2>2, <2>3 DEF Sound, Lives
  <2>. QED
    BY <1>2, <1>5, <1>12, <2>3, <2>4, <2>5
<1>. QED
  BY <1>13, <1>14

\* The socket's open event preserves the invariant.
LEMMA OpensInv ==
    ASSUME DeliveryInv, NEW k \in ConnIds, SocketOpens(k)
    PROVE  DeliveryInv'
<1>1. /\ Sound(transport')
      /\ k = transport.socket /\ transport.readyState[k] = "upgraded"
      /\ transport'.session = transport.session
      /\ transport'.handlers = transport.handlers
      /\ transport'.socket = k
      /\ transport'.lastSequence = transport.lastSequence
      /\ transport'.readyState[k] = "open"
      /\ transport'.inbox = transport.inbox
  BY Opened DEF SocketOpens, ClientStep
<1>2. /\ Account(FALSE)
      /\ UNCHANGED <<busVars, netVars, delivered>>
  BY DEF SocketOpens, ClientStep
<1>3. UNCHANGED <<cookie, issued, restarts, next_sequence, sessions, authorization, history, connections,
                  queue, scope, subscriptions>>
  BY <1>2 DEF busVars, sessionVars, connVars, netVars, serverVars
<1>4. /\ Live /\ Live'
      /\ EventsIn(Inbox) = {} /\ Inbox' = Inbox
      /\ Queued = <<>> /\ Queued' = <<>> /\ subscriptions[k] = {}
  <2>1. Live /\ Live'
    BY <1>1 DEF Live, LiveStates
  <2>. QED
    BY <1>1, <1>3, <2>1 DEF DeliveryInv, Fresh, Inbox, Queued
<1>5. transport.lastSequence \in 0..MaxSequence
  BY DEF DeliveryInv, TypeOK, TransportTypeOK, Transports
<1>6. /\ Outbox' \in Seq(Controls)
      /\ \/ Client!subscribedEvents(transport) = {} /\ DOMAIN Outbox' = {}
         \/ /\ DOMAIN Outbox' = {1}
            /\ Outbox'[1].type = "subscribe"
            /\ Outbox'[1].events = Client!subscribedEvents(transport)
            /\ Outbox'[1].since = transport.lastSequence
  <2>1. \/ Client!subscribedEvents(transport) = {} /\ Outbox' = <<>>
        \/ \E m \in Controls :
                 /\ m.type = "subscribe"
                 /\ m.events = Client!subscribedEvents(transport)
                 /\ m.since = transport.lastSequence
                 /\ Outbox' = <<m>>
    BY <1>1, Opened DEF SocketOpens, ClientStep, Outbox
  <2>2. \A m \in Controls : <<m>> \in Seq(Controls) /\ DOMAIN <<m>> = {1} /\ <<m>>[1] = m
    OBVIOUS
  <2>3. <<>> \in Seq(Controls) /\ DOMAIN <<>> = {}
    OBVIOUS
  <2>. QED
    BY <2>1, <2>2, <2>3
<1>7. BusInv'
  BY <1>2, BusStutters DEF DeliveryInv
<1>8. TransportTypeOK' /\ OneSocket' /\ Waits'
  BY <1>1 DEF Sound, Lives, TransportTypeOK, OneSocket, Waits, Live, LiveStates
<1>9. /\ owed' \subseteq owed /\ carried' \in BOOLEAN
      /\ ~carried' => ~carried \/ transport.lastSequence = 0
  <2>1. owed' \subseteq owed /\ carried' \in BOOLEAN
    BY <1>2 DEF Account, StillOwed
  <2>2. carried' = ((carried \/ FALSE) /\ transport'.lastSequence > 0)
    BY <1>2 DEF Account
  <2>3. transport'.lastSequence > 0 \/ transport.lastSequence = 0
    BY <1>1, <1>5
  <2>4. ~carried' => ~carried \/ transport.lastSequence = 0
    BY <2>2, <2>3, Zenon
  <2>. QED
    BY <2>1, <2>4
<1>10. TypeOK'
  BY <1>2, <1>7, <1>8, <1>9 DEF DeliveryInv, TypeOK, BusInv, netVars, serverVars
<1>11. KnownSessions' /\ CurrentScope'
  BY <1>1, <1>3, <1>4, <1>9 DEF DeliveryInv, KnownSessions, CurrentScope
<1>12. Fresh'
  BY <1>1, <1>3 DEF DeliveryInv, Fresh
<1>13. ReplayFirst'
  <2>1. Client!subscribedEvents(transport) \subseteq {EventOf[h] : h \in Handlers}
    BY DEF DeliveryInv, TypeOK, TransportTypeOK, Transports, Client!subscribedEvents, Client!EventsOf
  <2>. QED
    BY <1>1, <1>3, <1>4, <1>6, <2>1 DEF ReplayFirst, EventsIn, AsksReplay
<1>14. Stream'
  BY <1>4 DEF Stream, EventsIn
<1>15. \A n \in 0..MaxSequence : (n <= transport.lastSequence \/ transport.lastSequence = 0) =>
          /\ \A i \in EventsIn(Inbox') : Inbox'[i].envelope.sequence > n
          /\ \A j \in DOMAIN Queued' : Queued'[j].sequence > n
          /\ \A i \in DOMAIN Outbox' : AsksReplay(Outbox'[i]) => Outbox'[i].since >= n
  <2>. TAKE n \in 0..MaxSequence
  <2>1. EventsIn(Inbox') = {} /\ DOMAIN Queued' = {}
    BY <1>4
  <2>2. \A i \in DOMAIN Outbox' : AsksReplay(Outbox'[i]) =>
            Outbox'[i].since = transport.lastSequence /\ transport.lastSequence > 0
    BY <1>6 DEF AsksReplay
  <2>. QED
    BY <1>5, <2>1, <2>2
<1>16. InOrderOnce'
  BY <1>2 DEF DeliveryInv, InOrderOnce
<1>17. DeliveredBefore'
  <2>1. ASSUME NEW i \in DOMAIN delivered
        PROVE  /\ delivered[i][1] <= restarts
               /\ delivered[i][1] = restarts =>
                  /\ delivered[i][2] <= next_sequence
                  /\ transport'.lastSequence = 0 \/ delivered[i][2] <= transport'.lastSequence
                  /\ \A j \in EventsIn(Inbox') : Inbox'[j].envelope.sequence > delivered[i][2]
                  /\ \A j \in DOMAIN Queued' : Queued'[j].sequence > delivered[i][2]
                  /\ \A j \in DOMAIN Outbox' : AsksReplay(Outbox'[j]) => Outbox'[j].since >= delivered[i][2]
    <3>1. PICK n : n = delivered[i][2]
      OBVIOUS
    <3>2. n \in 0..MaxSequence
      BY <3>1 DEF DeliveryInv, TypeOK
    <3>. QED
      BY <1>1, <1>15, <3>1, <3>2 DEF DeliveryInv, DeliveredBefore
  <2>. QED
    BY <1>2, <1>3, <2>1 DEF DeliveredBefore, Above, EventsIn, AsksReplay
<1>18. LastSequenceInSession'
  <2>1. PICK n : n = transport.lastSequence
    OBVIOUS
  <2>2. /\ \A i \in EventsIn(Inbox') : Inbox'[i].envelope.sequence > n
        /\ \A j \in DOMAIN Queued' : Queued'[j].sequence > n
        /\ \A i \in DOMAIN Outbox' : AsksReplay(Outbox'[i]) => Outbox'[i].since >= n
    BY <1>5, <1>15, <2>1
  <2>3. Above(transport.lastSequence)'
    BY <1>1, <2>1, <2>2 DEF Above, EventsIn, AsksReplay
  <2>4. next_sequence \in Nat
    BY DEF DeliveryInv, TypeOK, BusTypeOK
  <2>. QED
    BY <1>1, <1>3, <1>5, <1>9, <2>3, <2>4 DEF DeliveryInv, LastSequenceInSession
<1>19. ServesSubscribed'
  <2>. SUFFICES ASSUME NEW e \in Client!subscribedEvents(transport)
                PROVE  WillServe(e)'
    BY <1>1 DEF ServesSubscribed, Client!subscribedEvents
  <2>1. DOMAIN Outbox' = {1} /\ About(Outbox'[1], e) /\ Outbox'[1].type = "subscribe"
    BY <1>6 DEF About
  <2>. QED
    BY <2>1 DEF WillServe, About
<1>20. PromisesKept'
  <2>. SUFFICES ASSUME NEW o \in owed', o.seen
                PROVE  Promised(o)'
    BY DEF PromisesKept
  <2>1. o \in owed /\ Promised(o)
    BY <1>9 DEF DeliveryInv, PromisesKept
  <2>2. Replayable(o)' => Replayable(o)
    BY <1>2, <1>3 DEF Replayable, HasDelivered
  <2>3. Replayable(o) => Coming(o.envelope)'
    <3>. SUFFICES ASSUME Replayable(o) PROVE Coming(o.envelope)'
      OBVIOUS
    <3>1. /\ DOMAIN Outbox' = {1}
          /\ Outbox'[1].type = "subscribe"
          /\ Outbox'[1].events = Client!subscribedEvents(transport)
          /\ Outbox'[1].since = transport.lastSequence
      BY <1>6, <2>1 DEF Promised
    <3>2. /\ o.envelope.event \in Outbox'[1].events
          /\ Outbox'[1].since > 0 /\ Outbox'[1].since < o.envelope.sequence
      BY <2>1, <3>1 DEF Promised
    <3>3. EventsIn(Inbox') = {}
      BY <1>4
    <3>. QED
      BY <3>1, <3>2, <3>3 DEF Coming, EventsIn, AsksReplay
  <2>. QED
    BY <1>1, <1>3, <2>1, <2>2, <2>3 DEF Promised, Client!subscribedEvents
<1>. QED
  BY <1>7, <1>8, <1>10, <1>11, <1>12, <1>13, <1>14, <1>16, <1>17, <1>18, <1>19, <1>20 DEF DeliveryInv

-----------------------------------------------------------------------------
(***************************************************************************)
(* An event arrives.                                                       *)
(***************************************************************************)
LEMMA Arrived ==
    ASSUME DeliveryInv, NEW k \in ConnIds, Client!OnMessage(k),
           Head(transport.inbox[k]).type = "event"
    PROVE  /\ Sound(transport')
           /\ k = transport.socket /\ transport.readyState[k] = "open"
           /\ transport.inbox[k] # <<>>
           /\ Head(transport.inbox[k]).envelope \in Envelope
           /\ transport'.session = transport.session
           /\ transport'.handlers = transport.handlers
           /\ transport'.socket = k
           /\ transport'.readyState = transport.readyState
           /\ transport'.outbox = transport.outbox
           /\ transport'.inbox[k] = Tail(transport.inbox[k])
           /\ transport'.lastSequence =
                IF Head(transport.inbox[k]).envelope.sequence > transport.lastSequence
                THEN Head(transport.inbox[k]).envelope.sequence ELSE transport.lastSequence
<1>. DEFINE message == Head(transport.inbox[k])
            n == message.envelope.sequence
            i == [transport.inbox EXCEPT ![k] = Tail(transport.inbox[k])]
            t == [transport EXCEPT !.inbox = i]
<1>1. Sound(transport) /\ transport \in Transports
  BY SoundState DEF Sound, DeliveryInv
<1>2. /\ transport.readyState[k] = "open" /\ transport.inbox[k] # <<>>
      /\ k = transport.socket
  BY <1>1 DEF Client!OnMessage, Sound, LiveStates
<1>3. transport.inbox \in [ConnIds -> Seq(Messages)]
  BY <1>1 DEF Transports
<1>4. message \in Messages /\ Tail(transport.inbox[k]) \in Seq(Messages)
  BY <1>2, <1>3
<1>5. message.envelope \in Envelope /\ n \in 1..MaxSequence
  <2>1. message.envelope \in Envelope
    BY <1>4, MessageTyped
  <2>. QED
    BY <2>1 DEF Envelope
<1>6. /\ i \in [ConnIds -> Seq(Messages)]
      /\ i[k] = Tail(transport.inbox[k])
      /\ \A j \in ConnIds \ {k} : i[j] = transport.inbox[j]
  BY <1>3, <1>4
<1>7. transport' = IF n > t.lastSequence THEN [t EXCEPT !.lastSequence = n] ELSE t
  <2>1. transport' = Client!handleSocketMessage(t, message)
    BY <1>2 DEF Client!OnMessage
  <2>. QED
    BY <2>1 DEF Client!handleSocketMessage, Client!IsNew
<1>. HIDE DEF i
<1>8. t \in Transports
  BY <1>1, <1>6 DEF Transports
<1>9. /\ t.session = transport.session /\ t.initializing = transport.initializing
      /\ t.handlers = transport.handlers /\ t.pending = transport.pending
      /\ t.socket = transport.socket /\ t.connectionPromise = transport.connectionPromise
      /\ t.lastSequence = transport.lastSequence
      /\ t.readyState = transport.readyState
      /\ t.outbox = transport.outbox /\ t.inbox = i
  BY <1>1 DEF Transports
<1>. HIDE DEF t, n
<1>10. Sound(t)
  BY <1>1, <1>2, <1>6, <1>8, <1>9 DEF Sound, Lives, LiveStates
<1>11. CASE n > t.lastSequence
  <2>1. transport' = [t EXCEPT !.lastSequence = n]
    BY <1>7, <1>11
  <2>2. transport' \in Transports
    <3>1. n \in 0..MaxSequence
      BY <1>5 DEF Envelope
    <3>. QED
      BY <3>1, <1>8, <2>1 DEF Transports
  <2>3. /\ transport'.session = t.session /\ transport'.initializing = t.initializing
        /\ transport'.handlers = t.handlers /\ transport'.pending = t.pending
        /\ transport'.socket = t.socket /\ transport'.connectionPromise = t.connectionPromise
        /\ transport'.lastSequence = n
        /\ transport'.readyState = t.readyState
        /\ transport'.outbox = t.outbox /\ transport'.inbox = t.inbox
    BY <1>8, <2>1 DEF Transports
  <2>4. Sound(transport')
    BY <1>10, <2>2, <2>3 DEF Sound, Lives
  <2>. QED
    BY <1>2, <1>5, <1>6, <1>9, <1>11, <2>3, <2>4 DEF n
<1>12. CASE ~(n > t.lastSequence)
  <2>1. transport' = t
    BY <1>7, <1>12
  <2>. QED
    BY <1>2, <1>5, <1>6, <1>9, <1>10, <1>12, <2>1 DEF n
<1>. QED
  BY <1>11, <1>12

\* Handling an event that has arrived preserves the invariant.
LEMMA ArrivesInv ==
    ASSUME DeliveryInv, NEW k \in ConnIds, MessageArrives(k), Head(transport.inbox[k]).type = "event"
    PROVE  DeliveryInv'
<1>. DEFINE e == Head(transport.inbox[k]).envelope
<1>1. /\ Sound(transport')
      /\ k = transport.socket /\ transport.readyState[k] = "open"
      /\ transport.inbox[k] # <<>>
      /\ e \in Envelope
      /\ transport'.session = transport.session
      /\ transport'.handlers = transport.handlers
      /\ transport'.socket = k
      /\ transport'.readyState = transport.readyState
      /\ transport'.outbox = transport.outbox
      /\ transport'.inbox[k] = Tail(transport.inbox[k])
      /\ transport'.lastSequence = IF e.sequence > transport.lastSequence THEN e.sequence
                                   ELSE transport.lastSequence
  BY Arrived DEF MessageArrives
<1>2. /\ Account(FALSE)
      /\ UNCHANGED <<busVars, netVars>>
      /\ delivered' = IF e.sequence > transport.lastSequence /\ e.event \in Client!subscribedEvents(transport)
                      THEN Append(delivered, <<restarts, e.sequence>>) ELSE delivered
  BY <1>1 DEF MessageArrives, Client!Delivers, Client!IsNew
<1>3. UNCHANGED <<cookie, issued, restarts, next_sequence, sessions, authorization, history, connections,
                  queue, scope, subscriptions>>
  BY <1>2 DEF busVars, sessionVars, connVars, netVars, serverVars
<1>4. /\ Live /\ Live' /\ Client!IsOpen(transport)
      /\ Inbox \in Seq(Messages) /\ Inbox # <<>> /\ e = Head(Inbox).envelope
      /\ Inbox' = Tail(Inbox) /\ Outbox' = Outbox /\ Queued' = Queued
  <2>1. Live /\ Live' /\ Client!IsOpen(transport)
    BY <1>1, TabAssumption DEF Live, LiveStates, Client!IsOpen
  <2>2. Inbox \in Seq(Messages)
    BY <2>1 DEF DeliveryInv, TypeOK, TransportTypeOK, Transports, Inbox, Live
  <2>. QED
    BY <1>1, <1>3, <2>1, <2>2 DEF Inbox, Outbox, Queued
<1>5. /\ 1 \in EventsIn(Inbox) /\ Inbox[1].envelope = e
      /\ \A i \in EventsIn(Inbox') : i + 1 \in EventsIn(Inbox) /\ Inbox'[i] = Inbox[i + 1] /\ i \in Nat \ {0}
      /\ \A j \in EventsIn(Inbox) \ {1} : j - 1 \in EventsIn(Inbox') /\ Inbox'[j - 1] = Inbox[j] /\ j > 1
  <2>1. /\ Len(Inbox) \in Nat \ {0} /\ DOMAIN Inbox = 1..Len(Inbox)
        /\ DOMAIN Tail(Inbox) = 1..(Len(Inbox) - 1)
        /\ \A i \in 1..(Len(Inbox) - 1) : Tail(Inbox)[i] = Inbox[i + 1]
        /\ Head(Inbox) = Inbox[1]
    BY <1>4
  <2>2. Inbox[1].type = "event"
    BY <1>1, <2>1 DEF Inbox
  <2>3. \A j \in EventsIn(Inbox) \ {1} : j - 1 \in 1..(Len(Inbox) - 1) /\ Inbox'[j - 1] = Inbox[j] /\ j > 1
    BY <1>4, <2>1 DEF EventsIn
  <2>. QED
    BY <1>4, <2>1, <2>2, <2>3 DEF EventsIn
<1>6. PICK n : n = e.sequence
  OBVIOUS
<1>7. n \in 1..MaxSequence /\ transport.lastSequence \in 0..MaxSequence
  BY <1>1, <1>6 DEF Envelope, DeliveryInv, TypeOK, TransportTypeOK, Transports
<1>. HIDE DEF e
\* The other events of the stream come later.
<1>8. /\ n <= next_sequence
      /\ \A i \in EventsIn(Inbox') : Inbox'[i].envelope.sequence > n
      /\ \A j \in DOMAIN Queued : Queued[j].sequence > n
      /\ \A i \in DOMAIN Outbox : ~AsksReplay(Outbox[i])
  <2>1. \A i \in EventsIn(Inbox') : 1 < i + 1
    BY <1>5
  <2>2. \A i \in EventsIn(Inbox') : Inbox[1].envelope.sequence < Inbox[i + 1].envelope.sequence
    BY <1>4, <1>5, <2>1 DEF DeliveryInv, Stream
  <2>3. /\ Inbox[1].envelope.sequence <= next_sequence
        /\ \A j \in DOMAIN Queued : Inbox[1].envelope.sequence < Queued[j].sequence
    BY <1>4, <1>5 DEF DeliveryInv, Stream
  <2>4. \A i \in DOMAIN Outbox : ~AsksReplay(Outbox[i])
    BY <1>4, <1>5 DEF DeliveryInv, ReplayFirst
  <2>5. \A i \in EventsIn(Inbox') : Inbox'[i].envelope.sequence > n
    <3>. TAKE i \in EventsIn(Inbox')
    <3>1. i + 1 \in EventsIn(Inbox) /\ Inbox'[i] = Inbox[i + 1]
      BY <1>5
    <3>2. Inbox[i + 1].envelope.sequence \in Int
      <4>1. Inbox[i + 1] \in Messages /\ Inbox[i + 1].type = "event"
        BY <1>4, <3>1 DEF EventsIn
      <4>2. Inbox[i + 1].envelope \in Envelope
        BY <4>1, MessageTyped
      <4>. QED
        BY <4>2 DEF Envelope
    <3>3. n < Inbox[i + 1].envelope.sequence
      BY <1>5, <1>6, <2>2
    <3>. QED
      BY <1>7, <3>1, <3>2, <3>3
  <2>6. \A j \in DOMAIN Queued : Queued[j].sequence > n
    <3>. TAKE j \in DOMAIN Queued
    <3>1. Queued[j] \in Envelope
      BY <1>4 DEF DeliveryInv, TypeOK, BusTypeOK, Queued, Live
    <3>2. Queued[j].sequence \in Int
      BY <3>1 DEF Envelope
    <3>3. n < Queued[j].sequence
      BY <1>5, <1>6, <2>3
    <3>. QED
      BY <1>7, <3>2, <3>3
  <2>. QED
    BY <1>5, <1>6, <2>3, <2>4, <2>5, <2>6
\* What came after p still does.
<1>9. ASSUME NEW p, Above(p) \/ p = n
      PROVE  /\ \A i \in EventsIn(Inbox') : Inbox'[i].envelope.sequence > p
             /\ \A j \in DOMAIN Queued' : Queued'[j].sequence > p
             /\ \A i \in DOMAIN Outbox' : AsksReplay(Outbox'[i]) => Outbox'[i].since >= p
  BY <1>4, <1>5, <1>8, <1>9 DEF Above
<1>10. BusInv'
  BY <1>2, BusStutters DEF DeliveryInv
<1>11. TransportTypeOK' /\ OneSocket' /\ Waits'
  BY <1>1 DEF Sound, Lives, TransportTypeOK, OneSocket, Waits, Live, LiveStates
<1>12. /\ owed' \subseteq owed /\ carried' \in BOOLEAN
       /\ ~carried' => ~carried \/ transport'.lastSequence = 0
  <2>1. owed' \subseteq owed /\ carried' \in BOOLEAN
    BY <1>2 DEF Account, StillOwed
  <2>2. carried' = ((carried \/ FALSE) /\ transport'.lastSequence > 0)
    BY <1>2 DEF Account
  <2>3. transport'.lastSequence > 0 \/ transport'.lastSequence = 0
    BY <1>1, <1>6, <1>7
  <2>4. ~carried' => ~carried \/ transport'.lastSequence = 0
    BY <2>2, <2>3, Zenon
  <2>. QED
    BY <2>1, <2>4
<1>13. delivered' \in Seq((0..MaxRestarts) \X (1..MaxSequence))
  <2>1. /\ delivered \in Seq((0..MaxRestarts) \X (1..MaxSequence))
        /\ <<restarts, e.sequence>> \in (0..MaxRestarts) \X (1..MaxSequence)
    BY <1>6, <1>7 DEF DeliveryInv, TypeOK
  <2>. QED
    BY <1>2, <2>1
<1>14. TypeOK'
  BY <1>2, <1>10, <1>11, <1>12, <1>13 DEF DeliveryInv, TypeOK, BusInv, netVars, serverVars
<1>15. KnownSessions' /\ CurrentScope' /\ Fresh'
  BY <1>1, <1>3, <1>4, <1>12 DEF DeliveryInv, KnownSessions, CurrentScope, Fresh
<1>16. ReplayFirst'
  BY <1>4, <1>8 DEF DeliveryInv, ReplayFirst, AsksReplay
<1>17. Stream'
  <2>1. \A i, j \in EventsIn(Inbox') : i < j => Inbox'[i].envelope.sequence < Inbox'[j].envelope.sequence
    <3>. SUFFICES ASSUME NEW i \in EventsIn(Inbox'), NEW j \in EventsIn(Inbox'), i < j
                  PROVE  Inbox'[i].envelope.sequence < Inbox'[j].envelope.sequence
      OBVIOUS
    <3>1. i + 1 < j + 1 /\ i + 1 \in EventsIn(Inbox) /\ j + 1 \in EventsIn(Inbox)
      BY <1>5
    <3>2. Inbox[i + 1].envelope.sequence < Inbox[j + 1].envelope.sequence
      BY <1>4, <3>1 DEF DeliveryInv, Stream
    <3>. QED
      BY <1>5, <3>2
  <2>. QED
    BY <1>3, <1>4, <1>5, <2>1 DEF DeliveryInv, Stream, EventsIn
<1>18. InOrderOnce' /\ DeliveredBefore'
  <2>1. ASSUME NEW i \in DOMAIN delivered
        PROVE  /\ delivered[i][1] <= restarts
               /\ delivered[i][1] = restarts =>
                  /\ delivered[i][2] <= next_sequence
                  /\ transport'.lastSequence = 0 \/ delivered[i][2] <= transport'.lastSequence
                  /\ delivered[i][2] < n
                  /\ \A j \in EventsIn(Inbox') : Inbox'[j].envelope.sequence > delivered[i][2]
                  /\ \A j \in DOMAIN Queued' : Queued'[j].sequence > delivered[i][2]
                  /\ \A j \in DOMAIN Outbox' : AsksReplay(Outbox'[j]) => Outbox'[j].since >= delivered[i][2]
    <3>1. PICK p : p = delivered[i][2]
      OBVIOUS
    <3>2. p \in 1..MaxSequence
      BY <3>1 DEF DeliveryInv, TypeOK
    <3>3. /\ delivered[i][1] <= restarts
          /\ delivered[i][1] = restarts =>
                /\ p <= next_sequence
                /\ transport.lastSequence = 0 \/ p <= transport.lastSequence
                /\ Above(p)
      BY <3>1 DEF DeliveryInv, DeliveredBefore
    <3>4. Above(p) => p < n
      <4>1. Above(p) => Inbox[1].envelope.sequence > p
        BY <1>4, <1>5 DEF Above
      <4>. QED
        BY <1>5, <1>6, <1>7, <3>2, <4>1
    <3>5. Above(p) => transport'.lastSequence = 0 \/ p <= transport'.lastSequence
               \/ ~(transport.lastSequence = 0 \/ p <= transport.lastSequence)
      BY <1>1, <1>6, <1>7, <3>2, <3>4
    <3>. QED
      BY <1>9, <3>1, <3>3, <3>4, <3>5
  <2>2. CASE delivered' = delivered
    <3>1. InOrderOnce'
      BY <2>2 DEF DeliveryInv, InOrderOnce
    <3>2. DeliveredBefore'
      BY <1>3, <2>1, <2>2 DEF DeliveredBefore, Above, EventsIn, AsksReplay
    <3>. QED
      BY <3>1, <3>2
  <2>3. CASE delivered' = Append(delivered, <<restarts, n>>) /\ n > transport.lastSequence
    <3>1. /\ Len(delivered) \in Nat /\ DOMAIN delivered = 1..Len(delivered)
          /\ DOMAIN delivered' = 1..(Len(delivered) + 1)
          /\ \A i \in 1..Len(delivered) : delivered'[i] = delivered[i]
          /\ delivered'[Len(delivered) + 1] = <<restarts, n>>
      BY <2>3 DEF DeliveryInv, TypeOK
    <3>2. \A i \in 1..Len(delivered) : /\ delivered[i][1] \in 0..MaxRestarts
                                       /\ delivered[i][2] \in 1..MaxSequence
      BY <3>1 DEF DeliveryInv, TypeOK
    <3>3. restarts \in Nat
      BY DEF DeliveryInv, TypeOK
    <3>4. InOrderOnce'
      <4>. SUFFICES ASSUME NEW i \in DOMAIN delivered', NEW j \in DOMAIN delivered', i < j
                    PROVE  \/ delivered'[i][1] < delivered'[j][1]
                           \/ delivered'[i][1] = delivered'[j][1] /\ delivered'[i][2] < delivered'[j][2]
        BY DEF InOrderOnce
      <4>1. i \in DOMAIN delivered
        BY <3>1
      <4>2. CASE j \in DOMAIN delivered
        BY <3>1, <4>1, <4>2 DEF DeliveryInv, InOrderOnce
      <4>3. CASE j = Len(delivered) + 1
        BY <2>1, <3>1, <3>2, <3>3, <4>1, <4>3
      <4>. QED
        BY <3>1, <4>2, <4>3
    <3>5. transport'.lastSequence = n
      BY <1>1, <1>6, <2>3
    <3>6. \A i \in DOMAIN delivered' :
            /\ delivered'[i][1] <= restarts
            /\ delivered'[i][1] = restarts =>
                  /\ delivered'[i][2] <= next_sequence
                  /\ transport'.lastSequence = 0 \/ delivered'[i][2] <= transport'.lastSequence
                  /\ \A j \in EventsIn(Inbox') : Inbox'[j].envelope.sequence > delivered'[i][2]
                  /\ \A j \in DOMAIN Queued' : Queued'[j].sequence > delivered'[i][2]
                  /\ \A j \in DOMAIN Outbox' : AsksReplay(Outbox'[j]) => Outbox'[j].since >= delivered'[i][2]
      <4>. TAKE i \in DOMAIN delivered'
      <4>1. CASE i \in DOMAIN delivered
        BY <2>1, <3>1, <4>1
      <4>2. CASE i = Len(delivered) + 1
        <5>1. delivered'[i][1] = restarts /\ delivered'[i][2] = n
          BY <3>1, <4>2
        <5>. QED
          BY <1>7, <1>8, <1>9, <3>3, <3>5, <5>1
      <4>. QED
        BY <3>1, <4>1, <4>2
    <3>7. DeliveredBefore'
      BY <1>3, <3>6 DEF DeliveredBefore, Above, EventsIn, AsksReplay
    <3>. QED
      BY <3>4, <3>7
  <2>. QED
    BY <1>2, <1>6, <2>2, <2>3
<1>19. LastSequenceInSession'
  <2>1. PICK p : p = transport'.lastSequence
    OBVIOUS
  <2>2. next_sequence \in Nat
    BY DEF DeliveryInv, TypeOK, BusTypeOK
  <2>3. ASSUME p <= next_sequence, Above(p) \/ p = n
        PROVE  LastSequenceInSession'
    <3>1. Above(transport.lastSequence)'
      BY <1>9, <2>1, <2>3 DEF Above, EventsIn, AsksReplay
    <3>. QED
      BY <1>3, <2>1, <2>3, <3>1 DEF LastSequenceInSession
  <2>4. CASE p = n
    BY <1>8, <2>3, <2>4
  <2>5. CASE p = 0
    BY <2>2, <2>3, <2>5, AboveZero DEF DeliveryInv
  <2>6. CASE p # n /\ p # 0
    <3>1. p = transport.lastSequence
      BY <1>1, <1>6, <2>1, <2>6
    <3>2. CASE /\ ~carried /\ transport.session # NoSession
               /\ transport.session = cookie \/ \E c \in ConnIds : scope[c] = transport.session
      <4>1. p <= next_sequence /\ Above(p)
        BY <3>1, <3>2 DEF DeliveryInv, LastSequenceInSession
      <4>. QED
        BY <2>3, <4>1
    <3>3. CASE ~(/\ ~carried /\ transport.session # NoSession
                 /\ transport.session = cookie \/ \E c \in ConnIds : scope[c] = transport.session)
      BY <1>1, <1>3, <1>12, <2>1, <2>6, <3>3 DEF LastSequenceInSession
    <3>. QED
      BY <3>2, <3>3
  <2>. QED
    BY <2>4, <2>5, <2>6
<1>20. ServesSubscribed'
  <2>1. Client!IsOpen(transport)' => Client!IsOpen(transport)
    BY <1>4
  <2>2. Client!subscribedEvents(transport)' = Client!subscribedEvents(transport)
    BY <1>1 DEF Client!subscribedEvents
  <2>3. Connected(transport.socket)' => Connected(transport.socket)
    BY <1>1, <1>3 DEF Connected
  <2>4. \A a : WillServe(a) => WillServe(a)'
    BY <1>1, <1>3, <1>4 DEF WillServe, About
  <2>. QED
    BY <2>1, <2>2, <2>3, <2>4 DEF DeliveryInv, ServesSubscribed
<1>21. PromisesKept'
  <2>. SUFFICES ASSUME NEW o \in owed', o.seen
                PROVE  Promised(o)'
    BY DEF PromisesKept
  <2>1. o \in owed /\ Promised(o)
    BY <1>12 DEF DeliveryInv, PromisesKept
  <2>2. DOMAIN delivered \subseteq DOMAIN delivered' /\ \A i \in DOMAIN delivered : delivered'[i] = delivered[i]
    BY <1>2, SMTT(30) DEF DeliveryInv, TypeOK
  <2>3. Replayable(o)' => Replayable(o)
    BY <1>3, <2>2 DEF Replayable, HasDelivered
  <2>4. o.envelope.sequence \in 1..MaxSequence
    BY <2>1 DEF DeliveryInv, TypeOK, Envelope
  <2>5. ASSUME Replayable(o)'
        PROVE  transport'.lastSequence < o.envelope.sequence /\ Coming(o.envelope)'
    <3>1. o.envelope.sequence > transport.lastSequence /\ Coming(o.envelope)
      BY <1>4, <2>1, <2>3, <2>5 DEF Promised
    <3>2. o.envelope # e
      <4>. SUFFICES ASSUME o.envelope = e PROVE FALSE
        OBVIOUS
      <4>1. e.sequence > transport.lastSequence /\ e.event \in Client!subscribedEvents(transport)
        BY <1>6, <1>7, <2>1, <3>1 DEF Promised
      <4>2. delivered' = Append(delivered, <<restarts, e.sequence>>)
        BY <1>2, <4>1
      <4>3. \E i \in DOMAIN delivered' : delivered'[i] = <<restarts, e.sequence>>
        <5>1. /\ Len(delivered) + 1 \in DOMAIN delivered'
              /\ delivered'[Len(delivered) + 1] = <<restarts, e.sequence>>
          BY <4>2 DEF DeliveryInv, TypeOK
        <5>. QED
          BY <5>1
      <4>. QED
        BY <1>3, <2>5, <4>3 DEF Replayable, HasDelivered
    <3>3. CASE \E i \in EventsIn(Inbox) : Inbox[i].envelope = o.envelope
      <4>1. PICK i \in EventsIn(Inbox) : Inbox[i].envelope = o.envelope
        BY <3>3
      <4>2. i # 1
        BY <1>5, <3>2, <4>1
      <4>3. i - 1 \in EventsIn(Inbox') /\ Inbox'[i - 1] = Inbox[i]
        BY <1>5, <4>1, <4>2
      <4>4. o.envelope.sequence > n
        BY <1>8, <4>1, <4>3
      <4>5. transport'.lastSequence < o.envelope.sequence
        BY <1>1, <1>6, <1>7, <2>4, <3>1, <4>4
      <4>. QED
        BY <4>1, <4>3, <4>5 DEF Coming, EventsIn
    <3>4. CASE ~\E i \in EventsIn(Inbox) : Inbox[i].envelope = o.envelope
      <4>1. /\ \A i \in EventsIn(Inbox) : Inbox[i].envelope.sequence < o.envelope.sequence
            /\ \/ ~Connected(transport.socket)
               \/ \E j \in DOMAIN Queued : Queued[j] = o.envelope
               \/ \E i \in DOMAIN Outbox :
                     /\ AsksReplay(Outbox[i])
                     /\ o.envelope.event \in Outbox[i].events
                     /\ Outbox[i].since < o.envelope.sequence
        BY <3>1, <3>4 DEF Coming
      <4>2. n < o.envelope.sequence
        BY <1>5, <1>6, <4>1
      <4>3. transport'.lastSequence < o.envelope.sequence
        BY <1>1, <1>6, <1>7, <2>4, <3>1, <4>2
      <4>4. Connected(transport.socket)' => Connected(transport.socket)
        BY <1>1, <1>3 DEF Connected
      <4>5. \A i \in EventsIn(Inbox') : Inbox'[i].envelope.sequence < o.envelope.sequence
        BY <1>5, <4>1
      <4>6. Coming(o.envelope)'
        BY <1>4, <4>1, <4>4, <4>5 DEF Coming, EventsIn, AsksReplay
      <4>. QED
        BY <4>3, <4>6
    <3>. QED
      BY <3>3, <3>4
  <2>6. transport'.lastSequence > 0
    BY <1>1, <1>6, <1>7, <2>1 DEF Promised
  <2>. QED
    BY <1>1, <1>3, <2>1, <2>4, <2>5, <2>6 DEF Promised, Client!subscribedEvents
<1>. QED
  BY <1>10, <1>11, <1>14, <1>15, <1>16, <1>17, <1>18, <1>19, <1>20, <1>21 DEF DeliveryInv

-----------------------------------------------------------------------------
(***************************************************************************)
(* The steps of the server, of the bus and of the network.                 *)
(***************************************************************************)
LEMMA ReplyShape ==
    ASSUME NEW t, Sound(t), NEW k \in ConnIds, NEW messages \in Seq(Messages)
    PROVE  LET u == Reply(t, k, messages) IN
           /\ Sound(u)
           /\ u.session = t.session
           /\ u.handlers = t.handlers
           /\ u.socket = t.socket
           /\ u.lastSequence = t.lastSequence
           /\ u.readyState = t.readyState
           /\ u.outbox = t.outbox
           /\ \A j \in ConnIds \ {k} : u.inbox[j] = t.inbox[j]
           /\ u.inbox[k] = IF t.readyState[k] \in {"upgraded", "open"} THEN t.inbox[k] \o messages
                           ELSE t.inbox[k]
<1>. DEFINE u == Reply(t, k, messages)
            i == [t.inbox EXCEPT ![k] = t.inbox[k] \o messages]
<1>1. t \in Transports
  BY DEF Sound
<1>2. CASE t.readyState[k] \in {"upgraded", "open"}
  <2>1. t.inbox \in [ConnIds -> Seq(Messages)] /\ t.inbox[k] \o messages \in Seq(Messages)
    BY <1>1 DEF Transports
  <2>2. /\ i \in [ConnIds -> Seq(Messages)] /\ i[k] = t.inbox[k] \o messages
        /\ \A j \in ConnIds \ {k} : i[j] = t.inbox[j]
    BY <2>1
  <2>3. u = [t EXCEPT !.inbox = i]
    BY <1>2 DEF Reply
  <2>. HIDE DEF i, u
  <2>4. u \in Transports
    BY <1>1, <2>2, <2>3 DEF Transports
  <2>5. /\ u.session = t.session /\ u.initializing = t.initializing
        /\ u.handlers = t.handlers /\ u.pending = t.pending
        /\ u.socket = t.socket /\ u.connectionPromise = t.connectionPromise
        /\ u.lastSequence = t.lastSequence
        /\ u.readyState = t.readyState
        /\ u.outbox = t.outbox /\ u.inbox = i
    BY <1>1, <2>3 DEF Transports
  <2>6. Sound(u)
    BY <1>2, <2>2, <2>4, <2>5 DEF Sound, Lives, LiveStates
  <2>. QED
    BY <1>2, <2>2, <2>5, <2>6 DEF u
<1>3. CASE t.readyState[k] \notin {"upgraded", "open"}
  <2>1. u = t
    BY <1>3 DEF Reply
  <2>. HIDE DEF u
  <2>. QED
    BY <1>3, <2>1 DEF u
<1>. QED
  BY <1>2, <1>3

\* The server has read from the socket.
LEMMA ReadShape ==
    ASSUME Sound(transport), NEW k \in ConnIds, NEW unread \in Seq(Controls)
    PROVE  LET u == [transport EXCEPT !.outbox[k] = unread] IN
           /\ Sound(u)
           /\ u.session = transport.session
           /\ u.handlers = transport.handlers
           /\ u.socket = transport.socket
           /\ u.lastSequence = transport.lastSequence
           /\ u.readyState = transport.readyState
           /\ u.inbox = transport.inbox
           /\ u.outbox[k] = unread
           /\ \A j \in ConnIds \ {k} : u.outbox[j] = transport.outbox[j]
<1>. DEFINE u == [transport EXCEPT !.outbox[k] = unread]
            o == [transport.outbox EXCEPT ![k] = unread]
<1>1. transport \in Transports
  BY DEF Sound
<1>2. /\ o \in [ConnIds -> Seq(Controls)] /\ o[k] = unread
      /\ \A j \in ConnIds \ {k} : o[j] = transport.outbox[j]
  BY <1>1 DEF Transports
<1>3. u = [transport EXCEPT !.outbox = o]
  OBVIOUS
<1>. HIDE DEF u, o
<1>4. u \in Transports
  BY <1>1, <1>2, <1>3 DEF Transports
<1>5. /\ u.session = transport.session /\ u.initializing = transport.initializing
      /\ u.handlers = transport.handlers /\ u.pending = transport.pending
      /\ u.socket = transport.socket /\ u.connectionPromise = transport.connectionPromise
      /\ u.lastSequence = transport.lastSequence
      /\ u.readyState = transport.readyState
      /\ u.outbox = o /\ u.inbox = transport.inbox
  BY <1>1, <1>3 DEF Transports
<1>6. Sound(u)
  BY <1>4, <1>5 DEF Sound, Lives
<1>. QED
  BY <1>2, <1>5, <1>6 DEF u

\* The transport after its socket is lost.
LEMMA LostShape ==
    ASSUME Sound(transport), NEW k \in ConnIds, transport' = Client!Lose(transport, k)
    PROVE  /\ Sound(transport')
           /\ transport'.session = transport.session
           /\ transport'.handlers = transport.handlers
           /\ transport'.socket = transport.socket
           /\ transport'.lastSequence = transport.lastSequence
           /\ transport'.readyState[k] = "closing"
           /\ \A j \in ConnIds \ {k} :
                /\ transport'.readyState[j] = transport.readyState[j]
                /\ transport'.inbox[j] = transport.inbox[j]
                /\ transport'.outbox[j] = transport.outbox[j]
<1>1. transport \in Transports
  BY DEF Sound
<1>2. /\ transport' \in Transports
      /\ transport'.session = transport.session
      /\ transport'.handlers = transport.handlers
      /\ transport'.pending = transport.pending
      /\ transport'.initializing = transport.initializing
      /\ transport'.socket = transport.socket
      /\ transport'.connectionPromise = transport.connectionPromise
      /\ transport'.lastSequence = transport.lastSequence
      /\ transport'.readyState = [transport.readyState EXCEPT ![k] = "closing"]
      /\ transport'.inbox = [transport.inbox EXCEPT ![k] = <<>>]
      /\ transport'.outbox = [transport.outbox EXCEPT ![k] = <<>>]
  BY <1>1, LoseShape
<1>3. /\ transport'.readyState[k] = "closing" /\ transport'.inbox[k] = <<>>
      /\ \A j \in ConnIds \ {k} :
                /\ transport'.readyState[j] = transport.readyState[j]
                /\ transport'.inbox[j] = transport.inbox[j]
                /\ transport'.outbox[j] = transport.outbox[j]
  BY <1>1, <1>2 DEF Transports
<1>4. Sound(transport')
  BY <1>2, <1>3 DEF Sound, Lives, LiveStates
<1>. QED
  BY <1>2, <1>3, <1>4

\* The socket's stream is as it was, or the server has left the socket.
Kept ==
    /\ Inbox' = Inbox
    /\ Outbox' = Outbox
    /\ scope'[transport.socket] = scope[transport.socket]
    /\ Queued' = Queued
    /\ subscriptions'[transport.socket] = subscriptions[transport.socket]

Cut ==
    /\ transport.readyState[transport.socket] # "connecting"
    /\ ~Connected(transport.socket)'
    /\ scope'[transport.socket] \in {scope[transport.socket], NoSession}
    /\ Shifted(Inbox, Inbox', 0)
    /\ Outbox = <<>> => Outbox' = <<>>
    /\ \A i \in DOMAIN Outbox' : i > 0 /\ i + 1 \in DOMAIN Outbox /\ Outbox'[i] = Outbox[i + 1]
    /\ Queued' \in {Queued, <<>>}
    /\ subscriptions'[transport.socket] \in {subscriptions[transport.socket], {}}

\* The bus publishes nothing, and adds no session and no connection.
BusShrinks ==
    /\ next_sequence' = next_sequence
    /\ sessions' \subseteq sessions
    /\ \A s \in sessions' : authorization'[s] = authorization[s]
    /\ \A s \in SessionIds : connections'[s] \subseteq connections[s]
    /\ \A s \in SessionIds : history'[s] \in {history[s], <<>>}
    /\ \A k \in ConnIds : scope'[k] \in {scope[k], NoSession}
    /\ \A k \in ConnIds : scope'[k] = NoSession => queue'[k] = <<>> /\ subscriptions'[k] = {}

\* A session that begins has an id of its own.
StoreMoves ==
    /\ cookie' \in {cookie, NoSession} \cup (SessionIds \ issued)
    /\ cookie' \in issued' \cup {NoSession}
    /\ issued \subseteq issued' /\ issued' \subseteq SessionIds
    /\ ending' \subseteq issued' /\ requests' \subseteq issued'
    /\ losses' \in 0..MaxLosses /\ ends' \in 0..MaxEnds /\ sent' \in 0..MaxRequests

Aside ==
    /\ Sound(transport')
    /\ transport'.session = transport.session
    /\ transport'.handlers = transport.handlers
    /\ transport'.lastSequence = transport.lastSequence
    /\ Live' => /\ Live
                /\ transport'.socket = transport.socket
                /\ transport'.readyState[transport.socket] = transport.readyState[transport.socket]
                /\ Kept \/ Cut
    /\ BusInv'
    /\ BusShrinks
    /\ StoreMoves
    /\ UNCHANGED <<restarts, delivered, owed, carried>>

\* Such a step leaves of the stream what it does not cut.
LEMMA AsideStream ==
    ASSUME DeliveryInv, Aside, Live'
    PROVE  /\ Shifted(Inbox, Inbox', 0)
           /\ Queued' \in {Queued, <<>>}
           /\ \A i \in DOMAIN Outbox' : AsksReplay(Outbox'[i]) =>
                i \in DOMAIN Outbox /\ Outbox'[i] = Outbox[i] /\ Queued' = Queued
           /\ Connected(transport.socket)' => Connected(transport.socket) /\ Kept
<1>1. Live /\ transport'.socket = transport.socket /\ (Kept \/ Cut)
  BY DEF Aside
<1>2. Inbox \in Seq(Messages)
  BY <1>1 DEF DeliveryInv, TypeOK, TransportTypeOK, Transports, Inbox, Live
<1>3. CASE Kept
  <2>1. Connected(transport.socket)' => Connected(transport.socket)
    <3>1. scope'[transport.socket] = scope[transport.socket]
      BY <1>3 DEF Kept
    <3>2. scope[transport.socket] \in SessionIds \cup {NoSession}
      BY <1>1 DEF DeliveryInv, TypeOK, BusTypeOK, Live
    <3>. QED
      BY <1>1, <3>1, <3>2 DEF Connected, Aside, BusShrinks
  <2>. QED
    BY <1>2, <1>3, <2>1, NotShifted DEF Kept
<1>4. CASE Cut
  <2>1. \A i \in DOMAIN Outbox' : ~AsksReplay(Outbox'[i])
    <3>. TAKE i \in DOMAIN Outbox'
    <3>1. i > 0 /\ i + 1 \in DOMAIN Outbox /\ Outbox'[i] = Outbox[i + 1]
      BY <1>4 DEF Cut
    <3>2. AsksReplay(Outbox[i + 1]) => i + 1 = 1
      BY <1>1, <3>1 DEF DeliveryInv, ReplayFirst
    <3>3. i \in Int
      <4>1. Outbox' \in Seq(Controls)
        BY <1>1 DEF Aside, Sound, Transports, Outbox, Live
      <4>. QED
        BY <4>1
    <3>. QED
      BY <3>1, <3>2, <3>3
  <2>. QED
    BY <1>1, <1>4, <2>1 DEF Cut
<1>. QED
  BY <1>1, <1>3, <1>4

\* In a step aside, what is above a number stays above it.
LEMMA AsideAbove ==
    ASSUME DeliveryInv, Aside, NEW n, Above(n)
    PROVE  Live' => /\ \A i \in EventsIn(Inbox') : Inbox'[i].envelope.sequence > n
                    /\ \A j \in DOMAIN Queued' : Queued'[j].sequence > n
                    /\ \A i \in DOMAIN Outbox' : AsksReplay(Outbox'[i]) => Outbox'[i].since >= n
<1>. SUFFICES ASSUME Live'
              PROVE  /\ \A i \in EventsIn(Inbox') : Inbox'[i].envelope.sequence > n
                     /\ \A j \in DOMAIN Queued' : Queued'[j].sequence > n
                     /\ \A i \in DOMAIN Outbox' : AsksReplay(Outbox'[i]) => Outbox'[i].since >= n
  OBVIOUS
<1>1. Live
  BY DEF Aside
<1>. QED
  BY <1>1, AsideStream DEF Above, Shifted

\* A step aside preserves the invariant.
LEMMA AsideInv ==
    ASSUME DeliveryInv, Aside
    PROVE  DeliveryInv'
<1>. USE DEF Aside
<1>1. TransportTypeOK' /\ OneSocket' /\ Waits'
  BY DEF Sound, Lives, TransportTypeOK, OneSocket, Waits, Live, LiveStates
<1>2. TypeOK'
  BY <1>1 DEF DeliveryInv, TypeOK, BusInv, StoreMoves
<1>3. KnownSessions'
  <2>1. \A k \in ConnIds : scope'[k] \in issued' \cup {NoSession}
    BY DEF DeliveryInv, KnownSessions, BusShrinks, StoreMoves
  <2>. QED
    BY <2>1 DEF DeliveryInv, KnownSessions, BusShrinks, StoreMoves
<1>4. Live' => scope'[transport.socket] \in {scope[transport.socket], NoSession}
  BY DEF Kept, Cut
<1>5. CurrentScope'
  <2>. SUFFICES ASSUME Live', scope'[transport.socket] \notin {NoSession, cookie'}
                PROVE  cookie' \notin sessions'
    BY DEF CurrentScope
  <2>1. Live /\ scope[transport.socket] \notin {NoSession, cookie'}
    BY <1>4
  <2>2. CASE cookie' = cookie
    BY <2>1, <2>2 DEF DeliveryInv, CurrentScope, BusShrinks
  <2>3. CASE cookie' = NoSession
    BY <2>3, DistinctAssumption DEF DeliveryInv, TypeOK, BusTypeOK, BusShrinks
  <2>4. CASE cookie' \in SessionIds \ issued
    BY <2>4 DEF DeliveryInv, KnownSessions, BusShrinks
  <2>. QED
    BY <2>2, <2>3, <2>4 DEF StoreMoves
<1>6. Fresh'
  <2>. SUFFICES ASSUME Live'
                PROVE  /\ transport'.readyState[transport'.socket] = "connecting" =>
                            scope'[transport'.socket] = NoSession /\ Inbox' = <<>> /\ Outbox' = <<>>
                       /\ transport'.readyState[transport'.socket] = "upgraded" =>
                            /\ Outbox' = <<>> /\ EventsIn(Inbox') = {}
                            /\ Queued' = <<>> /\ subscriptions'[transport'.socket] = {}
    BY DEF Fresh, BusShrinks, EventsIn
  <2>1. Live /\ transport'.socket = transport.socket
        /\ transport'.readyState[transport.socket] = transport.readyState[transport.socket]
    OBVIOUS
  <2>2. Shifted(Inbox, Inbox', 0)
    BY AsideStream
  <2>3. CASE transport.readyState[transport.socket] = "connecting"
    BY <1>4, <2>1, <2>3 DEF DeliveryInv, Fresh, Kept, Cut
  <2>4. CASE transport.readyState[transport.socket] = "upgraded"
    <3>1. Outbox = <<>> /\ EventsIn(Inbox) = {} /\ Queued = <<>> /\ subscriptions[transport.socket] = {}
      BY <2>1, <2>4 DEF DeliveryInv, Fresh
    <3>2. EventsIn(Inbox') = {}
      BY <2>2, <3>1 DEF Shifted
    <3>. QED
      BY <2>1, <2>4, <3>1, <3>2 DEF Kept, Cut
  <2>. QED
    BY <2>1, <2>3, <2>4
<1>7. ReplayFirst'
  <2>. SUFFICES ASSUME Live', NEW i \in DOMAIN Outbox'
                PROVE  /\ Outbox'[i].type # "close" =>
                            Outbox'[i].events \subseteq {EventOf[h] : h \in Handlers}
                       /\ AsksReplay(Outbox'[i]) =>
                            /\ i = 1
                            /\ transport'.lastSequence \in {0, Outbox'[i].since}
                            /\ EventsIn(Inbox') = {}
                            /\ Queued' = <<>> /\ subscriptions'[transport'.socket] = {}
    BY DEF ReplayFirst, AsksReplay, EventsIn
  <2>1. Live
    OBVIOUS
  <2>2. \E j \in DOMAIN Outbox : Outbox'[i] = Outbox[j]
    BY DEF Kept, Cut
  <2>3. Outbox'[i].type # "close" => Outbox'[i].events \subseteq {EventOf[h] : h \in Handlers}
    BY <2>1, <2>2 DEF DeliveryInv, ReplayFirst
  <2>4. ASSUME AsksReplay(Outbox'[i])
        PROVE  /\ i = 1
               /\ transport'.lastSequence \in {0, Outbox'[i].since}
               /\ EventsIn(Inbox') = {}
               /\ Queued' = <<>> /\ subscriptions'[transport'.socket] = {}
    <3>1. /\ i \in DOMAIN Outbox /\ Outbox'[i] = Outbox[i] /\ Queued' = Queued
          /\ Shifted(Inbox, Inbox', 0)
      BY <2>4, AsideStream
    <3>2. /\ i = 1 /\ transport.lastSequence \in {0, Outbox[i].since}
          /\ EventsIn(Inbox) = {} /\ Queued = <<>> /\ subscriptions[transport.socket] = {}
      BY <2>1, <2>4, <3>1 DEF DeliveryInv, ReplayFirst
    <3>3. EventsIn(Inbox') = {}
      BY <3>1, <3>2 DEF Shifted
    <3>. QED
      BY <3>1, <3>2, <3>3 DEF Kept, Cut
  <2>. QED
    BY <2>3, <2>4
<1>8. Stream'
  <2>. SUFFICES ASSUME Live'
                PROVE  /\ \A i, j \in EventsIn(Inbox') :
                            i < j => Inbox'[i].envelope.sequence < Inbox'[j].envelope.sequence
                       /\ \A i \in EventsIn(Inbox') :
                            /\ Inbox'[i].envelope.sequence <= next_sequence
                            /\ \A j \in DOMAIN Queued' : Inbox'[i].envelope.sequence < Queued'[j].sequence
    BY DEF Stream, EventsIn, BusShrinks
  <2>1. Live /\ Shifted(Inbox, Inbox', 0) /\ Queued' \in {Queued, <<>>}
    BY AsideStream
  <2>2. \A i \in EventsIn(Inbox') : i \in EventsIn(Inbox) /\ Inbox'[i] = Inbox[i]
    <3>1. Inbox' \in Seq(Messages)
      BY DEF Sound, Transports, Inbox, Live
    <3>2. \A i \in EventsIn(Inbox') : i + 0 = i
      BY <3>1 DEF EventsIn
    <3>. QED
      BY <2>1, <3>2 DEF Shifted
  <2>. QED
    BY <2>1, <2>2 DEF DeliveryInv, Stream
<1>9. InOrderOnce'
  BY DEF DeliveryInv, InOrderOnce
<1>10. DeliveredBefore'
  <2>1. ASSUME NEW i \in DOMAIN delivered
        PROVE  /\ delivered[i][1] <= restarts
               /\ delivered[i][1] = restarts =>
                  /\ delivered[i][2] <= next_sequence
                  /\ transport'.lastSequence = 0 \/ delivered[i][2] <= transport'.lastSequence
                  /\ Live' => /\ \A j \in EventsIn(Inbox') : Inbox'[j].envelope.sequence > delivered[i][2]
                              /\ \A j \in DOMAIN Queued' : Queued'[j].sequence > delivered[i][2]
                              /\ \A j \in DOMAIN Outbox' : AsksReplay(Outbox'[j]) => Outbox'[j].since >= delivered[i][2]
    <3>1. PICK n : n = delivered[i][2]
      OBVIOUS
    <3>2. /\ delivered[i][1] <= restarts
          /\ delivered[i][1] = restarts =>
               n <= next_sequence /\ (transport.lastSequence = 0 \/ n <= transport.lastSequence) /\ Above(n)
      BY <3>1 DEF DeliveryInv, DeliveredBefore
    <3>. QED
      BY <3>1, <3>2, AsideAbove
  <2>. QED
    BY <2>1 DEF DeliveredBefore, Above, EventsIn, AsksReplay, BusShrinks
<1>11. LastSequenceInSession'
  <2>. SUFFICES ASSUME ~carried, transport.session # NoSession,
                       transport.session = cookie' \/ \E k \in ConnIds : scope'[k] = transport.session
                PROVE  transport.lastSequence <= next_sequence /\ Above(transport.lastSequence)'
    <3>1. /\ carried' = carried /\ next_sequence' = next_sequence
          /\ transport'.session = transport.session /\ transport'.lastSequence = transport.lastSequence
      BY DEF BusShrinks
    <3>. HIDE DEF Aside
    <3>. QED
      BY <3>1 DEF LastSequenceInSession
  <2>1. transport.session \in issued
    BY DEF DeliveryInv, KnownSessions
  <2>2. transport.session = cookie \/ \E k \in ConnIds : scope[k] = transport.session
    BY <2>1 DEF StoreMoves, BusShrinks
  <2>3. transport.lastSequence <= next_sequence /\ Above(transport.lastSequence)
    BY <2>2 DEF DeliveryInv, LastSequenceInSession
  <2>4. PICK n : n = transport.lastSequence
    OBVIOUS
  <2>5. Live' => /\ \A j \in EventsIn(Inbox') : Inbox'[j].envelope.sequence > n
                 /\ \A j \in DOMAIN Queued' : Queued'[j].sequence > n
                 /\ \A j \in DOMAIN Outbox' : AsksReplay(Outbox'[j]) => Outbox'[j].since >= n
    BY <2>3, <2>4, AsideAbove
  <2>6. transport'.lastSequence = n
    BY <2>4
  <2>. HIDE DEF Aside
  <2>. QED
    BY <2>3, <2>4, <2>5, <2>6 DEF Above, EventsIn, AsksReplay
<1>12. Client!IsOpen(transport)' => Live' /\ Client!IsOpen(transport) /\ transport'.socket = transport.socket
  BY TabAssumption DEF Client!IsOpen, Live, LiveStates, Sound, Transports
<1>13. Client!subscribedEvents(transport') = Client!subscribedEvents(transport)
  BY DEF Client!subscribedEvents
<1>14. ServesSubscribed'
  <2>. SUFFICES ASSUME Client!IsOpen(transport)', Connected(transport.socket)',
                       NEW e \in Client!subscribedEvents(transport)
                PROVE  WillServe(e)'
    BY <1>13 DEF ServesSubscribed
  <2>1. Connected(transport.socket) /\ Kept /\ Client!IsOpen(transport) /\ transport'.socket = transport.socket
    BY <1>12, AsideStream
  <2>2. WillServe(e)
    BY <2>1 DEF DeliveryInv, ServesSubscribed
  <2>. QED
    BY <2>1, <2>2 DEF WillServe, About, Kept
<1>15. PromisesKept'
  <2>. SUFFICES ASSUME NEW o \in owed, o.seen
                PROVE  Promised(o)'
    BY DEF PromisesKept
  <2>1. Promised(o) /\ o.session \in issued
    BY DEF DeliveryInv, PromisesKept, KnownSessions, Promised
  <2>2. Replayable(o)' => Replayable(o)
    <3>. SUFFICES ASSUME Replayable(o)' PROVE Replayable(o)
      OBVIOUS
    <3>1. o.session = cookie' /\ o.session # NoSession
      BY <2>1 DEF Replayable, Promised
    <3>2. o.session = cookie /\ o.session \in SessionIds
      BY <2>1, <3>1 DEF StoreMoves
    <3>3. history'[o.session] # <<>>
      BY DEF Replayable
    <3>4. history'[o.session] = history[o.session]
      BY <3>2, <3>3 DEF BusShrinks
    <3>. QED
      BY <3>2, <3>4 DEF Replayable, HasDelivered
  <2>3. ASSUME Client!IsOpen(transport)', Client!IsOpen(transport) => Coming(o.envelope)
        PROVE  Coming(o.envelope)'
    <3>1. Live' /\ Coming(o.envelope)
      BY <1>12, <2>3
    <3>2. Shifted(Inbox, Inbox', 0) /\ transport'.socket = transport.socket
      BY <3>1, AsideStream
    <3>3. CASE \E i \in EventsIn(Inbox) : Inbox[i].envelope = o.envelope
      <4>1. PICK i \in EventsIn(Inbox) : Inbox[i].envelope = o.envelope
        BY <3>3
      <4>2. i \in Int
        <5>1. Inbox \in Seq(Messages)
          BY <3>1 DEF DeliveryInv, TypeOK, TransportTypeOK, Transports, Inbox, Live
        <5>. QED
          BY <5>1 DEF EventsIn
      <4>3. i - 0 \in EventsIn(Inbox') /\ i - 0 = i /\ i + 0 = i
        BY <3>2, <4>2 DEF Shifted
      <4>4. i \in EventsIn(Inbox') /\ Inbox'[i] = Inbox[i]
        BY <3>2, <4>3 DEF Shifted
      <4>. QED
        BY <4>1, <4>4 DEF Coming, EventsIn
    <3>4. CASE ~\E i \in EventsIn(Inbox) : Inbox[i].envelope = o.envelope
      <4>1. \A i \in EventsIn(Inbox) : Inbox[i].envelope.sequence < o.envelope.sequence
        BY <3>1, <3>4 DEF Coming
      <4>2. \A i \in EventsIn(Inbox') : Inbox'[i].envelope.sequence < o.envelope.sequence
        BY <3>2, <4>1 DEF Shifted
      <4>3. CASE ~Connected(transport.socket)'
        BY <4>2, <4>3 DEF Coming, EventsIn
      <4>4. CASE Connected(transport.socket)'
        <5>1. Connected(transport.socket) /\ Kept
          BY <3>1, <4>4, AsideStream
        <5>2. \/ \E j \in DOMAIN Queued : Queued[j] = o.envelope
              \/ \E i \in DOMAIN Outbox :
                    /\ AsksReplay(Outbox[i])
                    /\ o.envelope.event \in Outbox[i].events
                    /\ Outbox[i].since < o.envelope.sequence
          BY <3>1, <3>4, <5>1 DEF Coming
        <5>. QED
          BY <4>2, <5>1, <5>2 DEF Coming, EventsIn, AsksReplay, Kept
      <4>. QED
        BY <4>3, <4>4
    <3>. QED
      BY <3>3, <3>4
  <2>. QED
    BY <1>13, <2>1, <2>2, <2>3 DEF Promised, BusShrinks
<1>. QED
  BY <1>1, <1>2, <1>3, <1>5, <1>6, <1>7, <1>8, <1>9, <1>10, <1>11, <1>14, <1>15 DEF DeliveryInv

\* What the operations of the bus leave when they only clean up.
LEMMA BusRemoves ==
    ASSUME BusInv, Fresh, UNCHANGED connVars,
           \/ UNCHANGED busVars
           \/ Tick
           \/ \E s \in SessionIds : RemoveSession(s)
           \/ \E s \in SessionIds, level \in Granted : ConnectRejected(s, level)
    PROVE  BusInv' /\ BusShrinks
<1>1. \A k \in ConnIds : scope[k] = NoSession => queue[k] = <<>> /\ subscriptions[k] = {}
  BY DEF Fresh
<1>2. CASE UNCHANGED busVars
  BY <1>1, <1>2, BusStutters DEF BusShrinks, busVars, sessionVars, connVars
<1>3. CASE Tick
  BY <1>1, <1>3, TickInv DEF BusShrinks, Tick, connVars
<1>4. CASE \E s \in SessionIds : RemoveSession(s)
  <2>1. PICK s \in SessionIds : RemoveSession(s)
    BY <1>4
  <2>2. BusInv'
    BY <2>1, RemoveSessionInv
  <2>3. BusShrinks
    BY <1>1, <2>1 DEF BusShrinks, RemoveSession, Without, connVars, BusInv, BusTypeOK
  <2>. QED
    BY <2>2, <2>3
<1>5. CASE \E s \in SessionIds, level \in Granted : ConnectRejected(s, level)
  <2>1. PICK s \in SessionIds, level \in Granted : ConnectRejected(s, level)
    BY <1>5
  <2>2. BusInv'
    BY <2>1, ConnectRejectedInv
  <2>3. BusShrinks
    BY <1>1, <2>1 DEF BusShrinks, ConnectRejected, Without, connVars, BusInv, BusTypeOK
  <2>. QED
    BY <2>2, <2>3
<1>. QED
  BY <1>2, <1>3, <1>4, <1>5

\* Disconnecting from the bus clears one connection and adds nothing anywhere.
LEMMA BusDisconnects ==
    ASSUME BusInv, Fresh, NEW k \in ConnIds, Disconnect(k)
    PROVE  /\ BusInv' /\ BusShrinks
           /\ scope[k] # NoSession
           /\ scope'[k] = NoSession /\ queue'[k] = <<>> /\ subscriptions'[k] = {}
           /\ \A j \in ConnIds \ {k} :
                scope'[j] = scope[j] /\ queue'[j] = queue[j] /\ subscriptions'[j] = subscriptions[j]
<1>1. BusInv'
  BY DisconnectInv
<1>2. /\ scope[k] # NoSession
      /\ scope'[k] = NoSession /\ queue'[k] = <<>> /\ subscriptions'[k] = {}
      /\ \A j \in ConnIds \ {k} :
                scope'[j] = scope[j] /\ queue'[j] = queue[j] /\ subscriptions'[j] = subscriptions[j]
  BY DEF Disconnect, BusInv, BusTypeOK
<1>3. BusShrinks
  <2>1. /\ \A s \in SessionIds : connections'[s] \subseteq connections[s]
        /\ UNCHANGED <<next_sequence, sessions, authorization, history>>
    BY DEF Disconnect, BusInv, BusTypeOK
  <2>2. \A j \in ConnIds : scope'[j] = NoSession => queue'[j] = <<>> /\ subscriptions'[j] = {}
    BY <1>2 DEF Fresh
  <2>. QED
    BY <1>2, <2>1, <2>2 DEF BusShrinks
<1>. QED
  BY <1>1, <1>2, <1>3

\* A step that touches neither the tab nor a connection.
LEMMA QuietInv ==
    ASSUME DeliveryInv, BusInv', BusShrinks, StoreMoves,
           UNCHANGED <<transport, connVars, restarts, deliveryVars>>
    PROVE  DeliveryInv'
<1>1. Sound(transport')
  BY SoundState DEF DeliveryInv
<1>2. Live' => Live /\ Kept
  BY DEF Live, Kept, Inbox, Outbox, Queued, connVars
<1>. QED
  BY <1>1, <1>2, AsideInv DEF Aside, connVars, deliveryVars

\* A step that leaves the session store alone moves nothing in it.
LEMMA StoreStays ==
    ASSUME TypeOK, UNCHANGED <<cookie, issued, ending, ends, requests, losses, sent>>
    PROVE  StoreMoves
BY DEF TypeOK, StoreMoves

\* Every step of the session store preserves the invariant.
LEMMA StoreSteps ==
    ASSUME DeliveryInv,
           \/ Logout \/ LoggedOut \/ Expire \/ IssueSession \/ Request \/ Idle
           \/ \E s \in SessionIds : Reclaim(s)
    PROVE  DeliveryInv'
<1>1. BusInv /\ TypeOK /\ Fresh
  BY DEF DeliveryInv
<1>2. transport.session \in issued \cup {NoSession} /\ cookie \in issued \cup {NoSession} /\ issued \subseteq SessionIds
  BY DEF DeliveryInv, KnownSessions, TypeOK
<1>3. CASE Logout
  <2>1. cookie \in issued /\ RemoveSession(cookie)
    BY <1>2, <1>3 DEF Logout
  <2>2. BusInv' /\ BusShrinks
    BY <1>1, <1>2, <2>1, BusRemoves DEF RemoveSession
  <2>3. ends' \in 0..MaxEnds
    BY <1>1, <1>3, BoundsAssumption DEF Logout, TypeOK
  <2>4. StoreMoves
    BY <1>1, <1>3, <2>1, <2>3 DEF Logout, StoreMoves, TypeOK
  <2>. QED
    BY <1>3, <2>1, <2>2, <2>4, QuietInv DEF Logout, RemoveSession
<1>4. CASE LoggedOut
  <2>1. BusInv' /\ BusShrinks
    BY <1>1, <1>4, BusRemoves DEF LoggedOut, busVars
  <2>2. StoreMoves
    BY <1>1, <1>4 DEF LoggedOut, StoreMoves, TypeOK
  <2>. QED
    BY <1>4, <2>1, <2>2, QuietInv DEF LoggedOut, busVars
<1>5. CASE Expire
  <2>1. BusInv' /\ BusShrinks
    BY <1>1, <1>5, BusRemoves DEF Expire, busVars
  <2>2. ends' \in 0..MaxEnds
    BY <1>1, <1>5, BoundsAssumption DEF Expire, TypeOK
  <2>3. StoreMoves
    BY <1>1, <1>5, <2>2 DEF Expire, StoreMoves, TypeOK
  <2>. QED
    BY <1>5, <2>1, <2>3, QuietInv DEF Expire, busVars
<1>6. CASE IssueSession
  <2>1. BusInv' /\ BusShrinks
    BY <1>1, <1>6, BusRemoves DEF IssueSession, busVars
  <2>2. StoreMoves
    BY <1>1, <1>6 DEF IssueSession, StoreMoves, TypeOK
  <2>3. restarts' = restarts
    BY <1>6 DEF IssueSession
  <2>. QED
    BY <1>6, <2>1, <2>2, QuietInv DEF IssueSession, busVars
<1>7. CASE Request
  <2>1. BusInv' /\ BusShrinks
    BY <1>1, <1>7, BusRemoves DEF Request, busVars
  <2>2. sent' \in 0..MaxRequests
    BY <1>1, <1>7, BoundsAssumption DEF Request, TypeOK
  <2>3. StoreMoves
    BY <1>1, <1>2, <1>7, <2>2 DEF Request, StoreMoves, TypeOK, serverVars
  <2>. QED
    BY <1>7, <2>1, <2>3, QuietInv DEF Request, busVars, serverVars
<1>8. CASE Idle
  <2>1. BusInv' /\ BusShrinks
    BY <1>1, <1>8, BusRemoves DEF Idle, Tick
  <2>2. StoreMoves
    BY <1>1, <1>8, StoreStays DEF Idle, netVars, serverVars
  <2>. QED
    BY <1>8, <2>1, <2>2, QuietInv DEF Idle, Tick, netVars, serverVars
<1>9. CASE \E s \in SessionIds : Reclaim(s)
  <2>1. PICK s \in SessionIds : Reclaim(s)
    BY <1>9
  <2>2. BusInv' /\ BusShrinks
    BY <1>1, <2>1, BusRemoves DEF Reclaim, RemoveSession
  <2>3. StoreMoves
    BY <1>1, <2>1 DEF Reclaim, StoreMoves, TypeOK
  <2>. QED
    BY <2>1, <2>2, <2>3, QuietInv DEF Reclaim, RemoveSession
<1>. QED
  BY <1>3, <1>4, <1>5, <1>6, <1>7, <1>8, <1>9

\* The only socket that is live is the one the transport holds.
LEMMA OnlySocket ==
    ASSUME DeliveryInv, NEW k \in ConnIds, transport.readyState[k] \in LiveStates
    PROVE  k = transport.socket /\ Live
BY DEF DeliveryInv, OneSocket, Live, LiveStates

\* The server does something with a socket that lives no more.
LEMMA AwayInv ==
    ASSUME DeliveryInv, NEW k \in ConnIds, transport.readyState[k] \notin LiveStates,
           Sound(transport'),
           transport'.session = transport.session,
           transport'.handlers = transport.handlers,
           transport'.socket = transport.socket,
           transport'.lastSequence = transport.lastSequence,
           transport'.readyState = transport.readyState,
           \A j \in ConnIds \ {k} : /\ transport'.inbox[j] = transport.inbox[j]
                                    /\ transport'.outbox[j] = transport.outbox[j]
                                    /\ scope'[j] = scope[j] /\ queue'[j] = queue[j]
                                    /\ subscriptions'[j] = subscriptions[j],
           BusInv', BusShrinks,
           UNCHANGED <<netVars, deliveryVars>>
    PROVE  DeliveryInv'
<1>1. StoreMoves
  BY StoreStays DEF netVars, serverVars, DeliveryInv
<1>2. Live' => Live /\ transport.socket \in ConnIds \ {k}
  BY DEF Live
<1>3. Live' => Kept
  BY <1>2 DEF Kept, Inbox, Outbox, Queued
<1>. QED
  BY <1>1, <1>2, <1>3, AsideInv DEF Aside, netVars, serverVars, deliveryVars

\* The server answers for the last time.
LEMMA CutInv ==
    ASSUME DeliveryInv, NEW k \in ConnIds, k = transport.socket, Live,
           scope[k] # NoSession,
           Sound(transport'),
           transport'.session = transport.session,
           transport'.handlers = transport.handlers,
           transport'.socket = transport.socket,
           transport'.lastSequence = transport.lastSequence,
           transport'.readyState = transport.readyState,
           \/ transport'.inbox[k] = transport.inbox[k]
           \/ \E m \in Messages : m.type # "event" /\ transport'.inbox[k] = transport.inbox[k] \o <<m>>,
           \/ transport'.outbox[k] = <<>>
           \/ transport.outbox[k] # <<>> /\ transport'.outbox[k] = Tail(transport.outbox[k]),
           ~Connected(k)',
           scope'[k] \in {scope[k], NoSession},
           queue'[k] \in {queue[k], <<>>},
           subscriptions'[k] \in {subscriptions[k], {}},
           BusInv', BusShrinks,
           UNCHANGED <<netVars, deliveryVars>>
    PROVE  DeliveryInv'
<1>1. StoreMoves
  BY StoreStays DEF netVars, serverVars, DeliveryInv
<1>2. Inbox \in Seq(Messages) /\ Outbox \in Seq(Controls)
  BY DEF DeliveryInv, TypeOK, TransportTypeOK, Transports, Inbox, Outbox, Live
<1>3. transport.readyState[k] # "connecting"
  BY DEF DeliveryInv, Fresh
<1>4. Shifted(Inbox, Inbox', 0)
  <2>1. CASE transport'.inbox[k] = transport.inbox[k]
    BY <1>2, <2>1, NotShifted DEF Inbox
  <2>2. CASE \E m \in Messages : m.type # "event" /\ transport'.inbox[k] = transport.inbox[k] \o <<m>>
    <3>1. PICK m \in Messages : m.type # "event" /\ Inbox' = Inbox \o <<m>>
      BY <2>2 DEF Inbox
    <3>2. Shifted(Inbox, Inbox \o <<m>>, 0)
      BY <1>2, <3>1, SnocShifted
    <3>. QED
      BY <3>1, <3>2
  <2>. QED
    BY <2>1, <2>2
<1>5. /\ Outbox = <<>> => Outbox' = <<>>
      /\ \A i \in DOMAIN Outbox' : i > 0 /\ i + 1 \in DOMAIN Outbox /\ Outbox'[i] = Outbox[i + 1]
  <2>1. CASE Outbox' = <<>>
    BY <2>1
  <2>2. CASE Outbox # <<>> /\ Outbox' = Tail(Outbox)
    <3>1. /\ Len(Outbox) \in Nat \ {0} /\ DOMAIN Outbox = 1..Len(Outbox)
          /\ DOMAIN Outbox' = 1..(Len(Outbox) - 1)
          /\ \A i \in 1..(Len(Outbox) - 1) : Outbox'[i] = Outbox[i + 1]
      BY <1>2, <2>2, TailIndices
    <3>. QED
      BY <2>2, <3>1
  <2>. QED
    BY <2>1, <2>2 DEF Outbox
<1>6. Queued' \in {Queued, <<>>}
  BY DEF Queued
<1>7. Cut
  BY <1>3, <1>4, <1>5, <1>6 DEF Cut, Connected
<1>. QED
  BY <1>1, <1>7, AsideInv DEF Aside, netVars, serverVars, deliveryVars

\* The server noticing a lost peer preserves the invariant.
LEMMA PeerGoneInv ==
    ASSUME DeliveryInv, NEW k \in ConnIds, PeerGone(k)
    PROVE  DeliveryInv'
<1>1. transport.readyState[k] \notin LiveStates
  BY DEF PeerGone, LiveStates
<1>2. /\ BusInv' /\ BusShrinks
      /\ \A j \in ConnIds \ {k} :
            scope'[j] = scope[j] /\ queue'[j] = queue[j] /\ subscriptions'[j] = subscriptions[j]
  BY BusDisconnects DEF DeliveryInv, PeerGone
<1>3. Sound(transport') /\ transport' = transport
  BY SoundState DEF DeliveryInv, PeerGone
<1>. QED
  BY <1>1, <1>2, <1>3, AwayInv DEF PeerGone

\* The server closing a socket whose session ended preserves the invariant.
LEMMA CloseSocketInv ==
    ASSUME DeliveryInv, NEW k \in ConnIds, CloseSocket(k)
    PROVE  DeliveryInv'
<1>. DEFINE t == [transport EXCEPT !.outbox[k] = <<>>]
<1>1. /\ BusInv' /\ BusShrinks
      /\ scope[k] # NoSession
      /\ scope'[k] = NoSession /\ queue'[k] = <<>> /\ subscriptions'[k] = {}
      /\ \A j \in ConnIds \ {k} :
            scope'[j] = scope[j] /\ queue'[j] = queue[j] /\ subscriptions'[j] = subscriptions[j]
  BY BusDisconnects DEF DeliveryInv, CloseSocket
<1>2. transport' = Reply(t, k, <<Client!CloseFrame>>)
  BY DEF CloseSocket
<1>3. /\ Sound(t)
      /\ t.session = transport.session /\ t.handlers = transport.handlers
      /\ t.socket = transport.socket /\ t.lastSequence = transport.lastSequence
      /\ t.readyState = transport.readyState /\ t.inbox = transport.inbox
      /\ t.outbox[k] = <<>>
      /\ \A j \in ConnIds \ {k} : t.outbox[j] = transport.outbox[j]
  <2>1. Sound(transport) /\ <<>> \in Seq(Controls)
    BY SoundState DEF DeliveryInv
  <2>. QED
    BY <2>1, ReadShape
<1>. HIDE DEF t
<1>4. Client!CloseFrame \in Messages /\ Client!CloseFrame.type # "event" /\ <<Client!CloseFrame>> \in Seq(Messages)
  BY CloseTyped
<1>5. /\ Sound(transport')
      /\ transport'.session = t.session /\ transport'.handlers = t.handlers
      /\ transport'.socket = t.socket /\ transport'.lastSequence = t.lastSequence
      /\ transport'.readyState = t.readyState /\ transport'.outbox = t.outbox
      /\ \A j \in ConnIds \ {k} : transport'.inbox[j] = t.inbox[j]
      /\ transport'.inbox[k] = IF t.readyState[k] \in {"upgraded", "open"}
                               THEN t.inbox[k] \o <<Client!CloseFrame>> ELSE t.inbox[k]
  <2>1. PICK messages \in Seq(Messages) : messages = <<Client!CloseFrame>>
    BY <1>4
  <2>2. transport' = Reply(t, k, messages) /\ Sound(t)
    BY <1>2, <1>3, <2>1, Zenon
  <2>3. /\ Sound(transport')
        /\ transport'.session = t.session /\ transport'.handlers = t.handlers
        /\ transport'.socket = t.socket /\ transport'.lastSequence = t.lastSequence
        /\ transport'.readyState = t.readyState /\ transport'.outbox = t.outbox
        /\ \A j \in ConnIds \ {k} : transport'.inbox[j] = t.inbox[j]
        /\ transport'.inbox[k] = IF t.readyState[k] \in {"upgraded", "open"}
                                 THEN t.inbox[k] \o messages ELSE t.inbox[k]
    BY <2>2, ReplyShape, ZenonT(30)
  <2>. QED
    BY <2>1, <2>3, Zenon
<1>6. CASE transport.readyState[k] \notin LiveStates
  BY <1>1, <1>3, <1>5, <1>6, AwayInv DEF CloseSocket
<1>7. CASE transport.readyState[k] \in LiveStates
  <2>1. k = transport.socket /\ Live
    BY <1>7, OnlySocket
  <2>2. ~Connected(k)'
    BY <1>1 DEF Connected
  <2>3. \/ transport'.inbox[k] = transport.inbox[k]
        \/ \E m \in Messages : m.type # "event" /\ transport'.inbox[k] = transport.inbox[k] \o <<m>>
    BY <1>3, <1>4, <1>5
  <2>4. transport'.outbox[k] = <<>>
    BY <1>3, <1>5
  <2>. QED
    BY <1>1, <1>3, <1>5, <2>1, <2>2, <2>3, <2>4, CutInv DEF CloseSocket
<1>. QED
  BY <1>6, <1>7

\* A socket that is lost takes its stream with it.
LEMMA LostInv ==
    ASSUME DeliveryInv, NEW k \in ConnIds, transport.readyState[k] \in LiveStates,
           transport' = Client!Lose(transport, k),
           BusInv', BusShrinks, StoreMoves, UNCHANGED <<restarts, deliveryVars>>
    PROVE  DeliveryInv'
<1>1. /\ Sound(transport')
      /\ transport'.session = transport.session
      /\ transport'.handlers = transport.handlers
      /\ transport'.socket = transport.socket
      /\ transport'.lastSequence = transport.lastSequence
      /\ transport'.readyState[k] = "closing"
  BY SoundState, LostShape DEF DeliveryInv
<1>2. ~Live'
  BY <1>1, OnlySocket DEF Live, LiveStates
<1>. QED
  BY <1>1, <1>2, AsideInv DEF Aside, deliveryVars

\* A network failure preserves the invariant.
LEMMA LoseSocketInv ==
    ASSUME DeliveryInv, NEW k \in ConnIds, LoseSocket(k)
    PROVE  DeliveryInv'
<1>1. BusInv' /\ BusShrinks
  BY BusRemoves DEF DeliveryInv, LoseSocket, busVars
<1>2. losses' \in 0..MaxLosses
  BY BoundsAssumption DEF DeliveryInv, TypeOK, LoseSocket
<1>3. StoreMoves
  BY <1>2 DEF LoseSocket, StoreMoves, DeliveryInv, TypeOK, serverVars
<1>4. transport.readyState[k] \in LiveStates
  BY DEF LoseSocket, LiveStates
<1>. QED
  BY <1>1, <1>3, <1>4, LostInv DEF LoseSocket, serverVars

\* Refusing an upgrade preserves the invariant.
LEMMA RefuseInv ==
    ASSUME DeliveryInv, NEW k \in ConnIds, Refuse(k)
    PROVE  DeliveryInv'
<1>1. cookie # NoSession => cookie \in SessionIds
  BY DEF DeliveryInv, TypeOK
<1>2. BusInv' /\ BusShrinks
  <2>1. CASE UNCHANGED busVars
    BY <2>1, BusRemoves DEF DeliveryInv, busVars
  <2>2. CASE cookie # NoSession /\ ConnectRejected(cookie, Level)
    BY <1>1, <2>2, BusRemoves, TabAssumption DEF DeliveryInv, ConnectRejected
  <2>. QED
    BY <2>1, <2>2 DEF Refuse
<1>3. StoreMoves
  BY StoreStays DEF Refuse, DeliveryInv, netVars, serverVars
<1>4. transport.readyState[k] \in LiveStates
  BY DEF Refuse, LiveStates
<1>. QED
  BY <1>2, <1>3, <1>4, LostInv DEF Refuse, netVars, serverVars

\* The server has read a control message, and answers.
LEMMA ControlShape ==
    ASSUME DeliveryInv, NEW k \in ConnIds, transport.outbox[k] # <<>>,
           NEW messages \in Seq(Messages),
           \/ transport' = Reply([transport EXCEPT !.outbox[k] = Tail(@)], k, messages)
           \/ messages = <<>> /\ transport' = [transport EXCEPT !.outbox[k] = Tail(@)]
    PROVE  /\ Sound(transport')
           /\ transport'.session = transport.session
           /\ transport'.handlers = transport.handlers
           /\ transport'.socket = transport.socket
           /\ transport'.lastSequence = transport.lastSequence
           /\ transport'.readyState = transport.readyState
           /\ transport'.outbox[k] = Tail(transport.outbox[k])
           /\ \A j \in ConnIds \ {k} : /\ transport'.inbox[j] = transport.inbox[j]
                                       /\ transport'.outbox[j] = transport.outbox[j]
           /\ transport'.inbox[k] = IF transport.readyState[k] \in {"upgraded", "open"}
                                    THEN transport.inbox[k] \o messages ELSE transport.inbox[k]
<1>. DEFINE q == Tail(transport.outbox[k])
            t == [transport EXCEPT !.outbox[k] = q]
<1>1. Sound(transport)
  BY SoundState DEF DeliveryInv
<1>2. q \in Seq(Controls) /\ transport.inbox[k] \in Seq(Messages)
  BY <1>1 DEF Sound, Transports
<1>3. t = [transport EXCEPT !.outbox[k] = Tail(@)]
  BY <1>1 DEF Sound, Transports
<1>. HIDE DEF q
<1>4. /\ Sound(t)
      /\ t.session = transport.session /\ t.handlers = transport.handlers
      /\ t.socket = transport.socket /\ t.lastSequence = transport.lastSequence
      /\ t.readyState = transport.readyState /\ t.inbox = transport.inbox
      /\ t.outbox[k] = q
      /\ \A j \in ConnIds \ {k} : t.outbox[j] = transport.outbox[j]
  BY <1>1, <1>2, ReadShape
<1>. HIDE DEF t
<1>5. CASE transport' = Reply(t, k, messages)
  <2>1. /\ Sound(transport')
        /\ transport'.session = t.session /\ transport'.handlers = t.handlers
        /\ transport'.socket = t.socket /\ transport'.lastSequence = t.lastSequence
        /\ transport'.readyState = t.readyState /\ transport'.outbox = t.outbox
        /\ \A j \in ConnIds \ {k} : transport'.inbox[j] = t.inbox[j]
        /\ transport'.inbox[k] = IF t.readyState[k] \in {"upgraded", "open"}
                                 THEN t.inbox[k] \o messages ELSE t.inbox[k]
    BY <1>4, <1>5, ReplyShape
  <2>. QED
    BY <1>4, <2>1 DEF q
<1>6. CASE messages = <<>> /\ transport' = t
  <2>1. transport.inbox[k] \o <<>> = transport.inbox[k]
    BY <1>2
  <2>. QED
    BY <1>4, <1>6, <2>1 DEF q
<1>. QED
  BY <1>3, <1>5, <1>6

\* The disjuncts of Control.
Answers(k, message) ==
    /\ message.type = "subscribe"
    /\ Subscribe(k, message.events)
    /\ transport' = Reply([transport EXCEPT !.outbox[k] = Tail(@)], k,
         <<[type |-> "subscribed", events |-> message.events]>>
         \o [i \in DOMAIN Replay(scope[k], message.events, message.since) |->
                EventMessage(Replay(scope[k], message.events, message.since)[i])])

Ceases(k, message) ==
    /\ message.type = "unsubscribe"
    /\ Unsubscribe(k, message.events)
    /\ transport' = Reply([transport EXCEPT !.outbox[k] = Tail(@)], k, <<[type |-> "unsubscribed"]>>)

Rejects(k, message) ==
    /\ \/ message.type = "subscribe" /\ ~CanSubscribe(k, message.events)
       \/ message.type = "unsubscribe" /\ ~CanUnsubscribe(k)
    /\ transport' = Reply([transport EXCEPT !.outbox[k] = Tail(@)], k, <<[type |-> "error"]>>)
    /\ UNCHANGED busVars

Leaves(k, message) ==
    /\ message.type = "close"
    /\ Disconnect(k)
    /\ transport' = [transport EXCEPT !.outbox[k] = Tail(@)]

\* A control message is answered, ceases a subscription, is rejected or closes.
LEMMA ControlCases ==
    ASSUME NEW k \in ConnIds, Control(k)
    PROVE  LET message == Head(transport.outbox[k]) IN
           /\ scope[k] # NoSession /\ transport.outbox[k] # <<>>
           /\ Answers(k, message) \/ Ceases(k, message) \/ Rejects(k, message) \/ Leaves(k, message)
           /\ UNCHANGED <<netVars, deliveryVars>>
BY DEF Control, Answers, Ceases, Rejects, Leaves

\* A client's close frame at the server preserves the invariant.
LEMMA LeavesInv ==
    ASSUME DeliveryInv, NEW k \in ConnIds, scope[k] # NoSession, transport.outbox[k] # <<>>,
           NEW message, Leaves(k, message), UNCHANGED <<netVars, deliveryVars>>
    PROVE  DeliveryInv'
<1>1. /\ BusInv' /\ BusShrinks
      /\ scope'[k] = NoSession /\ queue'[k] = <<>> /\ subscriptions'[k] = {}
      /\ \A j \in ConnIds \ {k} :
            scope'[j] = scope[j] /\ queue'[j] = queue[j] /\ subscriptions'[j] = subscriptions[j]
  BY BusDisconnects DEF DeliveryInv, Leaves
<1>2. <<>> \in Seq(Messages)
  OBVIOUS
<1>3. /\ Sound(transport')
      /\ transport'.session = transport.session
      /\ transport'.handlers = transport.handlers
      /\ transport'.socket = transport.socket
      /\ transport'.lastSequence = transport.lastSequence
      /\ transport'.readyState = transport.readyState
      /\ transport'.outbox[k] = Tail(transport.outbox[k])
      /\ \A j \in ConnIds \ {k} : /\ transport'.inbox[j] = transport.inbox[j]
                                  /\ transport'.outbox[j] = transport.outbox[j]
      /\ transport'.inbox[k] = IF transport.readyState[k] \in {"upgraded", "open"}
                               THEN transport.inbox[k] \o <<>> ELSE transport.inbox[k]
  BY <1>2, ControlShape DEF Leaves
<1>4. transport'.inbox[k] = transport.inbox[k]
  <2>1. transport.inbox[k] \in Seq(Messages)
    BY DEF DeliveryInv, TypeOK, TransportTypeOK, Transports
  <2>. QED
    BY <1>3, <2>1
<1>5. CASE transport.readyState[k] \notin LiveStates
  BY <1>1, <1>3, <1>5, AwayInv
<1>6. CASE transport.readyState[k] \in LiveStates
  <2>1. k = transport.socket /\ Live /\ ~Connected(k)'
    BY <1>1, <1>6, OnlySocket DEF Connected
  <2>. QED
    BY <1>1, <1>3, <1>4, <2>1, CutInv
<1>. QED
  BY <1>5, <1>6

\* Rejecting a control message preserves the invariant.
LEMMA RejectsInv ==
    ASSUME DeliveryInv, NEW k \in ConnIds, scope[k] # NoSession, transport.outbox[k] # <<>>,
           Rejects(k, Head(transport.outbox[k])), UNCHANGED <<netVars, deliveryVars>>
    PROVE  DeliveryInv'
<1>. DEFINE message == Head(transport.outbox[k])
            error == [type |-> "error"]
<1>1. BusInv' /\ BusShrinks
  BY BusRemoves DEF DeliveryInv, Rejects, busVars
<1>2. UNCHANGED <<scope, queue, subscriptions, connections>>
  BY DEF Rejects, busVars, connVars, sessionVars
<1>3. error \in Messages /\ error.type # "event" /\ <<error>> \in Seq(Messages)
  <2>1. error \in Messages
    BY DEF Messages
  <2>. QED
    BY <2>1
<1>4. transport' = Reply([transport EXCEPT !.outbox[k] = Tail(@)], k, <<error>>)
  BY DEF Rejects
<1>. HIDE DEF error
<1>5. /\ Sound(transport')
      /\ transport'.session = transport.session
      /\ transport'.handlers = transport.handlers
      /\ transport'.socket = transport.socket
      /\ transport'.lastSequence = transport.lastSequence
      /\ transport'.readyState = transport.readyState
      /\ transport'.outbox[k] = Tail(transport.outbox[k])
      /\ \A j \in ConnIds \ {k} : /\ transport'.inbox[j] = transport.inbox[j]
                                  /\ transport'.outbox[j] = transport.outbox[j]
      /\ transport'.inbox[k] = IF transport.readyState[k] \in {"upgraded", "open"}
                               THEN transport.inbox[k] \o <<error>> ELSE transport.inbox[k]
  BY <1>3, <1>4, ControlShape
<1>6. CASE transport.readyState[k] \notin LiveStates
  BY <1>1, <1>2, <1>5, <1>6, AwayInv
<1>7. CASE transport.readyState[k] \in LiveStates
  <2>1. k = transport.socket /\ Live
    BY <1>7, OnlySocket
  \* The tab asks for nothing that its session's level forbids.
  <2>2. ~Connected(k)
    <3>. SUFFICES ASSUME Connected(k) PROVE FALSE
      OBVIOUS
    <3>1. scope[k] \in SessionIds /\ k \in connections[scope[k]]
      BY DEF Connected, DeliveryInv, TypeOK, BusTypeOK
    <3>2. scope[k] \in sessions
      BY <3>1 DEF DeliveryInv, BusInv, Owned
    <3>3. authorization[scope[k]] = Level
      BY <3>2 DEF DeliveryInv, KnownSessions
    <3>4. message.type = "subscribe"
      BY <3>2 DEF Rejects, CanUnsubscribe
    <3>5. message.events \subseteq {EventOf[h] : h \in Handlers}
      <4>1. Outbox \in Seq(Controls) /\ Outbox # <<>> /\ message = Head(Outbox)
        BY <2>1 DEF DeliveryInv, TypeOK, TransportTypeOK, Transports, Outbox
      <4>2. 1 \in DOMAIN Outbox /\ message = Outbox[1]
        BY <4>1, TailIndices
      <4>. QED
        BY <2>1, <3>4, <4>2 DEF DeliveryInv, ReplayFirst
    <3>6. CanSubscribe(k, message.events)
      BY <3>2, <3>3, <3>5, TabAssumption DEF CanSubscribe
    <3>. QED
      BY <3>4, <3>6 DEF Rejects
  <2>3. ~Connected(k)'
    BY <1>2, <2>2 DEF Connected
  <2>4. \/ transport'.inbox[k] = transport.inbox[k]
        \/ \E m \in Messages : m.type # "event" /\ transport'.inbox[k] = transport.inbox[k] \o <<m>>
    BY <1>3, <1>5
  <2>. QED
    BY <1>1, <1>2, <1>5, <2>1, <2>3, <2>4, CutInv
<1>. QED
  BY <1>6, <1>7

-----------------------------------------------------------------------------
\* A session's first connection adds it to the bus; the cleanup drops others.
LEMMA BusConnects ==
    ASSUME BusInv, Fresh, NEW s \in SessionIds, NEW level \in Granted, NEW k \in ConnIds,
           Connect(s, level, k)
    PROVE  /\ BusInv'
           /\ next_sequence' = next_sequence
           /\ scope[k] = NoSession /\ scope'[k] = s
           /\ queue'[k] = <<>> /\ subscriptions'[k] = {}
           /\ \A j \in ConnIds \ {k} :
                scope'[j] = scope[j] /\ queue'[j] = queue[j] /\ subscriptions'[j] = subscriptions[j]
           /\ sessions' \subseteq sessions \cup {s}
           /\ \A r \in sessions' : authorization'[r] = authorization[r] \/ (r = s /\ authorization'[r] = level)
           /\ \A r \in SessionIds : history'[r] \in {history[r], <<>>}
<1>1. BusInv'
  BY ConnectInv
<1>2. PICK gone \in SUBSET sessions :
        /\ sessions' = (sessions \ gone) \cup {s}
        /\ authorization' = [Without(authorization, gone, 0) EXCEPT ![s] = level]
        /\ history' = Without(history, gone, <<>>)
  BY DEF Connect
<1>3. /\ sessions' \subseteq sessions \cup {s}
      /\ \A r \in sessions' : authorization'[r] = authorization[r] \/ (r = s /\ authorization'[r] = level)
      /\ \A r \in SessionIds : history'[r] \in {history[r], <<>>}
  <2>1. sessions' \subseteq sessions \cup {s} /\ sessions \subseteq SessionIds
    BY <1>2 DEF BusInv, BusTypeOK
  <2>2. ASSUME NEW r \in sessions'
        PROVE  authorization'[r] = authorization[r] \/ (r = s /\ authorization'[r] = level)
    <3>1. r \in SessionIds /\ (r = s \/ r \notin gone)
      BY <1>2, <2>1
    <3>2. \A q \in SessionIds : Without(authorization, gone, 0)[q] = IF q \in gone THEN 0 ELSE authorization[q]
      BY DEF Without, BusInv, BusTypeOK
    <3>3. authorization'[r] = IF r = s THEN level ELSE Without(authorization, gone, 0)[r]
      BY <1>2, <3>1 DEF Without, BusInv, BusTypeOK
    <3>. QED
      BY <3>1, <3>2, <3>3
  <2>3. \A r \in SessionIds : history'[r] \in {history[r], <<>>}
    BY <1>2 DEF BusInv, BusTypeOK, Without
  <2>. QED
    BY <2>1, <2>2, <2>3
<1>4. /\ next_sequence' = next_sequence
      /\ scope[k] = NoSession /\ scope'[k] = s
      /\ queue'[k] = <<>> /\ subscriptions'[k] = {}
      /\ \A j \in ConnIds \ {k} :
            scope'[j] = scope[j] /\ queue'[j] = queue[j] /\ subscriptions'[j] = subscriptions[j]
  BY DEF Connect, BusInv, BusTypeOK
<1>. QED
  BY <1>1, <1>3, <1>4

\* The transport after the server accepted its upgrade.
LEMMA UpgradedShape ==
    ASSUME Sound(transport), NEW k \in ConnIds, transport.readyState[k] = "connecting",
           transport' = [transport EXCEPT !.readyState[k] = "upgraded"]
    PROVE  /\ Sound(transport')
           /\ transport'.session = transport.session
           /\ transport'.handlers = transport.handlers
           /\ transport'.socket = transport.socket
           /\ transport'.lastSequence = transport.lastSequence
           /\ transport'.readyState[k] = "upgraded"
           /\ transport'.inbox = transport.inbox
           /\ transport'.outbox = transport.outbox
<1>. DEFINE r == [transport.readyState EXCEPT ![k] = "upgraded"]
<1>1. transport \in Transports
  BY DEF Sound
<1>2. /\ r \in [ConnIds -> ReadyStates] /\ r[k] = "upgraded"
      /\ \A j \in ConnIds \ {k} : r[j] = transport.readyState[j]
  BY <1>1 DEF Transports, ReadyStates
<1>3. transport' = [transport EXCEPT !.readyState = r]
  OBVIOUS
<1>. HIDE DEF r
<1>4. transport' \in Transports
  BY <1>1, <1>2, <1>3 DEF Transports
<1>5. /\ transport'.session = transport.session /\ transport'.initializing = transport.initializing
      /\ transport'.handlers = transport.handlers /\ transport'.pending = transport.pending
      /\ transport'.socket = transport.socket
      /\ transport'.connectionPromise = transport.connectionPromise
      /\ transport'.lastSequence = transport.lastSequence
      /\ transport'.readyState = r
      /\ transport'.outbox = transport.outbox /\ transport'.inbox = transport.inbox
  BY <1>1, <1>3 DEF Transports
<1>6. Sound(transport')
  BY <1>2, <1>4, <1>5 DEF Sound, Lives, LiveStates
<1>. QED
  BY <1>2, <1>5, <1>6

\* Accepting an upgrade preserves the invariant.
LEMMA AcceptInv ==
    ASSUME DeliveryInv, NEW k \in ConnIds, Accept(k)
    PROVE  DeliveryInv'
<1>1. /\ cookie \in SessionIds /\ cookie \in issued
      /\ transport.readyState[k] = "connecting" /\ transport.readyState[k] \in LiveStates
  BY DEF Accept, DeliveryInv, TypeOK, LiveStates
<1>2. /\ BusInv'
      /\ next_sequence' = next_sequence
      /\ scope[k] = NoSession /\ scope'[k] = cookie
      /\ queue'[k] = <<>> /\ subscriptions'[k] = {}
      /\ \A j \in ConnIds \ {k} :
            scope'[j] = scope[j] /\ queue'[j] = queue[j] /\ subscriptions'[j] = subscriptions[j]
      /\ sessions' \subseteq sessions \cup {cookie}
      /\ \A r \in sessions' : authorization'[r] = authorization[r] \/ (r = cookie /\ authorization'[r] = Level)
      /\ \A r \in SessionIds : history'[r] \in {history[r], <<>>}
  BY <1>1, BusConnects, TabAssumption DEF Accept, DeliveryInv
<1>3. /\ Sound(transport')
      /\ transport'.session = transport.session
      /\ transport'.handlers = transport.handlers
      /\ transport'.socket = transport.socket
      /\ transport'.lastSequence = transport.lastSequence
      /\ transport'.readyState[k] = "upgraded"
      /\ transport'.inbox = transport.inbox
      /\ transport'.outbox = transport.outbox
  BY SoundState, UpgradedShape DEF Accept, DeliveryInv
<1>4. /\ k = transport.socket /\ Live /\ Live'
      /\ Inbox' = <<>> /\ Outbox' = <<>> /\ Queued' = <<>>
      /\ EventsIn(Inbox') = {}
  <2>1. k = transport.socket /\ Live
    BY <1>1, OnlySocket
  <2>2. Inbox' = <<>> /\ Outbox' = <<>> /\ Queued' = <<>>
    BY <1>1, <1>2, <1>3, <2>1 DEF DeliveryInv, Fresh, Inbox, Outbox, Queued
  <2>3. EventsIn(<<>>) = {}
    BY DEF EventsIn
  <2>. QED
    BY <1>3, <2>1, <2>2, <2>3 DEF Live, LiveStates
<1>5. UNCHANGED <<cookie, issued, restarts, delivered, owed, carried>>
  BY DEF Accept, netVars, serverVars, deliveryVars
<1>6. TransportTypeOK' /\ OneSocket' /\ Waits'
  BY <1>3 DEF Sound, Lives, TransportTypeOK, OneSocket, Waits, Live, LiveStates
<1>7. TypeOK'
  BY <1>2, <1>6 DEF Accept, DeliveryInv, TypeOK, BusInv, netVars, serverVars, deliveryVars
<1>8. KnownSessions'
  <2>1. \A j \in ConnIds : scope'[j] \in issued' \cup {NoSession}
    BY <1>1, <1>2, <1>5 DEF DeliveryInv, KnownSessions
  <2>2. sessions' \subseteq issued' /\ \A s \in sessions' : authorization'[s] = Level
    <3>1. \A s \in sessions' : s \in sessions \/ s = cookie
      BY <1>2
    <3>2. \A s \in sessions : s \in issued /\ authorization[s] = Level
      BY DEF DeliveryInv, KnownSessions
    <3>3. \A s \in sessions' : authorization'[s] = Level
      <4>. TAKE s \in sessions'
      <4>1. CASE s \in sessions
        BY <1>2, <3>2, <4>1
      <4>2. CASE s \notin sessions
        <5>1. s = cookie
          BY <3>1, <4>2
        <5>2. authorization'[cookie] = Level
          BY <1>1, <4>2, <5>1 DEF Accept, Connect, DeliveryInv, TypeOK, BusTypeOK, Without
        <5>. QED
          BY <5>1, <5>2
      <4>. QED
        BY <4>1, <4>2
    <3>. QED
      BY <1>1, <1>5, <3>1, <3>2, <3>3
  <2>. QED
    BY <1>3, <1>5, <2>1, <2>2 DEF DeliveryInv, KnownSessions
<1>9. CurrentScope'
  BY <1>2, <1>3, <1>4, <1>5 DEF CurrentScope
<1>10. Fresh'
  <2>1. \A j \in ConnIds : scope'[j] = NoSession => queue'[j] = <<>> /\ subscriptions'[j] = {}
    BY <1>2 DEF DeliveryInv, Fresh
  <2>. QED
    BY <1>2, <1>3, <1>4, <2>1 DEF Fresh, EventsIn
<1>11. ReplayFirst' /\ Stream'
  BY <1>4 DEF ReplayFirst, Stream, EventsIn
<1>12. InOrderOnce'
  BY <1>5 DEF DeliveryInv, InOrderOnce
<1>13. DeliveredBefore'
  BY <1>2, <1>3, <1>4, <1>5 DEF DeliveryInv, DeliveredBefore, Above, EventsIn
<1>14. LastSequenceInSession'
  <2>. SUFFICES ASSUME ~carried, transport.session # NoSession,
                       transport.session = cookie \/ \E j \in ConnIds : scope'[j] = transport.session
                PROVE  transport.lastSequence <= next_sequence
    BY <1>2, <1>3, <1>4, <1>5 DEF LastSequenceInSession, Above, EventsIn
  <2>1. transport.session = cookie \/ \E j \in ConnIds : scope[j] = transport.session
    BY <1>2
  <2>. QED
    BY <2>1 DEF DeliveryInv, LastSequenceInSession
<1>15. ~Client!IsOpen(transport)'
  BY <1>3, <1>4 DEF Client!IsOpen
<1>16. ServesSubscribed'
  BY <1>15 DEF ServesSubscribed
<1>17. PromisesKept'
  <2>. SUFFICES ASSUME NEW o \in owed, o.seen
                PROVE  Promised(o)'
    BY <1>5 DEF PromisesKept
  <2>1. Promised(o)
    BY DEF DeliveryInv, PromisesKept
  <2>2. Replayable(o)' => Replayable(o)
    <3>. SUFFICES ASSUME Replayable(o)' PROVE Replayable(o)
      OBVIOUS
    <3>1. o.session = cookie /\ o.session \in SessionIds
      BY <1>1, <1>5 DEF Replayable
    <3>2. history'[o.session] # <<>>
      BY DEF Replayable
    <3>3. history'[o.session] = history[o.session]
      BY <1>2, <3>1, <3>2
    <3>. QED
      BY <1>5, <3>1, <3>3 DEF Replayable, HasDelivered
  <2>3. Client!subscribedEvents(transport') = Client!subscribedEvents(transport)
    BY <1>3 DEF Client!subscribedEvents
  <2>. QED
    BY <1>2, <1>3, <1>15, <2>1, <2>2, <2>3 DEF Promised
<1>. QED
  BY <1>2, <1>6, <1>7, <1>8, <1>9, <1>10, <1>11, <1>12, <1>13, <1>14, <1>16, <1>17 DEF DeliveryInv

-----------------------------------------------------------------------------
\* A message follows what the inbox holds.
LEMMA SnocIndices ==
    ASSUME NEW q \in Seq(Messages), NEW m \in Messages
    PROVE  /\ q \o <<m>> \in Seq(Messages)
           /\ Len(q) \in Nat /\ DOMAIN q = 1..Len(q)
           /\ DOMAIN (q \o <<m>>) = 1..(Len(q) + 1)
           /\ \A i \in 1..Len(q) : (q \o <<m>>)[i] = q[i]
           /\ (q \o <<m>>)[Len(q) + 1] = m
OBVIOUS

\* The first envelope of a queue and the positions of the others.
LEMMA HeadTail ==
    ASSUME NEW q \in Seq(Envelope), q # <<>>
    PROVE  /\ Head(q) \in Envelope /\ Tail(q) \in Seq(Envelope)
           /\ Len(q) \in Nat \ {0} /\ DOMAIN q = 1..Len(q) /\ Head(q) = q[1]
           /\ DOMAIN Tail(q) = 1..(Len(q) - 1)
           /\ \A i \in 1..(Len(q) - 1) : Tail(q)[i] = q[i + 1]
OBVIOUS

\* recv takes the envelope that the queue holds first.
LEMMA BusReceives ==
    ASSUME BusInv, NEW k \in ConnIds, Recv(k)
    PROVE  /\ BusInv'
           /\ Connected(k) /\ queue[k] # <<>> /\ queue[k] \in Seq(Envelope)
           /\ queue'[k] = Tail(queue[k])
           /\ \A j \in ConnIds \ {k} : queue'[j] = queue[j]
           /\ UNCHANGED <<next_sequence, sessions, authorization, history, connections,
                          subscriptions, scope>>
BY RecvInv DEF Recv, BusInv, BusTypeOK, sessionVars

\* Forwarding a queued envelope to the socket preserves the invariant.
LEMMA ForwardInv ==
    ASSUME DeliveryInv, NEW k \in ConnIds, Forward(k)
    PROVE  DeliveryInv'
<1>. DEFINE h == Head(queue[k])
            m == EventMessage(h)
<1>1. /\ BusInv'
      /\ Connected(k) /\ queue[k] # <<>> /\ queue[k] \in Seq(Envelope)
      /\ queue'[k] = Tail(queue[k])
      /\ \A j \in ConnIds \ {k} : queue'[j] = queue[j]
      /\ UNCHANGED <<next_sequence, sessions, authorization, history, connections,
                     subscriptions, scope>>
  BY BusReceives DEF Forward, DeliveryInv
<1>2. /\ h \in Envelope /\ Tail(queue[k]) \in Seq(Envelope)
      /\ Len(queue[k]) \in Nat \ {0} /\ DOMAIN queue[k] = 1..Len(queue[k]) /\ h = queue[k][1]
      /\ DOMAIN Tail(queue[k]) = 1..(Len(queue[k]) - 1)
      /\ \A i \in 1..(Len(queue[k]) - 1) : Tail(queue[k])[i] = queue[k][i + 1]
  BY <1>1, HeadTail
<1>3. UNCHANGED <<cookie, issued, restarts, delivered, owed, carried>>
  BY DEF Forward, netVars, serverVars, deliveryVars
<1>. HIDE DEF h
<1>4. m \in Messages /\ m.type = "event" /\ m.envelope = h /\ <<m>> \in Seq(Messages)
  <2>1. m \in Messages /\ m.type = "event" /\ m.envelope = h
    BY <1>2, EventTyped
  <2>. QED
    BY <2>1
<1>5. transport' = Reply(transport, k, <<m>>)
  BY DEF Forward, h
<1>. HIDE DEF m
<1>6. /\ Sound(transport')
      /\ transport'.session = transport.session
      /\ transport'.handlers = transport.handlers
      /\ transport'.socket = transport.socket
      /\ transport'.lastSequence = transport.lastSequence
      /\ transport'.readyState = transport.readyState
      /\ transport'.outbox = transport.outbox
      /\ \A j \in ConnIds \ {k} : transport'.inbox[j] = transport.inbox[j]
      /\ transport'.inbox[k] = IF transport.readyState[k] \in {"upgraded", "open"}
                               THEN transport.inbox[k] \o <<m>> ELSE transport.inbox[k]
  BY <1>4, <1>5, SoundState, ReplyShape, ZenonT(30) DEF DeliveryInv
<1>7. CASE transport.readyState[k] \notin LiveStates
  <2>1. scope[k] # NoSession
    BY <1>1 DEF Connected
  <2>2. BusShrinks
    BY <1>1, <2>1 DEF BusShrinks, DeliveryInv, Fresh
  <2>. QED
    BY <1>1, <1>6, <1>7, <2>2, AwayInv DEF Forward
<1>8. CASE transport.readyState[k] \in LiveStates
  <2>1. k = transport.socket /\ Live
    BY <1>8, OnlySocket
  <2>2. transport.readyState[k] = "open"
    BY <1>1, <1>8, <2>1 DEF DeliveryInv, Fresh, Queued, Connected, LiveStates
  <2>3. /\ Live' /\ Client!IsOpen(transport)
        /\ Inbox \in Seq(Messages)
        /\ Inbox' = Inbox \o <<m>>
        /\ Outbox' = Outbox
        /\ Queued = queue[k] /\ Queued' = Tail(Queued)
    <3>1. Live' /\ Client!IsOpen(transport)
      BY <1>6, <2>1, <2>2, TabAssumption DEF Live, LiveStates, Client!IsOpen
    <3>2. Inbox \in Seq(Messages)
      BY <2>1 DEF DeliveryInv, TypeOK, TransportTypeOK, Transports, Inbox, Live
    <3>. QED
      BY <1>1, <1>6, <2>1, <2>2, <3>1, <3>2 DEF Inbox, Outbox, Queued
  <2>4. /\ Len(Inbox) \in Nat /\ DOMAIN Inbox = 1..Len(Inbox)
        /\ DOMAIN Inbox' = 1..(Len(Inbox) + 1)
        /\ \A i \in 1..Len(Inbox) : Inbox'[i] = Inbox[i]
        /\ Inbox'[Len(Inbox) + 1] = m
    BY <1>4, <2>3, SnocIndices
  <2>5. /\ EventsIn(Inbox') = EventsIn(Inbox) \cup {Len(Inbox) + 1}
        /\ \A i \in EventsIn(Inbox) : i \in 1..Len(Inbox) /\ Inbox'[i] = Inbox[i]
    BY <1>4, <2>4 DEF EventsIn
  <2>6. /\ 1 \in DOMAIN Queued /\ Queued[1] = h
        /\ \A j \in DOMAIN Queued' : j + 1 \in DOMAIN Queued /\ Queued'[j] = Queued[j + 1]
        /\ \A j \in DOMAIN Queued \ {1} : j - 1 \in DOMAIN Queued' /\ Queued'[j - 1] = Queued[j]
    BY <1>2, <2>3
  <2>7. PICK n : n = h.sequence
    OBVIOUS
  <2>8. n \in 1..MaxSequence
    BY <1>2, <2>7 DEF Envelope
  \* Where the envelope stands in the stream.
  <2>9. /\ n <= next_sequence
        /\ \A i \in EventsIn(Inbox) : Inbox[i].envelope.sequence < n
        /\ \A j \in DOMAIN Queued' : n < Queued'[j].sequence
        /\ \A i \in DOMAIN Outbox : ~AsksReplay(Outbox[i])
    <3>1. n <= next_sequence
      BY <2>1, <2>3, <2>6, <2>7 DEF DeliveryInv, BusInv, Published
    <3>2. \A i \in EventsIn(Inbox) : Inbox[i].envelope.sequence < n
      BY <2>1, <2>6, <2>7 DEF DeliveryInv, Stream
    <3>3. Increasing(Queued)
      BY <2>3 DEF DeliveryInv, BusInv, InOrder
    <3>4. \A j \in DOMAIN Queued' : n < Queued'[j].sequence
      <4>. TAKE j \in DOMAIN Queued'
      <4>1. j + 1 \in DOMAIN Queued /\ 1 < j + 1
        BY <1>2, <2>3
      <4>. QED
        BY <2>6, <2>7, <3>3, <4>1 DEF Increasing
    <3>5. \A i \in DOMAIN Outbox : ~AsksReplay(Outbox[i])
      BY <1>1, <2>1, <2>3 DEF DeliveryInv, ReplayFirst
    <3>. QED
      BY <3>1, <3>2, <3>4, <3>5
  <2>10. ASSUME NEW p, Above(p)
         PROVE  /\ \A i \in EventsIn(Inbox') : Inbox'[i].envelope.sequence > p
                /\ \A j \in DOMAIN Queued' : Queued'[j].sequence > p
                /\ \A i \in DOMAIN Outbox' : AsksReplay(Outbox'[i]) => Outbox'[i].since >= p
    <3>1. n > p
      BY <2>1, <2>6, <2>7, <2>10 DEF Above
    <3>. QED
      BY <1>4, <2>1, <2>3, <2>4, <2>5, <2>6, <2>7, <2>10, <3>1 DEF Above
  <2>11. TransportTypeOK' /\ OneSocket' /\ Waits'
    BY <1>6 DEF Sound, Lives, TransportTypeOK, OneSocket, Waits, Live, LiveStates
  <2>12. TypeOK'
    BY <1>1, <2>11 DEF Forward, DeliveryInv, TypeOK, BusInv, netVars, serverVars, deliveryVars
  <2>13. KnownSessions' /\ CurrentScope'
    BY <1>1, <1>3, <1>6, <2>1 DEF DeliveryInv, KnownSessions, CurrentScope
  <2>14. Fresh'
    <3>1. scope[k] # NoSession
      BY <1>1 DEF Connected
    <3>. QED
      BY <1>1, <1>6, <2>1, <2>2, <3>1 DEF DeliveryInv, Fresh
  <2>15. ReplayFirst'
    BY <2>1, <2>3, <2>9 DEF DeliveryInv, ReplayFirst, AsksReplay
  <2>16. Stream'
    <3>1. \A i, j \in EventsIn(Inbox') : i < j => Inbox'[i].envelope.sequence < Inbox'[j].envelope.sequence
      <4>. SUFFICES ASSUME NEW i \in EventsIn(Inbox'), NEW j \in EventsIn(Inbox'), i < j
                    PROVE  Inbox'[i].envelope.sequence < Inbox'[j].envelope.sequence
        OBVIOUS
      <4>1. i \in EventsIn(Inbox)
        BY <2>4, <2>5
      <4>2. CASE j \in EventsIn(Inbox)
        BY <2>1, <2>5, <4>1, <4>2 DEF DeliveryInv, Stream
      <4>3. CASE j = Len(Inbox) + 1
        BY <1>4, <2>4, <2>5, <2>7, <2>9, <4>1, <4>3
      <4>. QED
        BY <2>5, <4>2, <4>3
    <3>2. \A i \in EventsIn(Inbox') :
             /\ Inbox'[i].envelope.sequence <= next_sequence
             /\ \A j \in DOMAIN Queued' : Inbox'[i].envelope.sequence < Queued'[j].sequence
      <4>. TAKE i \in EventsIn(Inbox')
      <4>1. CASE i \in EventsIn(Inbox)
        BY <2>1, <2>5, <2>6, <4>1 DEF DeliveryInv, Stream
      <4>2. CASE i = Len(Inbox) + 1
        BY <1>4, <2>4, <2>7, <2>9, <4>2
      <4>. QED
        BY <2>5, <4>1, <4>2
    <3>. QED
      BY <1>1, <3>1, <3>2 DEF Stream, EventsIn
  <2>17. InOrderOnce'
    BY <1>3 DEF DeliveryInv, InOrderOnce
  <2>18. DeliveredBefore'
    <3>1. ASSUME NEW i \in DOMAIN delivered
          PROVE  /\ delivered[i][1] <= restarts
                 /\ delivered[i][1] = restarts =>
                    /\ delivered[i][2] <= next_sequence
                    /\ transport'.lastSequence = 0 \/ delivered[i][2] <= transport'.lastSequence
                    /\ \A j \in EventsIn(Inbox') : Inbox'[j].envelope.sequence > delivered[i][2]
                    /\ \A j \in DOMAIN Queued' : Queued'[j].sequence > delivered[i][2]
                    /\ \A j \in DOMAIN Outbox' : AsksReplay(Outbox'[j]) => Outbox'[j].since >= delivered[i][2]
      <4>1. PICK p : p = delivered[i][2]
        OBVIOUS
      <4>2. /\ delivered[i][1] <= restarts
            /\ delivered[i][1] = restarts =>
                 p <= next_sequence /\ (transport.lastSequence = 0 \/ p <= transport.lastSequence) /\ Above(p)
        BY <4>1 DEF DeliveryInv, DeliveredBefore
      <4>. QED
        BY <1>6, <2>10, <4>1, <4>2
    <3>. QED
      BY <1>1, <1>3, <3>1 DEF DeliveredBefore, Above, EventsIn, AsksReplay
  <2>19. LastSequenceInSession'
    <3>. SUFFICES ASSUME ~carried, transport.session # NoSession,
                         transport.session = cookie \/ \E j \in ConnIds : scope[j] = transport.session
                  PROVE  transport.lastSequence <= next_sequence /\ Above(transport.lastSequence)'
      BY <1>1, <1>3, <1>6 DEF LastSequenceInSession
    <3>1. PICK p : p = transport.lastSequence
      OBVIOUS
    <3>2. p <= next_sequence /\ Above(p)
      BY <3>1 DEF DeliveryInv, LastSequenceInSession
    <3>3. /\ \A j \in EventsIn(Inbox') : Inbox'[j].envelope.sequence > p
          /\ \A j \in DOMAIN Queued' : Queued'[j].sequence > p
          /\ \A j \in DOMAIN Outbox' : AsksReplay(Outbox'[j]) => Outbox'[j].since >= p
      BY <2>10, <3>2
    <3>. QED
      BY <1>6, <3>1, <3>2, <3>3 DEF Above, EventsIn, AsksReplay
  <2>20. Client!subscribedEvents(transport') = Client!subscribedEvents(transport)
    BY <1>6 DEF Client!subscribedEvents
  <2>21. ServesSubscribed'
    <3>1. \A e \in Client!subscribedEvents(transport) : WillServe(e)
      BY <1>1, <2>1, <2>3 DEF DeliveryInv, ServesSubscribed
    <3>2. \A e : WillServe(e) => WillServe(e)'
      BY <1>1, <1>6, <2>3 DEF WillServe, About
    <3>. QED
      BY <2>20, <3>1, <3>2 DEF ServesSubscribed
  <2>22. PromisesKept'
    <3>. SUFFICES ASSUME NEW o \in owed, o.seen
                  PROVE  Promised(o)'
      BY <1>3 DEF PromisesKept
    <3>1. Promised(o)
      BY DEF DeliveryInv, PromisesKept
    <3>2. Replayable(o)' => Replayable(o)
      BY <1>1, <1>3 DEF Replayable, HasDelivered
    <3>3. ASSUME Coming(o.envelope)
          PROVE  Coming(o.envelope)'
      <4>1. CASE \E i \in EventsIn(Inbox) : Inbox[i].envelope = o.envelope
        BY <2>5, <4>1 DEF Coming, EventsIn
      <4>2. CASE o.envelope = h
        <5>1. Len(Inbox) + 1 \in EventsIn(Inbox') /\ Inbox'[Len(Inbox) + 1].envelope = o.envelope
          BY <1>4, <2>4, <2>5, <4>2
        <5>. QED
          BY <5>1 DEF Coming, EventsIn
      <4>3. CASE ~(\E i \in EventsIn(Inbox) : Inbox[i].envelope = o.envelope) /\ o.envelope # h
        <5>1. /\ \A i \in EventsIn(Inbox) : Inbox[i].envelope.sequence < o.envelope.sequence
              /\ \E j \in DOMAIN Queued : Queued[j] = o.envelope
          BY <1>1, <2>1, <2>9, <3>3, <4>3 DEF Coming
        <5>2. PICK j \in DOMAIN Queued : Queued[j] = o.envelope
          BY <5>1
        <5>3. j # 1
          BY <2>6, <4>3, <5>2
        <5>4. j - 1 \in DOMAIN Queued' /\ Queued'[j - 1] = o.envelope
          BY <2>6, <5>2, <5>3
        <5>5. n < o.envelope.sequence
          BY <2>9, <5>4
        <5>6. \A i \in EventsIn(Inbox') : Inbox'[i].envelope.sequence < o.envelope.sequence
          BY <1>4, <2>4, <2>5, <2>7, <5>1, <5>5
        <5>. QED
          BY <5>4, <5>6 DEF Coming, EventsIn
      <4>. QED
        BY <4>1, <4>2, <4>3
    <3>. QED
      BY <1>1, <1>6, <2>3, <2>20, <3>1, <3>2, <3>3 DEF Promised
  <2>. QED
    BY <1>1, <2>11, <2>12, <2>13, <2>14, <2>15, <2>16, <2>17, <2>18, <2>19, <2>21, <2>22 DEF DeliveryInv
<1>. QED
  BY <1>7, <1>8

-----------------------------------------------------------------------------
\* The tab's own connection to its session, as far as the session has a history.
LEMMA OwnScope ==
    ASSUME DeliveryInv, Live, Connected(transport.socket), cookie \in sessions
    PROVE  scope[transport.socket] = cookie
BY DEF DeliveryInv, CurrentScope, Connected

\* Only a session that still exists has a history.
LEMMA HistoryInSession ==
    ASSUME DeliveryInv, NEW s \in SessionIds, DOMAIN history[s] # {}
    PROVE  s \in sessions
BY DEF DeliveryInv, BusInv, Owned

\* r holds the p messages of q, an acknowledgement, and the events u.
Answered(q, r, u, p) ==
    /\ p \in Nat /\ DOMAIN q = 1..p
    /\ \A i \in 1..p : i \in DOMAIN r /\ r[i] = q[i]
    /\ \A i \in EventsIn(r) \ 1..p : i - (p + 1) \in DOMAIN u /\ r[i].envelope = u[i - (p + 1)]
    /\ \A j \in DOMAIN u : j + (p + 1) \in EventsIn(r) /\ r[j + (p + 1)].envelope = u[j]

\* The server has read the control message m of the tab's socket, and it has
\* answered with an acknowledgement and the replay u behind it.
RepliesTo(m, u, k) ==
    /\ u \in Seq(Envelope)
    /\ Increasing(u)
    /\ ~AsksReplay(m) => u = <<>>
    /\ \A i \in DOMAIN u : u[i].sequence > m.since /\ u[i].sequence <= next_sequence
    /\ AsksReplay(m) =>
          \A i \in DOMAIN history[scope[k]] :
              history[scope[k]][i].event \in m.events /\ history[scope[k]][i].sequence > m.since =>
                  \E j \in DOMAIN u : u[j] = history[scope[k]][i]

\* Answering a subscription or an unsubscription preserves the invariant.
LEMMA AnswerInv ==
    ASSUME DeliveryInv, NEW k \in ConnIds, k = transport.socket, Live,
           transport.readyState[k] = "open", Connected(k),
           Outbox # <<>>, NEW m, m = Outbox[1], m.type \in {"subscribe", "unsubscribe"},
           NEW u, RepliesTo(m, u, k),
           Sound(transport'),
           transport'.session = transport.session,
           transport'.handlers = transport.handlers,
           transport'.socket = transport.socket,
           transport'.lastSequence = transport.lastSequence,
           transport'.readyState = transport.readyState,
           Outbox' = Tail(Outbox),
           NEW p, Answered(Inbox, Inbox', u, p),
           BusInv',
           UNCHANGED <<next_sequence, sessions, authorization, history, connections, queue, scope>>,
           \A j \in ConnIds \ {k} : subscriptions'[j] = subscriptions[j],
           subscriptions'[k] = IF m.type = "subscribe" THEN subscriptions[k] \cup m.events
                               ELSE subscriptions[k] \ m.events,
           UNCHANGED <<netVars, deliveryVars>>
    PROVE  DeliveryInv'
<1>. /\ p \in Nat /\ DOMAIN Inbox = 1..p
     /\ \A i \in 1..p : i \in DOMAIN Inbox' /\ Inbox'[i] = Inbox[i]
     /\ \A i \in EventsIn(Inbox') \ 1..p :
           i - (p + 1) \in DOMAIN u /\ Inbox'[i].envelope = u[i - (p + 1)]
     /\ \A j \in DOMAIN u : j + (p + 1) \in EventsIn(Inbox') /\ Inbox'[j + (p + 1)].envelope = u[j]
  BY Zenon DEF Answered, EventsIn
<1>. /\ u \in Seq(Envelope) /\ Increasing(u)
     /\ ~AsksReplay(m) => u = <<>>
     /\ \A i \in DOMAIN u : u[i].sequence > m.since /\ u[i].sequence <= next_sequence
     /\ AsksReplay(m) =>
           \A i \in DOMAIN history[scope[k]] :
               history[scope[k]][i].event \in m.events /\ history[scope[k]][i].sequence > m.since =>
                   \E j \in DOMAIN u : u[j] = history[scope[k]][i]
  BY Zenon DEF RepliesTo
<1>1. UNCHANGED <<cookie, issued, restarts, delivered, owed, carried>>
  BY DEF netVars, serverVars, deliveryVars
<1>2. /\ Live' /\ Client!IsOpen(transport) /\ Client!IsOpen(transport)'
      /\ Queued' = Queued
      /\ Inbox' \in Seq(Messages)
  <2>1. Live' /\ Client!IsOpen(transport) /\ Client!IsOpen(transport)'
    BY TabAssumption DEF Live, LiveStates, Client!IsOpen
  <2>. QED
    BY <2>1 DEF Queued, Inbox, Live, Sound, Transports
<1>3. /\ Outbox \in Seq(Controls) /\ m \in Controls /\ 1 \in DOMAIN Outbox
      /\ Len(Outbox) \in Nat \ {0} /\ DOMAIN Outbox = 1..Len(Outbox)
      /\ DOMAIN Outbox' = 1..(Len(Outbox) - 1)
      /\ \A i \in 1..(Len(Outbox) - 1) : Outbox'[i] = Outbox[i + 1]
  <2>1. Outbox \in Seq(Controls)
    BY DEF DeliveryInv, TypeOK, TransportTypeOK, Transports, Outbox, Live
  <2>. QED
    BY <2>1, TailIndices
<1>4. /\ \A i \in DOMAIN Outbox' : i + 1 \in DOMAIN Outbox /\ Outbox'[i] = Outbox[i + 1] /\ i + 1 # 1
      /\ \A j \in DOMAIN Outbox \ {1} : j - 1 \in DOMAIN Outbox' /\ Outbox'[j - 1] = Outbox[j]
  BY <1>3
<1>5. \A i \in DOMAIN Outbox' : ~AsksReplay(Outbox'[i])
  BY <1>4 DEF DeliveryInv, ReplayFirst
\* A replay is the first thing that flows.
<1>6. u # <<>> => /\ AsksReplay(m)
                  /\ transport.lastSequence \in {0, m.since}
                  /\ EventsIn(Inbox) = {} /\ Queued = <<>>
  BY <1>3 DEF DeliveryInv, ReplayFirst
<1>7. /\ \A i \in EventsIn(Inbox) : i \in EventsIn(Inbox') /\ Inbox'[i] = Inbox[i]
      /\ \A i \in EventsIn(Inbox') : i \in EventsIn(Inbox) \/ i \notin 1..p
      /\ \A i \in EventsIn(Inbox') : i \in Int
  <2>1. \A i \in EventsIn(Inbox') : i \in Int
    BY <1>2 DEF EventsIn
  <2>. QED
    BY <2>1 DEF EventsIn
<1>8. \A i \in EventsIn(Inbox') \ EventsIn(Inbox) :
         i - (p + 1) \in DOMAIN u /\ Inbox'[i].envelope = u[i - (p + 1)] /\ u # <<>>
  BY <1>7
<1>9. ASSUME NEW n \in Int, Above(n)
      PROVE  /\ \A i \in EventsIn(Inbox') : Inbox'[i].envelope.sequence > n
             /\ \A j \in DOMAIN Queued' : Queued'[j].sequence > n
             /\ \A i \in DOMAIN Outbox' : AsksReplay(Outbox'[i]) => Outbox'[i].since >= n
  <2>1. \A i \in EventsIn(Inbox') : Inbox'[i].envelope.sequence > n
    <3>. TAKE i \in EventsIn(Inbox')
    <3>1. CASE i \in EventsIn(Inbox)
      BY <1>7, <1>9, <3>1 DEF Above
    <3>2. CASE i \notin EventsIn(Inbox)
      <4>1. i - (p + 1) \in DOMAIN u /\ Inbox'[i].envelope = u[i - (p + 1)] /\ AsksReplay(m)
        BY <1>6, <1>8, <3>2
      <4>2. m.since >= n /\ m.since \in Int
        <5>1. m.since \in Int
          BY <1>3, <4>1, ControlTyped DEF AsksReplay
        <5>2. Outbox[1].since >= n
          BY <1>3, <1>9, <4>1 DEF Above
        <5>. QED
          BY <5>1, <5>2
      <4>3. u[i - (p + 1)].sequence \in Int /\ u[i - (p + 1)].sequence > m.since
        <5>1. u[i - (p + 1)] \in Envelope
          BY <4>1
        <5>. QED
          BY <4>1, <5>1 DEF Envelope
      <4>. QED
        BY <4>1, <4>2, <4>3
    <3>. QED
      BY <3>1, <3>2
  <2>. QED
    BY <1>2, <1>5, <1>9, <2>1 DEF Above
<1>10. TransportTypeOK' /\ OneSocket' /\ Waits'
  BY DEF Sound, Lives, TransportTypeOK, OneSocket, Waits, Live, LiveStates
<1>11. TypeOK'
  BY <1>10 DEF DeliveryInv, TypeOK, BusInv, netVars, serverVars, deliveryVars
<1>12. KnownSessions' /\ CurrentScope'
  BY <1>1 DEF DeliveryInv, KnownSessions, CurrentScope
<1>13. Fresh'
  <2>1. scope[k] # NoSession
    BY DEF Connected
  <2>. QED
    BY <2>1 DEF DeliveryInv, Fresh
<1>14. ReplayFirst'
  BY <1>4, <1>5 DEF DeliveryInv, ReplayFirst, AsksReplay
<1>15. Stream'
  <2>1. \A i, j \in EventsIn(Inbox') : i < j => Inbox'[i].envelope.sequence < Inbox'[j].envelope.sequence
    <3>. SUFFICES ASSUME NEW i \in EventsIn(Inbox'), NEW j \in EventsIn(Inbox'), i < j
                  PROVE  Inbox'[i].envelope.sequence < Inbox'[j].envelope.sequence
      OBVIOUS
    <3>1. CASE u = <<>>
      BY <1>7, <1>8, <3>1 DEF DeliveryInv, Stream
    <3>2. CASE u # <<>>
      <4>1. /\ i - (p + 1) \in DOMAIN u /\ Inbox'[i].envelope = u[i - (p + 1)]
            /\ j - (p + 1) \in DOMAIN u /\ Inbox'[j].envelope = u[j - (p + 1)]
        BY <1>6, <1>8, <3>2
      <4>2. i - (p + 1) < j - (p + 1)
        BY <1>7
      <4>. QED
        BY <4>1, <4>2 DEF Increasing
    <3>. QED
      BY <3>1, <3>2
  <2>2. \A i \in EventsIn(Inbox') :
           /\ Inbox'[i].envelope.sequence <= next_sequence
           /\ \A j \in DOMAIN Queued' : Inbox'[i].envelope.sequence < Queued'[j].sequence
    <3>. TAKE i \in EventsIn(Inbox')
    <3>1. CASE u = <<>>
      BY <1>2, <1>7, <1>8, <3>1 DEF DeliveryInv, Stream
    <3>2. CASE u # <<>>
      BY <1>2, <1>6, <1>8, <3>2
    <3>. QED
      BY <3>1, <3>2
  <2>. QED
    BY <2>1, <2>2 DEF Stream, EventsIn
<1>16. InOrderOnce'
  BY <1>1 DEF DeliveryInv, InOrderOnce
<1>17. DeliveredBefore'
  <2>1. ASSUME NEW i \in DOMAIN delivered
        PROVE  /\ delivered[i][1] <= restarts
               /\ delivered[i][1] = restarts =>
                  /\ delivered[i][2] <= next_sequence
                  /\ transport'.lastSequence = 0 \/ delivered[i][2] <= transport'.lastSequence
                  /\ \A j \in EventsIn(Inbox') : Inbox'[j].envelope.sequence > delivered[i][2]
                  /\ \A j \in DOMAIN Queued' : Queued'[j].sequence > delivered[i][2]
                  /\ \A j \in DOMAIN Outbox' : AsksReplay(Outbox'[j]) => Outbox'[j].since >= delivered[i][2]
    <3>1. PICK n : n = delivered[i][2]
      OBVIOUS
    <3>2. n \in Int
      BY <3>1 DEF DeliveryInv, TypeOK
    <3>3. /\ delivered[i][1] <= restarts
          /\ delivered[i][1] = restarts =>
               n <= next_sequence /\ (transport.lastSequence = 0 \/ n <= transport.lastSequence) /\ Above(n)
      BY <3>1 DEF DeliveryInv, DeliveredBefore
    <3>. QED
      BY <1>9, <3>1, <3>2, <3>3
  <2>. QED
    BY <1>1, <2>1 DEF DeliveredBefore, Above, EventsIn, AsksReplay
<1>18. LastSequenceInSession'
  <2>. SUFFICES ASSUME ~carried, transport.session # NoSession,
                       transport.session = cookie \/ \E j \in ConnIds : scope[j] = transport.session
                PROVE  transport.lastSequence <= next_sequence /\ Above(transport.lastSequence)'
    BY <1>1 DEF LastSequenceInSession
  <2>1. PICK n : n = transport.lastSequence
    OBVIOUS
  <2>2. n <= next_sequence /\ Above(n) /\ n \in Int
    BY <2>1 DEF DeliveryInv, LastSequenceInSession, TypeOK, TransportTypeOK, Transports
  <2>3. /\ \A j \in EventsIn(Inbox') : Inbox'[j].envelope.sequence > n
        /\ \A j \in DOMAIN Queued' : Queued'[j].sequence > n
        /\ \A j \in DOMAIN Outbox' : AsksReplay(Outbox'[j]) => Outbox'[j].since >= n
    BY <1>9, <2>2
  <2>. QED
    BY <2>1, <2>2, <2>3 DEF Above, EventsIn, AsksReplay
<1>19. Client!subscribedEvents(transport') = Client!subscribedEvents(transport)
  BY DEF Client!subscribedEvents
<1>20. ServesSubscribed'
  <2>. SUFFICES ASSUME NEW e \in Client!subscribedEvents(transport)
                PROVE  WillServe(e)'
    BY <1>19 DEF ServesSubscribed
  <2>1. WillServe(e)
    BY <1>2 DEF DeliveryInv, ServesSubscribed
  <2>2. ASSUME NEW i \in DOMAIN Outbox', About(Outbox'[i], e), Outbox'[i].type = "unsubscribe"
        PROVE  \E j \in DOMAIN Outbox' : j > i /\ About(Outbox'[j], e) /\ Outbox'[j].type = "subscribe"
    <3>1. i + 1 \in DOMAIN Outbox /\ Outbox'[i] = Outbox[i + 1]
      BY <1>4
    <3>2. PICK j \in DOMAIN Outbox : j > i + 1 /\ About(Outbox[j], e) /\ Outbox[j].type = "subscribe"
      BY <2>1, <2>2, <3>1 DEF WillServe
    <3>3. j - 1 > i /\ j # 1
      BY <1>3, <3>1, <3>2
    <3>. QED
      BY <1>4, <3>2, <3>3
  <2>3. ASSUME \A i \in DOMAIN Outbox' : ~About(Outbox'[i], e)
        PROVE  e \in subscriptions'[k]
    <3>1. \A j \in DOMAIN Outbox \ {1} : ~About(Outbox[j], e)
      BY <1>4, <2>3
    <3>2. CASE ~About(m, e)
      <4>1. e \in subscriptions[k]
        BY <2>1, <3>1, <3>2 DEF WillServe
      <4>. QED
        BY <3>2, <4>1 DEF About
    <3>3. CASE About(m, e)
      <4>1. m.type # "unsubscribe"
        <5>. SUFFICES ASSUME m.type = "unsubscribe" PROVE FALSE
          OBVIOUS
        <5>1. PICK j \in DOMAIN Outbox : j > 1 /\ About(Outbox[j], e)
          BY <1>3, <2>1, <3>3 DEF WillServe
        <5>2. j # 1
          BY <1>3, <5>1
        <5>. QED
          BY <3>1, <5>1, <5>2
      <4>. QED
        BY <3>3, <4>1 DEF About
    <3>. QED
      BY <3>2, <3>3
  <2>. QED
    BY <2>2, <2>3 DEF WillServe, About
<1>21. PromisesKept'
  <2>. SUFFICES ASSUME NEW o \in owed, o.seen
                PROVE  Promised(o)'
    BY <1>1 DEF PromisesKept
  <2>1. Promised(o)
    BY DEF DeliveryInv, PromisesKept
  <2>2. Replayable(o)' => Replayable(o)
    BY <1>1 DEF Replayable, HasDelivered
  <2>3. ASSUME Coming(o.envelope), Replayable(o)
        PROVE  Coming(o.envelope)'
    <3>1. CASE \E i \in EventsIn(Inbox) : Inbox[i].envelope = o.envelope
      BY <1>7, <3>1 DEF Coming, EventsIn
    <3>2. CASE /\ ~\E i \in EventsIn(Inbox) : Inbox[i].envelope = o.envelope
               /\ \E j \in DOMAIN Queued : Queued[j] = o.envelope
      <4>1. u = <<>>
        BY <1>6, <3>2
      <4>2. \A i \in EventsIn(Inbox') : i \in EventsIn(Inbox) /\ Inbox'[i] = Inbox[i]
        BY <1>7, <1>8, <4>1
      <4>3. \A i \in EventsIn(Inbox) : Inbox[i].envelope.sequence < o.envelope.sequence
        BY <2>3, <3>2 DEF Coming
      <4>. QED
        BY <1>2, <3>2, <4>2, <4>3 DEF Coming, EventsIn
    <3>3. CASE \E i \in DOMAIN Outbox :
                  /\ AsksReplay(Outbox[i])
                  /\ o.envelope.event \in Outbox[i].events
                  /\ Outbox[i].since < o.envelope.sequence
      <4>1. PICK i \in DOMAIN Outbox :
                  /\ AsksReplay(Outbox[i])
                  /\ o.envelope.event \in Outbox[i].events
                  /\ Outbox[i].since < o.envelope.sequence
        BY <3>3
      <4>2. i = 1
        BY <4>1 DEF DeliveryInv, ReplayFirst
      <4>3. /\ AsksReplay(m) /\ o.envelope.event \in m.events
            /\ o.envelope.sequence > m.since
        <5>1. m.since \in Int
          BY <1>3, <4>1, <4>2, ControlTyped DEF AsksReplay
        <5>2. o.envelope.sequence \in Int
          BY DEF DeliveryInv, TypeOK, Envelope
        <5>. QED
          BY <4>1, <4>2, <5>1, <5>2
      <4>4. o.session = cookie /\ o.session \in SessionIds
        BY <2>1, <2>3 DEF Replayable, Promised, DeliveryInv, TypeOK
      <4>5. PICK j \in DOMAIN history[cookie] : history[cookie][j] = o.envelope
        BY <2>3, <4>4 DEF Replayable
      <4>6. scope[k] = cookie
        BY <4>4, <4>5, HistoryInSession, OwnScope
      <4>7. PICK l \in DOMAIN u : u[l] = o.envelope
        BY <4>3, <4>5, <4>6, SMTT(30)
      <4>. QED
        BY <4>7 DEF Coming, EventsIn
    <3>. QED
      BY <2>3, <3>1, <3>2, <3>3 DEF Coming
  <2>. QED
    BY <1>2, <1>19, <2>1, <2>2, <2>3 DEF Promised
<1>. QED
  BY <1>10, <1>11, <1>12, <1>13, <1>14, <1>15, <1>16, <1>17, <1>18, <1>20, <1>21 DEF DeliveryInv

\* An answer is an acknowledgement and the replayed events behind it.
LEMMA AnswerTyped ==
    ASSUME NEW u \in Seq(Envelope), NEW a \in Messages
    PROVE  LET events == [i \in DOMAIN u |-> EventMessage(u[i])]
               answer == <<a>> \o events
           IN
           /\ answer \in Seq(Messages)
           /\ Len(u) \in Nat /\ DOMAIN u = 1..Len(u)
           /\ Len(answer) = Len(u) + 1
           /\ answer[1] = a
           /\ \A i \in 1..Len(u) : answer[i + 1] = EventMessage(u[i])
<1>. DEFINE events == [i \in DOMAIN u |-> EventMessage(u[i])]
            answer == <<a>> \o events
<1>1. Len(u) \in Nat /\ DOMAIN u = 1..Len(u)
  OBVIOUS
<1>2. \A i \in 1..Len(u) : EventMessage(u[i]) \in Messages
  <2>. TAKE i \in 1..Len(u)
  <2>1. u[i] \in Envelope
    BY <1>1
  <2>. QED
    BY <2>1, EventTyped
<1>3. /\ events \in Seq(Messages) /\ Len(events) = Len(u)
      /\ \A i \in 1..Len(u) : events[i] = EventMessage(u[i])
  BY <1>1, <1>2
<1>. HIDE DEF events
<1>4. /\ answer \in Seq(Messages) /\ Len(answer) = Len(u) + 1 /\ answer[1] = a
      /\ \A i \in 1..Len(u) : answer[i + 1] = events[i]
  BY <1>1, <1>3
<1>. HIDE DEF answer
<1>5. \A i \in 1..Len(u) : answer[i + 1] = EventMessage(u[i])
  BY <1>3, <1>4
<1>. QED
  BY <1>1, <1>4, <1>5, Zenon DEF answer, events

\* The positions of a queue with an answer behind it.
LEMMA ConcatIndices ==
    ASSUME NEW q \in Seq(Messages), NEW a \in Seq(Messages)
    PROVE  /\ Len(q \o a) = Len(q) + Len(a) /\ DOMAIN (q \o a) = 1..Len(q \o a)
           /\ \A i \in 1..Len(q) : (q \o a)[i] = q[i]
           /\ \A i \in 1..Len(a) : (q \o a)[Len(q) + i] = a[i]
OBVIOUS

IsAnswer(answer, u) ==
    /\ answer \in Seq(Messages)
    /\ Len(answer) = Len(u) + 1
    /\ answer[1].type # "event"
    /\ \A i \in 1..Len(u) : answer[i + 1] = EventMessage(u[i])

\* An answer is a replay in order with its acknowledgement, behind the inbox.
LEMMA AnswerIndices ==
    ASSUME NEW q \in Seq(Messages), NEW u \in Seq(Envelope), NEW answer, IsAnswer(answer, u)
    PROVE  Answered(q, q \o answer, u, Len(q))
<1>. DEFINE r == q \o answer
            p == Len(q)
<1>. USE DEF IsAnswer
<1>1. /\ p \in Nat /\ DOMAIN q = 1..p
      /\ Len(u) \in Nat /\ DOMAIN u = 1..Len(u)
      /\ DOMAIN r = 1..(p + Len(u) + 1)
      /\ \A i \in 1..p : r[i] = q[i]
      /\ \A i \in 1..(Len(u) + 1) : r[p + i] = answer[i]
  <2>1. /\ p \in Nat /\ DOMAIN q = 1..p /\ Len(u) \in Nat /\ DOMAIN u = 1..Len(u)
    OBVIOUS
  <2>2. /\ Len(r) = p + Len(answer) /\ DOMAIN r = 1..Len(r)
        /\ \A i \in 1..p : r[i] = q[i]
        /\ \A i \in 1..Len(answer) : r[p + i] = answer[i]
    BY ConcatIndices, Zenon
  <2>. HIDE DEF r, p
  <2>. QED
    BY <2>1, <2>2
<1>. HIDE DEF r, p
<1>2. \A j \in 1..Len(u) : /\ j + (p + 1) \in DOMAIN r
                           /\ r[j + (p + 1)] = EventMessage(u[j])
                           /\ EventMessage(u[j]).type = "event" /\ EventMessage(u[j]).envelope = u[j]
  <2>. TAKE j \in 1..Len(u)
  <2>1. u[j] \in Envelope
    BY <1>1
  <2>2. j + 1 \in 1..(Len(u) + 1) /\ p + (j + 1) = j + (p + 1) /\ j + (p + 1) \in DOMAIN r
    BY <1>1
  <2>3. r[p + (j + 1)] = answer[j + 1]
    BY <1>1, <2>2
  <2>. QED
    BY <2>1, <2>2, <2>3, EventTyped
<1>3. ASSUME NEW i \in EventsIn(r), i \notin 1..p
      PROVE  i - (p + 1) \in 1..Len(u) /\ i = (i - (p + 1)) + (p + 1)
  <2>1. i \in 1..(p + Len(u) + 1) /\ r[i].type = "event"
    BY <1>1 DEF EventsIn
  <2>2. i # p + 1
    <3>. SUFFICES ASSUME i = p + 1 PROVE FALSE
      OBVIOUS
    <3>1. r[p + 1] = answer[1]
      BY <1>1
    <3>. QED
      BY <2>1, <3>1
  <2>3. p \in Nat /\ Len(u) \in Nat
    BY <1>1
  <2>. HIDE DEF IsAnswer
  <2>. QED
    BY <1>3, <2>1, <2>2, <2>3
<1>4. \A i \in EventsIn(r) \ 1..p : i - (p + 1) \in DOMAIN u /\ r[i].envelope = u[i - (p + 1)]
  <2>. TAKE i \in EventsIn(r) \ 1..p
  <2>1. PICK j \in 1..Len(u) : j = i - (p + 1) /\ i = j + (p + 1)
    BY <1>3
  <2>2. r[j + (p + 1)].envelope = u[j] /\ j \in DOMAIN u
    BY <1>1, <1>2, Zenon
  <2>. QED
    BY <2>1, <2>2, Zenon
<1>5. \A j \in DOMAIN u : j + (p + 1) \in EventsIn(r) /\ r[j + (p + 1)].envelope = u[j]
  BY <1>1, <1>2, Zenon DEF EventsIn
<1>6. \A i \in 1..p : i \in DOMAIN r /\ r[i] = q[i]
  BY <1>1
<1>. QED
  BY <1>1, <1>4, <1>5, <1>6, Zenon DEF r, p, Answered

\* What handle_event_control changes of the bus, and which sockets can send.
LEMMA SubscribedBus ==
    ASSUME DeliveryInv, NEW k \in ConnIds, NEW m \in Controls, m.type \in {"subscribe", "unsubscribe"},
           \/ m.type = "subscribe" /\ Subscribe(k, m.events)
           \/ m.type = "unsubscribe" /\ Unsubscribe(k, m.events)
    PROVE  /\ BusInv' /\ BusShrinks /\ Connected(k)
           /\ UNCHANGED <<next_sequence, sessions, authorization, history, connections, queue, scope>>
           /\ \A j \in ConnIds \ {k} : subscriptions'[j] = subscriptions[j]
           /\ subscriptions'[k] = IF m.type = "subscribe" THEN subscriptions[k] \cup m.events
                                  ELSE subscriptions[k] \ m.events
<1>. m.events \in SUBSET Events
  BY ControlTyped
<1>1. CASE m.type = "subscribe" /\ Subscribe(k, m.events)
  <2>1. BusInv'
    BY <1>1, SubscribeInv DEF DeliveryInv
  <2>2. /\ Connected(k)
        /\ UNCHANGED <<next_sequence, sessions, authorization, history, connections, queue, scope>>
        /\ \A j \in ConnIds \ {k} : subscriptions'[j] = subscriptions[j]
        /\ subscriptions'[k] = subscriptions[k] \cup m.events
    BY <1>1 DEF DeliveryInv, TypeOK, BusTypeOK, Subscribe, CanSubscribe
  <2>3. BusShrinks
    BY <2>2 DEF BusShrinks, DeliveryInv, Fresh, Connected
  <2>. QED
    BY <1>1, <2>1, <2>2, <2>3
<1>2. CASE m.type = "unsubscribe" /\ Unsubscribe(k, m.events)
  <2>1. BusInv'
    BY <1>2, UnsubscribeInv DEF DeliveryInv
  <2>2. /\ Connected(k)
        /\ UNCHANGED <<next_sequence, sessions, authorization, history, connections, queue, scope>>
        /\ \A j \in ConnIds \ {k} : subscriptions'[j] = subscriptions[j]
        /\ subscriptions'[k] = subscriptions[k] \ m.events
    BY <1>2 DEF DeliveryInv, TypeOK, BusTypeOK, Unsubscribe, CanUnsubscribe
  <2>3. BusShrinks
    BY <2>2 DEF BusShrinks, DeliveryInv, Fresh, Connected
  <2>. QED
    BY <1>2, <2>1, <2>2, <2>3
<1>. QED
  BY <1>1, <1>2

\* The control message the server reads is the first of the outbox.
LEMMA ControlHead ==
    ASSUME DeliveryInv, NEW k \in ConnIds, transport.outbox[k] # <<>>
    PROVE  /\ transport.outbox[k] \in Seq(Controls)
           /\ Head(transport.outbox[k]) \in Controls
           /\ Head(transport.outbox[k]) = transport.outbox[k][1]
<1>1. transport.outbox[k] \in Seq(Controls)
  BY DEF DeliveryInv, TypeOK, TransportTypeOK, Transports
<1>. QED
  BY <1>1

\* Control messages come from a socket that has opened.
LEMMA OpenControl ==
    ASSUME DeliveryInv, NEW k \in ConnIds, transport.outbox[k] # <<>>,
           transport.readyState[k] \in LiveStates
    PROVE  k = transport.socket /\ Live /\ transport.readyState[k] = "open"
<1>1. k = transport.socket /\ Live
  BY OnlySocket
<1>. QED
  BY <1>1 DEF DeliveryInv, Fresh, LiveStates, Outbox

\* Handling an unsubscription preserves the invariant.
LEMMA CeasesInv ==
    ASSUME DeliveryInv, NEW k \in ConnIds, transport.outbox[k] # <<>>,
           NEW m, m = Head(transport.outbox[k]), Ceases(k, m), UNCHANGED <<netVars, deliveryVars>>
    PROVE  DeliveryInv'
<1>1. /\ transport.outbox[k] \in Seq(Controls) /\ m \in Controls /\ m = transport.outbox[k][1]
      /\ m.type = "unsubscribe"
  BY ControlHead DEF Ceases
<1>2. /\ BusInv' /\ BusShrinks /\ Connected(k)
      /\ UNCHANGED <<next_sequence, sessions, authorization, history, connections, queue, scope>>
      /\ \A j \in ConnIds \ {k} : subscriptions'[j] = subscriptions[j]
      /\ subscriptions'[k] = IF m.type = "subscribe" THEN subscriptions[k] \cup m.events
                             ELSE subscriptions[k] \ m.events
  BY <1>1, SubscribedBus DEF Ceases
<1>3. PICK ack : ack = [type |-> "unsubscribed"]
  OBVIOUS
<1>4. ack \in Messages /\ ack.type # "event" /\ <<ack>> \in Seq(Messages)
  <2>1. ack \in Messages /\ ack.type # "event"
    BY <1>3 DEF Messages
  <2>. QED
    BY <2>1
<1>5. /\ Sound(transport')
      /\ transport'.session = transport.session
      /\ transport'.handlers = transport.handlers
      /\ transport'.socket = transport.socket
      /\ transport'.lastSequence = transport.lastSequence
      /\ transport'.readyState = transport.readyState
      /\ transport'.outbox[k] = Tail(transport.outbox[k])
      /\ \A j \in ConnIds \ {k} : /\ transport'.inbox[j] = transport.inbox[j]
                                  /\ transport'.outbox[j] = transport.outbox[j]
      /\ transport'.inbox[k] = IF transport.readyState[k] \in {"upgraded", "open"}
                               THEN transport.inbox[k] \o <<ack>> ELSE transport.inbox[k]
  BY <1>3, <1>4, ControlShape DEF Ceases
<1>6. CASE transport.readyState[k] \notin LiveStates
  BY <1>2, <1>5, <1>6, AwayInv
<1>7. CASE transport.readyState[k] \in LiveStates
  <2>1. k = transport.socket /\ Live /\ transport.readyState[k] = "open"
    BY <1>7, OpenControl
  <2>2. Inbox \in Seq(Messages) /\ Outbox # <<>> /\ m = Outbox[1]
    BY <1>1, <2>1 DEF DeliveryInv, TypeOK, TransportTypeOK, Transports, Inbox, Outbox
  <2>3. Inbox' = Inbox \o <<ack>> /\ Outbox' = Tail(Outbox)
    BY <1>5, <2>1 DEF Inbox, Outbox
  <2>4. PICK p : p = Len(Inbox)
    OBVIOUS
  <2>5. PICK u : u = <<>>
    OBVIOUS
  <2>6. u \in Seq(Envelope) /\ Increasing(u) /\ DOMAIN u = {}
    BY <2>5 DEF Increasing
  <2>7. /\ p \in Nat /\ DOMAIN Inbox = 1..p
        /\ DOMAIN Inbox' = 1..(p + 1)
        /\ \A i \in 1..p : Inbox'[i] = Inbox[i]
        /\ Inbox'[p + 1] = ack
    BY <1>4, <2>2, <2>3, <2>4, SnocIndices
  <2>8. \A i \in 1..p : i \in DOMAIN Inbox' /\ Inbox'[i] = Inbox[i]
    BY <2>7
  <2>9. EventsIn(Inbox') \ 1..p = {}
    <3>. SUFFICES ASSUME NEW i \in EventsIn(Inbox'), i \notin 1..p PROVE FALSE
      OBVIOUS
    <3>1. i = p + 1 /\ Inbox'[i].type = "event"
      BY <2>7 DEF EventsIn
    <3>. QED
      BY <1>4, <2>7, <3>1
  <2>10. RepliesTo(m, u, k)
    BY <1>1, <2>5, <2>6 DEF RepliesTo, AsksReplay
  <2>11. Answered(Inbox, Inbox', u, p)
    BY <2>6, <2>7, <2>8, <2>9 DEF Answered, EventsIn
  <2>. QED
    BY <1>1, <1>2, <1>5, <2>1, <2>2, <2>3, <2>10, <2>11, AnswerInv
<1>. QED
  BY <1>6, <1>7

\* Handling a subscription preserves the invariant.
LEMMA AnswersInv ==
    ASSUME DeliveryInv, NEW k \in ConnIds, transport.outbox[k] # <<>>,
           NEW m, m = Head(transport.outbox[k]), Answers(k, m), UNCHANGED <<netVars, deliveryVars>>
    PROVE  DeliveryInv'
<1>1. /\ transport.outbox[k] \in Seq(Controls) /\ m \in Controls /\ m = transport.outbox[k][1]
      /\ m.type = "subscribe" /\ m.since \in Nat
  <2>1. /\ transport.outbox[k] \in Seq(Controls) /\ m \in Controls /\ m = transport.outbox[k][1]
        /\ m.type = "subscribe"
    BY ControlHead DEF Answers
  <2>. QED
    BY <2>1, ControlTyped, ConfigAssumption
<1>2. /\ BusInv' /\ BusShrinks /\ Connected(k)
      /\ UNCHANGED <<next_sequence, sessions, authorization, history, connections, queue, scope>>
      /\ \A j \in ConnIds \ {k} : subscriptions'[j] = subscriptions[j]
      /\ subscriptions'[k] = IF m.type = "subscribe" THEN subscriptions[k] \cup m.events
                             ELSE subscriptions[k] \ m.events
  BY <1>1, SubscribedBus DEF Answers
<1>3. scope[k] \in SessionIds
  BY <1>2 DEF Connected, DeliveryInv, TypeOK, BusTypeOK
<1>4. PICK u : u = Replay(scope[k], m.events, m.since)
  OBVIOUS
<1>5. /\ u \in Seq(Envelope) /\ Increasing(u)
      /\ m.since = 0 => u = <<>>
      /\ \A i \in DOMAIN u : u[i].sequence > m.since /\ u[i].sequence <= next_sequence
      /\ m.since > 0 =>
           \A i \in DOMAIN history[scope[k]] :
               history[scope[k]][i].event \in m.events /\ history[scope[k]][i].sequence > m.since =>
                   \E j \in DOMAIN u : u[j] = history[scope[k]][i]
  <2>1. BusInv
    BY DEF DeliveryInv
  <2>2. PICK n \in Nat : n = m.since
    BY <1>1
  <2>3. PICK s \in SessionIds : s = scope[k]
    BY <1>3
  <2>4. PICK E : E = m.events
    OBVIOUS
  <2>5. LET replay == Replay(s, E, n) IN
        /\ replay \in Seq(Envelope)
        /\ n = 0 => replay = <<>>
        /\ \A i \in DOMAIN replay : replay[i].sequence > n /\ replay[i].sequence <= next_sequence
        /\ n > 0 =>
             \A i \in DOMAIN history[s] :
                 history[s][i].event \in E /\ history[s][i].sequence > n =>
                     \E j \in DOMAIN replay : replay[j] = history[s][i]
        /\ Increasing(replay)
    BY <2>1, Replayed
  <2>6. u = Replay(s, E, n)
    BY <1>4, <2>2, <2>3, <2>4
  <2>7. /\ u \in Seq(Envelope) /\ Increasing(u)
        /\ n = 0 => u = <<>>
        /\ \A i \in DOMAIN u : u[i].sequence > n /\ u[i].sequence <= next_sequence
        /\ n > 0 =>
             \A i \in DOMAIN history[s] :
                 history[s][i].event \in E /\ history[s][i].sequence > n =>
                     \E j \in DOMAIN u : u[j] = history[s][i]
    BY <2>5, <2>6
  <2>. QED
    BY <2>2, <2>3, <2>4, <2>7
<1>6. ~AsksReplay(m) => u = <<>>
  BY <1>1, <1>5 DEF AsksReplay
<1>7. AsksReplay(m) =>
        \A i \in DOMAIN history[scope[k]] :
            history[scope[k]][i].event \in m.events /\ history[scope[k]][i].sequence > m.since =>
                \E j \in DOMAIN u : u[j] = history[scope[k]][i]
  BY <1>5 DEF AsksReplay
<1>8. PICK ack : ack = [type |-> "subscribed", events |-> m.events]
  OBVIOUS
<1>9. ack \in Messages /\ ack.type # "event"
  <2>1. m.events \in SUBSET Events
    BY <1>1, ControlTyped
  <2>. QED
    BY <1>8, <2>1 DEF Messages
<1>10. PICK answer : answer = <<ack>> \o [i \in DOMAIN u |-> EventMessage(u[i])]
  OBVIOUS
<1>11. /\ answer \in Seq(Messages) /\ Len(answer) = Len(u) + 1 /\ answer[1].type # "event"
       /\ \A i \in 1..Len(u) : answer[i + 1] = EventMessage(u[i])
  BY <1>5, <1>9, <1>10, AnswerTyped, Zenon
<1>12. transport' = Reply([transport EXCEPT !.outbox[k] = Tail(@)], k, answer)
  BY <1>4, <1>8, <1>10, Zenon DEF Answers
<1>13. /\ Sound(transport')
       /\ transport'.session = transport.session
       /\ transport'.handlers = transport.handlers
       /\ transport'.socket = transport.socket
       /\ transport'.lastSequence = transport.lastSequence
       /\ transport'.readyState = transport.readyState
       /\ transport'.outbox[k] = Tail(transport.outbox[k])
       /\ \A j \in ConnIds \ {k} : /\ transport'.inbox[j] = transport.inbox[j]
                                   /\ transport'.outbox[j] = transport.outbox[j]
       /\ transport'.inbox[k] = IF transport.readyState[k] \in {"upgraded", "open"}
                                THEN transport.inbox[k] \o answer ELSE transport.inbox[k]
  BY <1>11, <1>12, ControlShape
<1>14. CASE transport.readyState[k] \notin LiveStates
  BY <1>2, <1>13, <1>14, AwayInv
<1>15. CASE transport.readyState[k] \in LiveStates
  <2>1. k = transport.socket /\ Live /\ transport.readyState[k] = "open"
    BY <1>15, OpenControl
  <2>2. Inbox \in Seq(Messages) /\ Outbox # <<>> /\ m = Outbox[1]
    BY <1>1, <2>1 DEF DeliveryInv, TypeOK, TransportTypeOK, Transports, Inbox, Outbox
  <2>3. Inbox' = Inbox \o answer /\ Outbox' = Tail(Outbox)
    BY <1>13, <2>1 DEF Inbox, Outbox
  <2>4. PICK p : p = Len(Inbox)
    OBVIOUS
  <2>5. Answered(Inbox, Inbox', u, p)
    <3>1. IsAnswer(answer, u)
      BY <1>11 DEF IsAnswer
    <3>2. Answered(Inbox, Inbox \o answer, u, Len(Inbox))
      BY <1>5, <2>2, <3>1, AnswerIndices
    <3>. QED
      BY <2>3, <2>4, <3>2
  <2>6. RepliesTo(m, u, k)
    BY <1>5, <1>6, <1>7, Zenon DEF RepliesTo
  <2>. QED
    BY <1>1, <1>2, <1>13, <2>1, <2>2, <2>3, <2>5, <2>6, AnswerInv
<1>. QED
  BY <1>14, <1>15

\* Handling any control message preserves the invariant.
LEMMA ControlInv ==
    ASSUME DeliveryInv, NEW k \in ConnIds, Control(k)
    PROVE  DeliveryInv'
<1>1. PICK m : m = Head(transport.outbox[k])
  OBVIOUS
<1>2. /\ scope[k] # NoSession /\ transport.outbox[k] # <<>>
      /\ Answers(k, m) \/ Ceases(k, m) \/ Rejects(k, m) \/ Leaves(k, m)
      /\ UNCHANGED <<netVars, deliveryVars>>
  BY <1>1, ControlCases
<1>. QED
  BY <1>1, <1>2, AnswersInv, CeasesInv, RejectsInv, LeavesInv

-----------------------------------------------------------------------------
\* publish gives the envelope x to the connections of its receivers that asked
\* for the event, or drops those connections.
Spreads(x, event) ==
    /\ BusInv'
    /\ x \in Envelope /\ x.event = event /\ x.sequence = next_sequence + 1
    /\ next_sequence \in Nat /\ next_sequence' = next_sequence + 1
    /\ sessions' \subseteq sessions
    /\ \A s \in sessions' : authorization'[s] = authorization[s]
    /\ UNCHANGED <<subscriptions, scope>>
    /\ \A c \in ConnIds :
         /\ Connected(c)' => Connected(c)
         /\ queue[c] \in Seq(Envelope)
         /\ \/ queue'[c] = queue[c]
            \/ queue'[c] = Append(queue[c], x) /\ scope[c] # NoSession /\ event \in subscriptions[c]
    /\ \A s \in SessionIds : \A i \in DOMAIN history'[s] :
         history'[s][i] = x \/ \E j \in DOMAIN history[s] : history'[s][i] = history[s][j]
    /\ \A c \in ConnIds :
         /\ Connected(c)' /\ event \in subscriptions[c]
         /\ \E i \in DOMAIN history'[scope[c]] : history'[scope[c]][i] = x
         => queue'[c] = Append(queue[c], x)
    /\ \A s \in SessionIds : (\E i \in DOMAIN history'[s] : history'[s][i] = x) => s \in sessions

\* Publishing gives one new envelope to the histories and queues it concerns.
LEMMA BusPublishes ==
    ASSUME BusInv, NEW target \in SessionIds \cup {Broadcast}, NEW event \in Events,
           Publish(target, event),
           NEW x, x = [event |-> event, payload |-> target, sequence |-> NextSequence]
    PROVE  Spreads(x, event)
<1>. DEFINE R == Receivers(target, event)
<1>1. BusInv'
  BY PublishInv
<1>2. x \in Envelope /\ x.event = event /\ x.sequence = next_sequence + 1 /\ next_sequence \in Nat
  BY ConfigAssumption DEF Publish, NextSequence, Envelope, BusInv, BusTypeOK
<1>3. /\ next_sequence' = next_sequence + 1
      /\ history' = [s \in SessionIds |-> IF s \in R THEN Push(history[s], x)
                                          ELSE IF s \in Expired THEN <<>> ELSE history[s]]
      /\ connections' = [s \in SessionIds |-> IF s \in R THEN Retained(s, event) ELSE connections[s]]
      /\ queue' = [c \in ConnIds |-> TrySend(c, x, R)]
      /\ sessions' = sessions \ Expired
      /\ authorization' = Without(authorization, Expired, 0)
      /\ UNCHANGED <<subscriptions, scope, auxVars>>
  BY DEF Publish, NextSequence
<1>4. R \subseteq sessions /\ sessions \subseteq SessionIds
  BY DEF Receivers, BusInv, BusTypeOK
<1>. HIDE DEF R
<1>5. \A s \in sessions' : authorization'[s] = authorization[s]
  BY <1>3, <1>4 DEF Without
<1>6. \A c \in ConnIds : /\ scope[c] \in SessionIds \cup {NoSession}
                         /\ queue[c] \in Seq(Envelope)
                         /\ queue'[c] = TrySend(c, x, R)
  BY <1>3 DEF BusInv, BusTypeOK
<1>7. \A s \in SessionIds : connections'[s] \subseteq connections[s]
  BY <1>3 DEF Retained
<1>8. \A c \in ConnIds : Connected(c)' => Connected(c)
  BY <1>3, <1>6, <1>7 DEF Connected
<1>9. \A c \in ConnIds : \/ queue'[c] = queue[c]
                         \/ /\ queue'[c] = Append(queue[c], x)
                            /\ scope[c] # NoSession /\ event \in subscriptions[c]
  BY <1>2, <1>4, <1>6, DistinctAssumption DEF TrySend
<1>10. \A s \in SessionIds : \A i \in DOMAIN history'[s] :
          /\ history'[s][i] = x \/ \E j \in DOMAIN history[s] : history'[s][i] = history[s][j]
          /\ s \notin R => \E j \in DOMAIN history[s] : history'[s][i] = history[s][j]
  <2>. TAKE s \in SessionIds
  <2>1. /\ history[s] \in Seq(Envelope) /\ Len(history[s]) <= HistoryCapacity /\ Increasing(history[s])
        /\ \A i \in DOMAIN history[s] : history[s][i].sequence <= next_sequence
    BY DEF BusInv, BusTypeOK, Lengths, InOrder, Published
  <2>2. \A i \in DOMAIN history[s] : history[s][i].sequence < x.sequence
    <3>. TAKE i \in DOMAIN history[s]
    <3>1. history[s][i] \in Envelope
      BY <2>1
    <3>. QED
      BY <1>2, <2>1, <3>1 DEF Envelope
  <2>3. \A i \in DOMAIN Push(history[s], x) :
           Push(history[s], x)[i] = x \/ \E j \in DOMAIN history[s] : Push(history[s], x)[i] = history[s][j]
    BY <1>2, <2>1, <2>2, PushOrdered
  <2>4. CASE s \in R
    <3>1. history'[s] = Push(history[s], x)
      BY <1>3, <2>4
    <3>. QED
      BY <2>3, <2>4, <3>1
  <2>5. CASE s \notin R
    <3>1. history'[s] = <<>> \/ history'[s] = history[s]
      BY <1>3, <2>5
    <3>. QED
      BY <2>5, <3>1
  <2>. QED
    BY <2>4, <2>5
<1>11. ASSUME NEW s \in SessionIds, NEW i \in DOMAIN history'[s], history'[s][i] = x
       PROVE  s \in R
  <2>. SUFFICES ASSUME s \notin R PROVE FALSE
    OBVIOUS
  <2>1. PICK j \in DOMAIN history[s] : x = history[s][j]
    BY <1>10, <1>11
  <2>2. history[s][j].sequence <= next_sequence
    BY DEF BusInv, Published
  <2>. QED
    BY <1>2, <2>1, <2>2
<1>12. ASSUME NEW c \in ConnIds, Connected(c)', event \in subscriptions[c],
              NEW i \in DOMAIN history'[scope[c]], history'[scope[c]][i] = x
       PROVE  queue'[c] = Append(queue[c], x)
  <2>1. scope[c] \in SessionIds /\ c \in connections'[scope[c]]
    BY <1>3, <1>6, <1>12 DEF Connected
  <2>2. scope[c] \in R
    BY <1>11, <1>12, <2>1
  <2>3. c \in connections[scope[c]] \ Overflowing(scope[c], event)
    BY <1>3, <2>1, <2>2 DEF Retained
  <2>. QED
    BY <1>2, <1>6, <1>12, <2>2, <2>3 DEF TrySend
<1>13. \A c \in ConnIds :
          /\ Connected(c)' /\ event \in subscriptions[c]
          /\ \E i \in DOMAIN history'[scope[c]] : history'[scope[c]][i] = x
          => queue'[c] = Append(queue[c], x)
  BY <1>12
<1>14. \A s \in SessionIds : (\E i \in DOMAIN history'[s] : history'[s][i] = x) => s \in sessions
  BY <1>4, <1>11
<1>15. \A s \in SessionIds : \A i \in DOMAIN history'[s] :
          history'[s][i] = x \/ \E j \in DOMAIN history[s] : history'[s][i] = history[s][j]
  BY <1>10
<1>. QED
  BY <1>1, <1>2, <1>3, <1>5, <1>6, <1>8, <1>9, <1>13, <1>14, <1>15 DEF Spreads

\* The positions of a queue that may have got an envelope.
LEMMA EnqueueIndices ==
    ASSUME NEW q \in Seq(Envelope), NEW x \in Envelope, NEW r, r = q \/ r = Append(q, x)
    PROVE  /\ \A j \in DOMAIN r : r[j] = x \/ (j \in DOMAIN q /\ r[j] = q[j])
           /\ \A j \in DOMAIN q : j \in DOMAIN r /\ r[j] = q[j] /\ r[j].sequence \in Int
           /\ r = Append(q, x) => \E j \in DOMAIN r : r[j] = x
<1>1. \A j \in DOMAIN q : q[j] \in Envelope
  OBVIOUS
<1>2. \A j \in DOMAIN q : q[j].sequence \in Int
  BY <1>1 DEF Envelope
<1>3. CASE r = q
  <2>1. Len(Append(q, x)) = Len(q) + 1 /\ Len(q) \in Nat
    OBVIOUS
  <2>2. r # Append(q, x)
    BY <1>3, <2>1
  <2>. QED
    BY <1>2, <1>3, <2>2
<1>4. CASE r = Append(q, x)
  <2>1. /\ Len(q) \in Nat /\ DOMAIN q = 1..Len(q) /\ DOMAIN Append(q, x) = 1..(Len(q) + 1)
        /\ \A j \in 1..Len(q) : Append(q, x)[j] = q[j]
        /\ Append(q, x)[Len(q) + 1] = x
    OBVIOUS
  <2>2. /\ Len(q) \in Nat /\ DOMAIN q = 1..Len(q) /\ DOMAIN r = 1..(Len(q) + 1)
        /\ \A j \in 1..Len(q) : r[j] = q[j]
        /\ r[Len(q) + 1] = x
    BY <1>4, <2>1, Zenon
  <2>. QED
    BY <1>2, <2>2
<1>. QED
  BY <1>3, <1>4

\* The tab is promised what is published while its handler has been confirmed.
LEMMA NewPromise ==
    ASSUME DeliveryInv, NEW x \in Envelope, x.sequence = next_sequence + 1, next_sequence' = next_sequence + 1,
           UNCHANGED <<transport, subscriptions, scope, cookie>>,
           Live => Queued \in Seq(Envelope),
           Live /\ Connected(transport.socket)' =>
              /\ Connected(transport.socket)
              /\ /\ x.event \in subscriptions[transport.socket]
                 /\ \E i \in DOMAIN history'[scope[transport.socket]] :
                       history'[scope[transport.socket]][i] = x
                 => Queued' = Append(Queued, x),
           \A s \in SessionIds : (\E i \in DOMAIN history'[s] : history'[s][i] = x) => s \in sessions,
           x.event \in ConfirmedEvents,
           transport.lastSequence > 0, transport.session = cookie, cookie # NoSession,
           ~carried, ~Resubscribing(x.event),
           NEW o, o.envelope = x, o.session = cookie
    PROVE  Promised(o)'
<1>1. x.event \in Client!subscribedEvents(transport)
  BY DEF ConfirmedEvents, Client!Confirmed, Client!subscribedEvents, Client!EventsOf
<1>2. /\ next_sequence \in Nat /\ transport.lastSequence \in Int
      /\ transport.lastSequence <= next_sequence
  BY ConfigAssumption DEF DeliveryInv, TypeOK, BusTypeOK, TransportTypeOK, Transports, LastSequenceInSession
<1>3. x.sequence > transport.lastSequence /\ o.envelope.sequence <= next_sequence'
  BY <1>2
<1>4. cookie \in SessionIds
  BY DEF DeliveryInv, TypeOK
<1>5. ASSUME Client!IsOpen(transport), Replayable(o)'
      PROVE  Coming(x)'
  <2>1. Live
    BY <1>5, TabAssumption DEF Live, LiveStates, Client!IsOpen, DeliveryInv, TypeOK, TransportTypeOK, Transports
  <2>2. \A i \in EventsIn(Inbox) : Inbox[i].envelope.sequence < x.sequence
    <3>. TAKE i \in EventsIn(Inbox)
    <3>1. Inbox[i].envelope.sequence <= next_sequence
      BY <2>1 DEF DeliveryInv, Stream
    <3>2. Inbox[i].envelope.sequence \in Int
      <4>1. Inbox \in Seq(Messages)
        BY <2>1 DEF DeliveryInv, TypeOK, TransportTypeOK, Transports, Inbox, Live
      <4>2. Inbox[i] \in Messages /\ Inbox[i].type = "event"
        BY <4>1 DEF EventsIn
      <4>3. Inbox[i].envelope \in Envelope
        BY <4>2, MessageTyped
      <4>. QED
        BY <4>3 DEF Envelope
    <3>. QED
      BY <1>2, <3>1, <3>2
  <2>3. Connected(transport.socket)' =>
           \/ \E j \in DOMAIN Queued' : Queued'[j] = x
           \/ \E i \in DOMAIN Outbox :
                 /\ AsksReplay(Outbox[i]) /\ x.event \in Outbox[i].events
                 /\ Outbox[i].since < x.sequence
    <3>. SUFFICES ASSUME Connected(transport.socket)',
                         \A j \in DOMAIN Queued' : Queued'[j] # x
                  PROVE  \E i \in DOMAIN Outbox :
                            /\ AsksReplay(Outbox[i]) /\ x.event \in Outbox[i].events
                            /\ Outbox[i].since < x.sequence
      OBVIOUS
    <3>1. Connected(transport.socket)
      BY <2>1
    <3>2. WillServe(x.event)
      BY <1>1, <1>5, <3>1 DEF DeliveryInv, ServesSubscribed
    <3>3. x.event \notin subscriptions[transport.socket]
      <4>. SUFFICES ASSUME x.event \in subscriptions[transport.socket] PROVE FALSE
        OBVIOUS
      <4>1. \E i \in DOMAIN history'[cookie] : history'[cookie][i] = x
        BY <1>5 DEF Replayable
      <4>2. cookie \in sessions
        BY <1>4, <4>1
      <4>3. scope[transport.socket] = cookie
        BY <2>1, <3>1, <4>2, OwnScope
      <4>4. Queued' = Append(Queued, x) /\ Queued \in Seq(Envelope)
        BY <2>1, <4>1, <4>3
      <4>5. \E j \in DOMAIN Queued' : Queued'[j] = x
        <5>1. PICK q \in Seq(Envelope) : q = Queued
          BY <4>4
        <5>2. PICK r : r = Queued'
          OBVIOUS
        <5>3. r = Append(q, x)
          BY <4>4, <5>1, <5>2
        <5>4. \E j \in DOMAIN r : r[j] = x
          BY <5>3, EnqueueIndices
        <5>. QED
          BY <5>2, <5>4
      <4>. QED
        BY <4>5
    <3>4. PICK i \in DOMAIN Outbox : About(Outbox[i], x.event)
      BY <3>2, <3>3 DEF WillServe
    <3>5. Outbox[i] \in Controls
      <4>1. Outbox \in Seq(Controls)
        BY <2>1 DEF DeliveryInv, TypeOK, TransportTypeOK, Transports, Outbox, Live
      <4>. QED
        BY <4>1
    <3>6. Outbox[i].type = "subscribe" /\ Outbox[i].since # 0
      BY <2>1, <3>4 DEF Resubscribing, About, Outbox, Live
    <3>7. Outbox[i].since \in Nat
      BY <3>5, <3>6, ControlTyped, ConfigAssumption
    <3>8. AsksReplay(Outbox[i])
      BY <3>6, <3>7 DEF AsksReplay
    <3>9. transport.lastSequence \in {0, Outbox[i].since}
      BY <2>1, <3>8 DEF DeliveryInv, ReplayFirst
    <3>10. Outbox[i].since < x.sequence
      BY <1>2, <1>3, <3>9
    <3>. QED
      BY <3>4, <3>8, <3>10 DEF About
  <2>4. Inbox' = Inbox /\ Outbox' = Outbox
    BY DEF Inbox, Outbox
  <2>. QED
    BY <2>2, <2>3, <2>4 DEF Coming, EventsIn, AsksReplay
<1>. QED
  BY <1>1, <1>3, <1>5 DEF Promised, Client!IsOpen, Client!subscribedEvents

\* Publishing an event preserves the invariant.
LEMMA PublishEventInv ==
    ASSUME DeliveryInv, NEW event \in Events, PublishEvent(event)
    PROVE  DeliveryInv'
<1>1. PICK target \in {Broadcast} \cup ({cookie} \ {NoSession}) :
        /\ Publish(target, event)
        /\ owed' = Owe([event |-> event, payload |-> target, sequence |-> NextSequence])
  BY DEF PublishEvent
<1>2. PICK x : x = [event |-> event, payload |-> target, sequence |-> NextSequence]
  OBVIOUS
<1>3. target \in SessionIds \cup {Broadcast}
  BY DEF DeliveryInv, TypeOK
<1>4. /\ BusInv'
      /\ x \in Envelope /\ x.event = event /\ x.sequence = next_sequence + 1
      /\ next_sequence \in Nat /\ next_sequence' = next_sequence + 1
      /\ sessions' \subseteq sessions
      /\ \A s \in sessions' : authorization'[s] = authorization[s]
      /\ UNCHANGED <<subscriptions, scope>>
      /\ \A c \in ConnIds :
           /\ Connected(c)' => Connected(c)
           /\ queue[c] \in Seq(Envelope)
           /\ \/ queue'[c] = queue[c]
              \/ queue'[c] = Append(queue[c], x) /\ scope[c] # NoSession /\ event \in subscriptions[c]
      /\ \A s \in SessionIds : \A i \in DOMAIN history'[s] :
           history'[s][i] = x \/ \E j \in DOMAIN history[s] : history'[s][i] = history[s][j]
      /\ \A c \in ConnIds :
           /\ Connected(c)' /\ event \in subscriptions[c]
           /\ \E i \in DOMAIN history'[scope[c]] : history'[scope[c]][i] = x
           => queue'[c] = Append(queue[c], x)
      /\ \A s \in SessionIds : (\E i \in DOMAIN history'[s] : history'[s][i] = x) => s \in sessions
  <2>1. BusInv
    BY DEF DeliveryInv
  <2>2. Spreads(x, event)
    BY <1>1, <1>2, <1>3, <2>1, BusPublishes
  <2>. QED
    BY <2>2 DEF Spreads
<1>5. UNCHANGED <<transport, cookie, issued, restarts, delivered, carried>>
  BY DEF PublishEvent, netVars, serverVars
<1>6. PICK promised \in BOOLEAN :
        promised = (/\ transport.lastSequence > 0
                    /\ transport.session \in {cookie} \ {NoSession}
                    /\ ~carried /\ ~Resubscribing(event))
  OBVIOUS
<1>7. PICK o : o = [envelope |-> x, session |-> cookie, seen |-> promised]
  OBVIOUS
<1>8. owed' = IF event \in ConfirmedEvents THEN owed \cup {o} ELSE owed
  BY <1>1, <1>2, <1>4, <1>6, <1>7, Zenon DEF Owe
<1>9. /\ Inbox' = Inbox /\ Outbox' = Outbox /\ (Live' <=> Live)
      /\ (Client!IsOpen(transport)' <=> Client!IsOpen(transport))
      /\ Client!subscribedEvents(transport)' = Client!subscribedEvents(transport)
  BY <1>5 DEF Inbox, Outbox, Live, Client!IsOpen, Client!subscribedEvents
<1>10. Live => /\ transport.socket \in ConnIds
               /\ Queued \in Seq(Envelope)
               /\ Queued' = Queued
                  \/ (Queued' = Append(Queued, x) /\ event \in subscriptions[transport.socket])
               /\ \A j \in DOMAIN Queued' : Queued'[j] = x \/ (j \in DOMAIN Queued /\ Queued'[j] = Queued[j])
               /\ \A j \in DOMAIN Queued : j \in DOMAIN Queued' /\ Queued'[j] = Queued[j]
  <2>. SUFFICES ASSUME Live
                PROVE  /\ transport.socket \in ConnIds
                       /\ Queued \in Seq(Envelope)
                       /\ Queued' = Queued
                          \/ (Queued' = Append(Queued, x) /\ event \in subscriptions[transport.socket])
                       /\ \A j \in DOMAIN Queued' : Queued'[j] = x \/ (j \in DOMAIN Queued /\ Queued'[j] = Queued[j])
                       /\ \A j \in DOMAIN Queued : j \in DOMAIN Queued' /\ Queued'[j] = Queued[j]
    OBVIOUS
  <2>1. /\ transport.socket \in ConnIds
        /\ Queued \in Seq(Envelope)
        /\ Queued' = Queued
           \/ (Queued' = Append(Queued, x) /\ event \in subscriptions[transport.socket])
    BY <1>4, <1>5 DEF Live, Queued
  <2>2. PICK r : r = Queued'
    OBVIOUS
  <2>3. PICK q \in Seq(Envelope) : q = Queued
    BY <2>1
  <2>4. /\ \A j \in DOMAIN r : r[j] = x \/ (j \in DOMAIN q /\ r[j] = q[j])
        /\ \A j \in DOMAIN q : j \in DOMAIN r /\ r[j] = q[j]
    BY <1>4, <2>1, <2>2, <2>3, EnqueueIndices
  <2>. QED
    BY <2>1, <2>2, <2>3, <2>4, Zenon
<1>11. ASSUME NEW n \in Int, n <= next_sequence, Above(n)
       PROVE  Live => /\ \A i \in EventsIn(Inbox) : Inbox[i].envelope.sequence > n
                      /\ \A j \in DOMAIN Queued' : Queued'[j].sequence > n
                      /\ \A i \in DOMAIN Outbox : AsksReplay(Outbox[i]) => Outbox[i].since >= n
  <2>. SUFFICES ASSUME Live
                PROVE  /\ \A i \in EventsIn(Inbox) : Inbox[i].envelope.sequence > n
                       /\ \A j \in DOMAIN Queued' : Queued'[j].sequence > n
                       /\ \A i \in DOMAIN Outbox : AsksReplay(Outbox[i]) => Outbox[i].since >= n
    OBVIOUS
  <2>1. x.sequence > n
    BY <1>4, <1>11
  <2>. QED
    BY <1>10, <1>11, <2>1 DEF Above
<1>12. TransportTypeOK' /\ OneSocket' /\ Waits'
  BY <1>5 DEF DeliveryInv, TypeOK, TransportTypeOK, OneSocket, Waits, Live
<1>13. TypeOK'
  <2>1. o \in [envelope : Envelope, session : SessionIds \cup {NoSession}, seen : BOOLEAN]
    BY <1>4, <1>6, <1>7 DEF DeliveryInv, TypeOK
  <2>2. owed' \in SUBSET [envelope : Envelope, session : SessionIds \cup {NoSession}, seen : BOOLEAN]
    BY <1>8, <2>1 DEF DeliveryInv, TypeOK
  <2>. QED
    BY <1>4, <1>12, <2>2 DEF PublishEvent, DeliveryInv, TypeOK, BusInv, netVars, serverVars
<1>14. KnownSessions'
  <2>1. \A p \in owed' : p.session \in issued \cup {NoSession}
    BY <1>7, <1>8 DEF DeliveryInv, KnownSessions, TypeOK
  <2>. QED
    BY <1>4, <1>5, <2>1 DEF DeliveryInv, KnownSessions
<1>15. CurrentScope'
  BY <1>4, <1>5, <1>9 DEF DeliveryInv, CurrentScope
<1>16. Fresh'
  <2>1. \A k \in ConnIds : scope'[k] = NoSession => queue'[k] = <<>> /\ subscriptions'[k] = {}
    BY <1>4 DEF DeliveryInv, Fresh
  <2>2. Live /\ subscriptions[transport.socket] = {} => Queued' = Queued
    BY <1>10
  <2>. QED
    BY <1>4, <1>5, <1>9, <2>1, <2>2 DEF DeliveryInv, Fresh, EventsIn
<1>17. ReplayFirst'
  <2>1. Live /\ subscriptions[transport.socket] = {} => Queued' = Queued
    BY <1>10
  <2>. QED
    BY <1>4, <1>5, <1>9, <2>1 DEF DeliveryInv, ReplayFirst, EventsIn, AsksReplay
<1>18. Stream'
  <2>. SUFFICES ASSUME Live
                PROVE  /\ \A i, j \in EventsIn(Inbox) :
                            i < j => Inbox[i].envelope.sequence < Inbox[j].envelope.sequence
                       /\ \A i \in EventsIn(Inbox) :
                            /\ Inbox[i].envelope.sequence <= next_sequence'
                            /\ \A j \in DOMAIN Queued' : Inbox[i].envelope.sequence < Queued'[j].sequence
    BY <1>9 DEF Stream, EventsIn
  <2>1. ASSUME NEW i \in EventsIn(Inbox)
        PROVE  /\ Inbox[i].envelope.sequence <= next_sequence'
               /\ \A j \in DOMAIN Queued' : Inbox[i].envelope.sequence < Queued'[j].sequence
    <3>1. Inbox \in Seq(Messages)
      BY DEF DeliveryInv, TypeOK, TransportTypeOK, Transports, Inbox, Live
    <3>2. Inbox[i] \in Messages /\ Inbox[i].type = "event"
      BY <3>1 DEF EventsIn
    <3>3. Inbox[i].envelope \in Envelope
      BY <3>2, MessageTyped
    <3>4. Inbox[i].envelope.sequence \in Int
      BY <3>3 DEF Envelope
    <3>5. /\ Inbox[i].envelope.sequence <= next_sequence
          /\ \A j \in DOMAIN Queued : Inbox[i].envelope.sequence < Queued[j].sequence
      BY DEF DeliveryInv, Stream
    <3>6. Inbox[i].envelope.sequence < x.sequence /\ Inbox[i].envelope.sequence <= next_sequence'
      BY <1>4, <3>4, <3>5
    <3>. QED
      BY <1>10, <3>5, <3>6
  <2>. QED
    BY <2>1 DEF DeliveryInv, Stream
<1>19. InOrderOnce'
  BY <1>5 DEF DeliveryInv, InOrderOnce
<1>20. DeliveredBefore'
  <2>1. ASSUME NEW i \in DOMAIN delivered
        PROVE  /\ delivered[i][1] <= restarts
               /\ delivered[i][1] = restarts =>
                  /\ delivered[i][2] <= next_sequence'
                  /\ transport.lastSequence = 0 \/ delivered[i][2] <= transport.lastSequence
                  /\ Live =>
                     /\ \A j \in EventsIn(Inbox) : Inbox[j].envelope.sequence > delivered[i][2]
                     /\ \A j \in DOMAIN Queued' : Queued'[j].sequence > delivered[i][2]
                     /\ \A j \in DOMAIN Outbox : AsksReplay(Outbox[j]) => Outbox[j].since >= delivered[i][2]
    <3>1. PICK n : n = delivered[i][2]
      OBVIOUS
    <3>2. n \in Int
      BY <3>1 DEF DeliveryInv, TypeOK
    <3>3. /\ delivered[i][1] <= restarts
          /\ delivered[i][1] = restarts =>
               n <= next_sequence /\ (transport.lastSequence = 0 \/ n <= transport.lastSequence) /\ Above(n)
      BY <3>1 DEF DeliveryInv, DeliveredBefore
    <3>4. n <= next_sequence => n <= next_sequence'
      BY <1>4, <3>2
    <3>. QED
      BY <1>11, <3>1, <3>2, <3>3, <3>4
  <2>. QED
    BY <1>5, <1>9, <2>1 DEF DeliveredBefore, Above, EventsIn, AsksReplay
<1>21. LastSequenceInSession'
  <2>. SUFFICES ASSUME ~carried, transport.session # NoSession,
                       transport.session = cookie \/ \E j \in ConnIds : scope[j] = transport.session
                PROVE  transport.lastSequence <= next_sequence' /\ Above(transport.lastSequence)'
    BY <1>4, <1>5 DEF LastSequenceInSession
  <2>1. PICK n : n = transport.lastSequence
    OBVIOUS
  <2>2. n <= next_sequence /\ Above(n) /\ n \in Int
    BY <2>1 DEF DeliveryInv, LastSequenceInSession, TypeOK, TransportTypeOK, Transports
  <2>3. Live => /\ \A j \in EventsIn(Inbox) : Inbox[j].envelope.sequence > n
                /\ \A j \in DOMAIN Queued' : Queued'[j].sequence > n
                /\ \A j \in DOMAIN Outbox : AsksReplay(Outbox[j]) => Outbox[j].since >= n
    BY <1>11, <2>2
  <2>4. n <= next_sequence'
    BY <1>4, <2>2
  <2>. QED
    BY <1>5, <1>9, <2>1, <2>3, <2>4 DEF Above, EventsIn, AsksReplay
<1>22. \A e : WillServe(e) => WillServe(e)'
  BY <1>4, <1>5, <1>9 DEF WillServe, About
<1>23. ServesSubscribed'
  <2>. SUFFICES ASSUME Client!IsOpen(transport), Connected(transport.socket)',
                       NEW e \in Client!subscribedEvents(transport)
                PROVE  WillServe(e)'
    BY <1>9 DEF ServesSubscribed
  <2>1. transport.socket \in ConnIds
    BY TabAssumption DEF Client!IsOpen, DeliveryInv, TypeOK, TransportTypeOK, Transports
  <2>2. Connected(transport.socket)
    BY <1>4, <1>5, <2>1 DEF Connected
  <2>. QED
    BY <1>22, <2>2 DEF DeliveryInv, ServesSubscribed
<1>24. PromisesKept'
  <2>. SUFFICES ASSUME NEW p \in owed', p.seen
                PROVE  Promised(p)'
    BY DEF PromisesKept
  <2>1. CASE p \in owed
    <3>1. Promised(p)
      BY <2>1 DEF DeliveryInv, PromisesKept
    <3>2. p.envelope.sequence \in Int
      BY <2>1 DEF DeliveryInv, TypeOK, Envelope
    <3>3. p.envelope # x /\ p.envelope.sequence <= next_sequence'
      BY <1>4, <3>1, <3>2 DEF Promised
    <3>4. Replayable(p)' => Replayable(p)
      <4>. SUFFICES ASSUME Replayable(p)' PROVE Replayable(p)
        OBVIOUS
      <4>1. p.session = cookie /\ p.session \in SessionIds
        BY <1>5, <3>1 DEF Replayable, Promised, DeliveryInv, TypeOK
      <4>2. ~HasDelivered(p.envelope.sequence)
        BY <1>5 DEF Replayable, HasDelivered
      <4>3. PICK i \in DOMAIN history'[p.session] : history'[p.session][i] = p.envelope
        BY DEF Replayable
      <4>4. \E j \in DOMAIN history[p.session] : history[p.session][j] = p.envelope
        BY <1>4, <3>3, <4>1, <4>3
      <4>. QED
        BY <4>1, <4>2, <4>4 DEF Replayable
    <3>5. ASSUME Client!IsOpen(transport), Coming(p.envelope)
          PROVE  Coming(p.envelope)'
      <4>1. Live
        BY <3>5, TabAssumption DEF Live, LiveStates, Client!IsOpen, DeliveryInv, TypeOK, TransportTypeOK, Transports
      <4>2. Connected(transport.socket)' => Connected(transport.socket)
        BY <1>4, <1>5, <1>10, <4>1 DEF Connected
      <4>. QED
        BY <1>9, <1>10, <3>5, <4>1, <4>2 DEF Coming, EventsIn, AsksReplay
    <3>. QED
      BY <1>5, <1>9, <3>1, <3>3, <3>4, <3>5 DEF Promised
  <2>2. CASE p \notin owed
    <3>1. event \in ConfirmedEvents /\ p = o
      BY <1>8, <2>2
    <3>2. p.envelope = x /\ p.session = cookie /\ promised
      BY <1>7, <3>1
    <3>3. transport.lastSequence > 0
      BY <1>6, <3>2, Zenon
    <3>4. transport.session \in {cookie} \ {NoSession}
      BY <1>6, <3>2, Zenon
    <3>5. ~carried /\ ~Resubscribing(x.event)
      BY <1>4, <1>6, <3>2, Zenon
    <3>6. Live => Queued \in Seq(Envelope)
      BY <1>10
    <3>7. Live /\ Connected(transport.socket)' =>
             /\ Connected(transport.socket)
             /\ /\ x.event \in subscriptions[transport.socket]
                /\ \E i \in DOMAIN history'[scope[transport.socket]] :
                      history'[scope[transport.socket]][i] = x
                => Queued' = Append(Queued, x)
      <4>. SUFFICES ASSUME Live, Connected(transport.socket)'
                    PROVE  /\ Connected(transport.socket)
                           /\ /\ x.event \in subscriptions[transport.socket]
                              /\ \E i \in DOMAIN history'[scope[transport.socket]] :
                                    history'[scope[transport.socket]][i] = x
                              => Queued' = Append(Queued, x)
        OBVIOUS
      <4>1. PICK k \in ConnIds : k = transport.socket
        BY DEF Live
      <4>2. Connected(k)' /\ Queued = queue[k] /\ Queued' = queue'[k]
        BY <1>5, <4>1 DEF Connected, Queued
      <4>. QED
        BY <1>4, <4>1, <4>2
    <3>8. /\ UNCHANGED <<transport, subscriptions, scope, cookie>>
          /\ x \in Envelope /\ x.sequence = next_sequence + 1 /\ next_sequence' = next_sequence + 1
          /\ \A s \in SessionIds : (\E i \in DOMAIN history'[s] : history'[s][i] = x) => s \in sessions
          /\ x.event \in ConfirmedEvents
      BY <1>4, <1>5, <3>1
    <3>. QED
      BY <3>2, <3>3, <3>4, <3>5, <3>6, <3>7, <3>8, NewPromise
  <2>. QED
    BY <2>1, <2>2
<1>. QED
  BY <1>4, <1>12, <1>13, <1>14, <1>15, <1>16, <1>17, <1>18, <1>19, <1>20, <1>21, <1>23, <1>24 DEF DeliveryInv

-----------------------------------------------------------------------------
(***************************************************************************)
(* The server starts again, with an empty bus; and the first state.        *)
(***************************************************************************)
RestartedTransport ==
    [transport EXCEPT
         !.readyState = [k \in ConnIds |-> IF @[k] = "closed" THEN "closed" ELSE "closing"],
         !.inbox = [k \in ConnIds |-> <<>>],
         !.outbox = [k \in ConnIds |-> <<>>]]

\* A restart closes every socket and leaves the rest of the transport alone.
LEMMA RestartShape ==
    ASSUME Sound(transport)
    PROVE  /\ Sound(RestartedTransport)
           /\ RestartedTransport.session = transport.session
           /\ RestartedTransport.socket = transport.socket
           /\ \A k \in ConnIds : RestartedTransport.readyState[k] \in {"closing", "closed"}
<1>. DEFINE r == [k \in ConnIds |-> IF transport.readyState[k] = "closed" THEN "closed" ELSE "closing"]
            none == [k \in ConnIds |-> <<>>]
            u == [transport EXCEPT !.readyState = r, !.inbox = none, !.outbox = none]
<1>1. transport \in Transports
  BY DEF Sound
<1>2. RestartedTransport = u
  BY <1>1 DEF RestartedTransport, Transports
<1>3. /\ r \in [ConnIds -> ReadyStates] /\ \A k \in ConnIds : r[k] \in {"closing", "closed"}
      /\ none \in [ConnIds -> Seq(Messages)] /\ none \in [ConnIds -> Seq(Controls)]
      /\ \A k \in ConnIds : none[k] = <<>>
  BY DEF ReadyStates
<1>. HIDE DEF r, none
<1>4. u \in Transports
  BY <1>1, <1>3 DEF Transports
<1>5. /\ u.session = transport.session /\ u.initializing = transport.initializing
      /\ u.handlers = transport.handlers /\ u.pending = transport.pending
      /\ u.socket = transport.socket /\ u.connectionPromise = transport.connectionPromise
      /\ u.readyState = r /\ u.inbox = none
  BY <1>1 DEF Transports
<1>. HIDE DEF u
<1>6. Sound(u)
  BY <1>1, <1>3, <1>4, <1>5 DEF Sound, Lives, LiveStates
<1>. QED
  BY <1>2, <1>3, <1>5, <1>6

\* A restart of the server preserves the invariant.
LEMMA RestartInv ==
    ASSUME DeliveryInv, Restart
    PROVE  DeliveryInv'
<1>1. /\ restarts < MaxRestarts /\ restarts' = restarts + 1
      /\ cookie' = NoSession /\ ending' = {} /\ sessions' = {} /\ owed' = {}
      /\ next_sequence' = 0
      /\ subscriptions' = [c \in ConnIds |-> {}]
      /\ queue' = [c \in ConnIds |-> <<>>]
      /\ scope' = [c \in ConnIds |-> NoSession]
      /\ UNCHANGED <<issued, ends, requests, sent, losses, delivered, carried>>
  BY DEF Restart
<1>2. BusInv'
  <2>. USE DEF Restart
  <2>1. BusTypeOK'
    BY ConfigAssumption DEF BusTypeOK, Levels
  <2>2. Owned' /\ Published' /\ Lengths'
    BY ConfigAssumption DEF Owned, Published, Lengths
  <2>3. InOrder' /\ NothingSkipped' /\ Isolated'
    BY DistinctAssumption DEF InOrder, Increasing, NothingSkipped, HoldsAllSubscribed, Isolated, Connected
  <2>. QED
    BY <2>1, <2>2, <2>3 DEF BusInv
<1>3. /\ Sound(transport')
      /\ transport'.session = transport.session
      /\ \A k \in ConnIds : transport'.readyState[k] \in {"closing", "closed"}
  <2>1. transport' = RestartedTransport
    BY DEF Restart, RestartedTransport
  <2>. QED
    BY <2>1, SoundState, RestartShape DEF DeliveryInv
<1>4. ~Live' /\ ~Client!IsOpen(transport)'
  <2>1. transport'.socket \in ConnIds \cup {NoSocket}
    BY <1>3 DEF Sound, Transports
  <2>. QED
    BY <1>3, <2>1 DEF Live, LiveStates, Client!IsOpen
<1>5. TransportTypeOK' /\ OneSocket' /\ Waits'
  BY <1>3 DEF Sound, Lives, TransportTypeOK, OneSocket, Waits, Live, LiveStates
<1>6. TypeOK'
  <2>1. restarts' \in 0..MaxRestarts
    BY <1>1, BoundsAssumption DEF DeliveryInv, TypeOK
  <2>2. BusTypeOK'
    BY <1>2 DEF BusInv
  <2>. QED
    BY <1>1, <1>5, <2>1, <2>2 DEF DeliveryInv, TypeOK
<1>7. KnownSessions'
  BY <1>1, <1>3 DEF DeliveryInv, KnownSessions
<1>8. CurrentScope' /\ Fresh' /\ ReplayFirst' /\ Stream'
  <2>1. \A k \in ConnIds : queue'[k] = <<>> /\ subscriptions'[k] = {}
    BY <1>1
  <2>. QED
    BY <1>4, <2>1 DEF CurrentScope, Fresh, ReplayFirst, Stream
<1>9. InOrderOnce'
  BY <1>1 DEF DeliveryInv, InOrderOnce
<1>10. DeliveredBefore'
  <2>1. \A i \in DOMAIN delivered : delivered[i][1] <= restarts' /\ delivered[i][1] # restarts'
    <3>. TAKE i \in DOMAIN delivered
    <3>1. delivered[i][1] <= restarts
      BY DEF DeliveryInv, DeliveredBefore
    <3>2. delivered[i][1] \in Int /\ restarts \in Int
      BY DEF DeliveryInv, TypeOK
    <3>. QED
      BY <1>1, <3>1, <3>2
  <2>. QED
    BY <1>1, <2>1 DEF DeliveredBefore
<1>11. LastSequenceInSession'
  BY <1>1, <1>3 DEF LastSequenceInSession
<1>12. ServesSubscribed' /\ PromisesKept'
  BY <1>1, <1>4 DEF ServesSubscribed, PromisesKept
<1>. QED
  BY <1>2, <1>5, <1>6, <1>7, <1>8, <1>9, <1>10, <1>11, <1>12 DEF DeliveryInv

\* The initial states satisfy the invariant.
LEMMA InitInv == Init => DeliveryInv
<1>. SUFFICES ASSUME Init PROVE DeliveryInv
  OBVIOUS
<1>1. BusInv /\ BusInit
  BY BusInitInv DEF Init
<1>2. /\ \E s \in SessionIds : cookie = s /\ issued = {s}
      /\ ending = {} /\ requests = {}
      /\ losses = 0 /\ ends = 0 /\ sent = 0 /\ restarts = 0
      /\ delivered = <<>> /\ owed = {} /\ carried = FALSE
  BY DEF Init
<1>3. transport \in Transports
  BY ConfigAssumption DEF Init, Client!Init, Transports, ReadyStates
<1>4. /\ transport.session = NoSession /\ transport.handlers = {} /\ transport.pending = {}
      /\ transport.socket = NoSocket /\ transport.connectionPromise = NoSocket
      /\ transport.lastSequence = 0
      /\ \A k \in ConnIds : transport.readyState[k] = "closed" /\ transport.inbox[k] = <<>>
  BY DEF Init, Client!Init
<1>5. ~Live /\ ~Client!IsOpen(transport)
  BY <1>4, TabAssumption DEF Live, Client!IsOpen
<1>6. TypeOK
  <2>1. BusTypeOK
    BY <1>1 DEF BusInv
  <2>2. TransportTypeOK
    BY <1>3, <1>4 DEF TransportTypeOK
  <2>3. /\ losses \in 0..MaxLosses /\ ends \in 0..MaxEnds
        /\ sent \in 0..MaxRequests /\ restarts \in 0..MaxRestarts
    BY <1>2, BoundsAssumption
  <2>4. /\ cookie \in issued \cup {NoSession} /\ issued \subseteq SessionIds
        /\ ending \subseteq issued /\ requests \subseteq issued
    BY <1>2
  <2>5. delivered \in Seq((0..MaxRestarts) \X (1..MaxSequence))
    BY <1>2
  <2>6. owed \in SUBSET [envelope : Envelope, session : SessionIds \cup {NoSession}, seen : BOOLEAN]
    BY <1>2
  <2>7. carried \in BOOLEAN
    BY <1>2
  <2>. QED
    BY <2>1, <2>2, <2>3, <2>4, <2>5, <2>6, <2>7 DEF TypeOK
<1>7. OneSocket /\ Waits
  BY <1>4, <1>5 DEF OneSocket, Waits, LiveStates
<1>8. KnownSessions /\ Fresh
  BY <1>1, <1>2, <1>4, <1>5 DEF KnownSessions, Fresh, BusInit
<1>9. CurrentScope /\ ReplayFirst /\ Stream /\ ServesSubscribed
  BY <1>5 DEF CurrentScope, ReplayFirst, Stream, ServesSubscribed
<1>10. InOrderOnce /\ DeliveredBefore /\ PromisesKept
  BY <1>2 DEF InOrderOnce, DeliveredBefore, PromisesKept
<1>11. LastSequenceInSession
  BY <1>1, <1>4, <1>5 DEF LastSequenceInSession, Above, BusInit
<1>. QED
  BY <1>1, <1>6, <1>7, <1>8, <1>9, <1>10, <1>11 DEF DeliveryInv

-----------------------------------------------------------------------------
(***************************************************************************)
(* Every step keeps the invariant.                                         *)
(***************************************************************************)
LEMMA NextInv ==
    ASSUME DeliveryInv, Next
    PROVE  DeliveryInv'
<1>1. ASSUME NEW k \in ConnIds, Accept(k) \/ Refuse(k) \/ Control(k) \/ Forward(k)
      PROVE  DeliveryInv'
  BY <1>1, AcceptInv, RefuseInv, ControlInv, ForwardInv
<1>2. ASSUME NEW k \in ConnIds, CloseSocket(k) \/ PeerGone(k) \/ LoseSocket(k)
      PROVE  DeliveryInv'
  BY <1>2, CloseSocketInv, PeerGoneInv, LoseSocketInv
<1>3. ASSUME NEW k \in ConnIds, SocketOpens(k) \/ SocketFails(k) \/ SocketCloses(k)
      PROVE  DeliveryInv'
  BY <1>3, OpensInv, TabSteps
<1>4. ASSUME NEW k \in ConnIds, MessageArrives(k)
      PROVE  DeliveryInv'
  <2>1. CASE Head(transport.inbox[k]).type = "event"
    BY <1>4, <2>1, ArrivesInv
  <2>2. CASE Head(transport.inbox[k]).type # "event"
    BY <1>4, <2>2, TabSteps
  <2>. QED
    BY <2>1, <2>2
<1>5. CASE \/ \E h \in Handlers : SubscribeCall(h) \/ UnsubscribeCall(h)
           \/ \E previous \in SessionIds \cup {NoSession} :
                Reconnected(previous) \/ ReconnectFailed(previous)
           \/ \E s \in SessionIds : RequestRejected(s)
           \/ Initialize \/ Loaded \/ LoadFailed \/ TimerFires
  BY <1>5, TabSteps
<1>6. CASE \/ Logout \/ LoggedOut \/ Expire \/ IssueSession \/ Request \/ Idle
           \/ \E s \in SessionIds : Reclaim(s)
  BY <1>6, StoreSteps
<1>7. CASE \E event \in Events : PublishEvent(event)
  BY <1>7, PublishEventInv
<1>8. CASE Restart
  BY <1>8, RestartInv
<1>. QED
  BY <1>1, <1>2, <1>3, <1>4, <1>5, <1>6, <1>7, <1>8 DEF Next

\* A stuttering step preserves the invariant.
LEMMA StutterInv ==
    ASSUME DeliveryInv, UNCHANGED vars
    PROVE  DeliveryInv'
<1>1. BusInv' /\ BusShrinks
  BY BusRemoves DEF vars, DeliveryInv, busVars
<1>2. StoreMoves
  BY StoreStays DEF vars, DeliveryInv, netVars, serverVars
<1>. QED
  BY <1>1, <1>2, QuietInv DEF vars, busVars, netVars, serverVars

(***************************************************************************)
(* Every reachable state of bus, socket task, network and tab satisfies    *)
(* the inductive invariant.                                                *)
(***************************************************************************)
THEOREM DeliveryInvariant == Spec => []DeliveryInv
<1>1. DeliveryInv /\ [Next]_vars => DeliveryInv'
  BY NextInv, StutterInv
<1>. QED
  BY <1>1, InitInv, PTL DEF Spec

(***************************************************************************)
(* The tab's transport, the sessions of the server and the auxiliary       *)
(* records keep their types, whatever the network and the server do.       *)
(***************************************************************************)
THEOREM DeliveryTyped == Spec => []TypeOK
<1>1. DeliveryInv => TypeOK
  BY DEF DeliveryInv
<1>. QED
  BY <1>1, DeliveryInvariant, PTL

(***************************************************************************)
(* However often ensureConnected, reconnect and the callbacks of lost      *)
(* sockets overlap, no socket but `this.socket` is connecting or open.     *)
(***************************************************************************)
THEOREM DeliveryLeaksNoSocket == Spec => []OneSocket
<1>1. DeliveryInv => OneSocket
  BY DEF DeliveryInv
<1>. QED
  BY <1>1, DeliveryInvariant, PTL

(***************************************************************************)
(* Between two starts of the server, deliverEvent gives handlers each      *)
(* event once at most and in the order of publication, over any number of  *)
(* sockets, replays and sessions.                                          *)
(***************************************************************************)
THEOREM DeliversInOrderOnce == Spec => []InOrderOnce
<1>1. DeliveryInv => InOrderOnce
  BY DEF DeliveryInv
<1>. QED
  BY <1>1, DeliveryInvariant, PTL

(***************************************************************************)
(* No event that a tab is owed, and that its session still has for replay, *)
(* is passed over: not by a socket that breaks before, during or after the *)
(* replay, and not by a connection that the bus drops for its full queue.  *)
(***************************************************************************)
THEOREM DeliveryMissesOnlyEvicted == Spec => []MissedOnlyIfEvicted
<1>1. ASSUME DeliveryInv PROVE MissedOnlyIfEvicted
  <2>. SUFFICES ASSUME NEW o \in owed, o.seen, o.session = cookie, PassedOver(o) PROVE FALSE
    BY DEF MissedOnlyIfEvicted
  <2>1. Promised(o)
    BY <1>1 DEF DeliveryInv, PromisesKept
  <2>2. Replayable(o)
    BY DEF Replayable, PassedOver
  <2>3. o.envelope.sequence > transport.lastSequence /\ o.envelope.sequence <= transport.lastSequence
    BY <2>1, <2>2 DEF Promised, PassedOver
  <2>4. o.envelope.sequence \in Int /\ transport.lastSequence \in Int
    BY <1>1 DEF DeliveryInv, TypeOK, TransportTypeOK, Transports, Envelope
  <2>. QED
    BY <2>3, <2>4
<1>. QED
  BY <1>1, DeliveryInvariant, PTL

(***************************************************************************)
(* isNew drops no event that the tab has not delivered while lastSequence  *)
(* belongs to the session of the tab and its socket: reconnect() and       *)
(* renewSession() reset it before an event of a restarted server comes.    *)
(***************************************************************************)
THEOREM DeliveryFiltersNothingNew == Spec => []NothingNewFilteredInSession
<1>1. ASSUME DeliveryInv PROVE NothingNewFilteredInSession
  <2>. SUFFICES ASSUME ~carried, transport.socket \in ConnIds,
                       transport.session \in {cookie, scope[transport.socket]} \ {NoSession},
                       Client!IsOpen(transport), Inbox # <<>>, Head(Inbox).type = "event"
                PROVE  Head(Inbox).envelope.sequence > transport.lastSequence
    BY DEF NothingNewFilteredInSession, FiltersNothingNew, Inbox
  <2>1. Live
    BY DEF Live, LiveStates, Client!IsOpen
  <2>2. Above(transport.lastSequence)
    BY <1>1 DEF DeliveryInv, LastSequenceInSession
  <2>3. Inbox \in Seq(Messages)
    BY <1>1 DEF DeliveryInv, TypeOK, TransportTypeOK, Transports, Inbox
  <2>4. 1 \in EventsIn(Inbox) /\ Head(Inbox) = Inbox[1]
    BY <2>3 DEF EventsIn
  <2>. QED
    BY <2>1, <2>2, <2>4 DEF Above
<1>. QED
  BY <1>1, DeliveryInvariant, PTL

(***************************************************************************)
(* The bus keeps its promises to the connections of the server's socket    *)
(* tasks too, and over restarts: nothing is skipped, and nothing reaches a *)
(* session that it was not addressed to.                                   *)
(***************************************************************************)
THEOREM DeliveryKeepsBus == Spec => [](NothingSkipped /\ InOrder /\ Isolated)
<1>1. DeliveryInv => NothingSkipped /\ InOrder /\ Isolated
  BY DEF DeliveryInv, BusInv
<1>. QED
  BY <1>1, DeliveryInvariant, PTL
=============================================================================
