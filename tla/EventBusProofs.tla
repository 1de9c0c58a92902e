--------------------------- MODULE EventBusProofs ---------------------------
(***************************************************************************)
(* What the event bus promises, for every set of sessions, connections and *)
(* events and for every capacity.                                          *)
(***************************************************************************)
EXTENDS EventBus, SequenceTheorems, FiniteSetTheorems, WellFoundedInduction, TLAPS

(***************************************************************************)
(* What push_back followed by pop_front leaves: the old history and the    *)
(* new envelope, without the oldest entry when the history was full.       *)
(***************************************************************************)
LEMMA PushProperties ==
    ASSUME NEW h \in Seq(Envelope), NEW x \in Envelope, Len(h) <= HistoryCapacity
    PROVE  /\ Push(h, x) \in Seq(Envelope)
           /\ Len(Push(h, x)) \in 1..HistoryCapacity
           /\ \E d \in {0, 1} :
                /\ Len(Push(h, x)) = Len(h) + 1 - d
                /\ \A i \in 1..Len(Push(h, x)) :
                    Push(h, x)[i] = IF i + d <= Len(h) THEN h[i + d] ELSE x
<1>. DEFINE a == Append(h, x)
<1>1. /\ a \in Seq(Envelope) /\ Len(a) = Len(h) + 1 /\ Len(h) \in Nat
      /\ \A i \in 1..Len(h) : a[i] = h[i]
      /\ a[Len(h) + 1] = x
  BY AppendProperties, LenProperties
<1>2. CASE Len(h) < HistoryCapacity
  <2>1. Push(h, x) = a
    BY <1>2 DEF Push
  <2>2. /\ Len(a) = Len(h) + 1 - 0
        /\ \A i \in 1..Len(a) : a[i] = IF i + 0 <= Len(h) THEN h[i + 0] ELSE x
    BY <1>1
  <2>. QED
    BY <1>1, <1>2, <2>1, <2>2, ConfigAssumption
<1>3. CASE Len(h) = HistoryCapacity
  <2>1. Push(h, x) = SubSeq(a, 2, Len(h) + 1)
    BY <1>1, <1>3 DEF Push
  <2>2. /\ SubSeq(a, 2, Len(h) + 1) \in Seq(Envelope)
        /\ Len(SubSeq(a, 2, Len(h) + 1)) = Len(h)
        /\ \A i \in 1..Len(h) : SubSeq(a, 2, Len(h) + 1)[i] = a[i + 1]
    BY <1>1, <1>3, ConfigAssumption, SubSeqProperties
  <2>3. \A i \in 1..Len(h) : a[i + 1] = IF i + 1 <= Len(h) THEN h[i + 1] ELSE x
    BY <1>1
  <2>. QED
    BY <1>1, <1>3, <2>1, <2>2, <2>3, ConfigAssumption
<1>. QED
  BY <1>1, <1>2, <1>3, ConfigAssumption
-----------------------------------------------------------------------------
(***************************************************************************)
(* The inductive invariant, one lemma for the initial state and one per    *)
(* action.                                                                 *)
(***************************************************************************)
\* An empty bus satisfies the invariant.
LEMMA BusInitInv == BusInit => BusInv
<1>. SUFFICES ASSUME BusInit PROVE BusInv
  OBVIOUS
<1>. USE DEF BusInit
<1>1. BusTypeOK
  BY ConfigAssumption DEF BusTypeOK, Levels
<1>2. Owned /\ Published /\ Lengths
  BY ConfigAssumption DEF Owned, Published, Lengths
<1>3. InOrder /\ NothingSkipped /\ Isolated
  BY DistinctAssumption DEF InOrder, Increasing, NothingSkipped, HoldsAllSubscribed, Isolated, Connected
<1>. QED
  BY <1>1, <1>2, <1>3 DEF BusInv

\* Time alone expires no session and moves no event.
LEMMA TickInv == BusInv /\ Tick => BusInv'
<1>. SUFFICES ASSUME BusInv, Tick PROVE BusInv'
  OBVIOUS
<1>. USE DEF BusInv, Tick, connVars, auxVars
<1>1. BusTypeOK'
  BY ConfigAssumption DEF BusTypeOK
<1>2. Owned' /\ Published' /\ Lengths'
  BY DEF Owned, Published, Lengths
<1>3. InOrder' /\ NothingSkipped' /\ Isolated'
  BY DEF InOrder, Increasing, NothingSkipped, HoldsAllSubscribed, Isolated, Connected
<1>. QED
  BY <1>1, <1>2, <1>3

\* Dropping the SessionStates of `gone`, which the bus does in every operation
\* that cleans up, leaves the invariant in place.
LEMMA RemovalInv ==
    ASSUME BusInv, NEW STATE gone,
           sessions' = sessions \ gone,
           authorization' = Without(authorization, gone, 0),
           history' = Without(history, gone, <<>>),
           idle' = Without(idle, gone, 0),
           connections' = Without(connections, gone, {}),
           UNCHANGED <<next_sequence, connVars, auxVars>>
    PROVE  BusInv'
<1>. USE DEF BusInv, Without, connVars, auxVars
<1>1. BusTypeOK'
  BY ConfigAssumption DEF BusTypeOK, Levels
<1>2. Owned' /\ Published' /\ Lengths'
  BY ConfigAssumption DEF BusTypeOK, Owned, Published, Lengths
<1>3. InOrder'
  BY DEF BusTypeOK, InOrder, Increasing
<1>4. \A c \in ConnIds : Connected(c)' => Connected(c) /\ scope[c] \notin gone
  BY DEF BusTypeOK, Connected
<1>5. \A s \in SessionIds \ gone : history'[s] = history[s] /\ authorization'[s] = authorization[s]
  BY DEF BusTypeOK
<1>6. \A s \in gone \cap SessionIds : history'[s] = <<>>
  BY DEF BusTypeOK
<1>7. NothingSkipped'
  <2>. SUFFICES ASSUME NEW c \in ConnIds, Connected(c)'
                PROVE  HoldsAllSubscribed(c)'
    BY DEF NothingSkipped
  <2>1. Connected(c) /\ history'[scope[c]] = history[scope[c]]
    BY <1>4, <1>5 DEF BusTypeOK, Connected
  <2>2. HoldsAllSubscribed(c)
    BY <2>1 DEF NothingSkipped
  <2>3. /\ queue' = queue /\ subscriptions' = subscriptions /\ scope' = scope
        /\ subscribedAt' = subscribedAt /\ taken' = taken
    OBVIOUS
  <2>. QED
    BY <2>1, <2>2, <2>3, ZenonT(30) DEF HoldsAllSubscribed

<1>8. Isolated'
  <2>1. ASSUME NEW s \in SessionIds, NEW i \in DOMAIN history'[s]
        PROVE  /\ history'[s][i].payload \in {s, Broadcast}
               /\ permits(authorization'[s], Required[history'[s][i].event])
    <3>1. s \notin gone
      BY <1>6
    <3>. QED
      BY <1>5, <3>1 DEF Isolated
  <2>2. ASSUME NEW c \in ConnIds, Connected(c)', NEW i \in DOMAIN queue'[c]
        PROVE  /\ queue'[c][i].payload \in {scope'[c], Broadcast}
               /\ permits(authorization'[scope'[c]], Required[queue'[c][i].event])
    BY <1>4, <1>5, <2>2 DEF BusTypeOK, Isolated, Connected
  <2>. QED
    BY <2>1, <2>2 DEF Isolated
<1>. QED
  BY <1>1, <1>2, <1>3, <1>7, <1>8

\* remove_session drops one SessionState with all its connections.
LEMMA RemoveSessionInv ==
    ASSUME BusInv, NEW s \in SessionIds, RemoveSession(s)
    PROVE  BusInv'
BY RemovalInv DEF RemoveSession

\* A rejected connect cleans up and adds nothing.
LEMMA ConnectRejectedInv ==
    ASSUME BusInv, NEW s \in SessionIds, NEW level \in Granted, ConnectRejected(s, level)
    PROVE  BusInv'
<1>1. connections' = Without(connections, Expired, {})
  BY DEF ConnectRejected, BusInv, BusTypeOK, Without, Expired
<1>. QED
  BY <1>1, RemovalInv DEF ConnectRejected

\* connect cleans up, makes room if the bus is full and adds a connection without
\* subscriptions, which is owed nothing yet.
LEMMA ConnectInv ==
    ASSUME BusInv, NEW s \in SessionIds, NEW level \in Granted, NEW c \in ConnIds,
           Connect(s, level, c)
    PROVE  BusInv'
<1>. USE DEF BusInv
<1>1. PICK gone \in SUBSET sessions :
        /\ \A r \in gone : connections[r] = {}
        /\ s \in sessions \ gone => authorization[s] = level
        /\ sessions' = (sessions \ gone) \cup {s}
        /\ authorization' = [Without(authorization, gone, 0) EXCEPT ![s] = level]
        /\ history' = Without(history, gone, <<>>)
        /\ idle' = [Without(idle, gone, 0) EXCEPT ![s] = 0]
        /\ connections' = [connections EXCEPT ![s] = @ \cup {c}]
  BY DEF Connect, Expired, Removable
<1>2. /\ scope[c] = NoSession
      /\ subscriptions' = [subscriptions EXCEPT ![c] = {}]
      /\ queue' = [queue EXCEPT ![c] = <<>>]
      /\ scope' = [scope EXCEPT ![c] = s]
      /\ subscribedAt' = [subscribedAt EXCEPT ![c] = [e \in Events |-> 0]]
      /\ taken' = [taken EXCEPT ![c] = 0]
      /\ next_sequence' = next_sequence
  BY DEF Connect
<1>3. BusTypeOK'
  <2>1. /\ sessions' \in SUBSET SessionIds
        /\ connections' \in [SessionIds -> SUBSET ConnIds]
    BY <1>1 DEF BusTypeOK
  <2>2. authorization' \in [SessionIds -> Levels]
    BY <1>1, LevelsAssumption DEF BusTypeOK, Without, Levels
  <2>3. history' \in [SessionIds -> Seq(Envelope)]
    BY <1>1 DEF BusTypeOK, Without
  <2>4. idle' \in [SessionIds -> 0..TTL]
    BY <1>1, ConfigAssumption DEF BusTypeOK, Without
  <2>5. /\ subscriptions' \in [ConnIds -> SUBSET Events]
        /\ queue' \in [ConnIds -> Seq(Envelope)]
        /\ scope' \in [ConnIds -> SessionIds \cup {NoSession}]
    BY <1>2 DEF BusTypeOK
  <2>6. /\ next_sequence' \in 0..MaxSequence
        /\ subscribedAt' \in [ConnIds -> [Events -> 0..MaxSequence]]
        /\ taken' \in [ConnIds -> 0..MaxSequence]
    BY <1>2, ConfigAssumption DEF BusTypeOK
  <2>. QED
    BY <2>1, <2>2, <2>3, <2>4, <2>5, <2>6 DEF BusTypeOK
<1>4. \A t \in SessionIds : c \notin connections[t]
  BY <1>2, DistinctAssumption DEF Owned
<1>5. Owned'
  BY <1>1, <1>2, <1>4 DEF BusTypeOK, Owned, Without
<1>6. Published' /\ Lengths'
  BY <1>1, <1>2, ConfigAssumption DEF BusTypeOK, Published, Lengths, Without
<1>7. InOrder'
  BY <1>1, <1>2 DEF BusTypeOK, InOrder, Increasing, Without
<1>8. \A d \in ConnIds \ {c} : Connected(d)' =>
        /\ Connected(d)
        /\ scope'[d] = scope[d]
        /\ history'[scope[d]] = history[scope[d]]
        /\ authorization'[scope[d]] = authorization[scope[d]]
  <2>. SUFFICES ASSUME NEW d \in ConnIds \ {c}, Connected(d)'
                PROVE  /\ Connected(d)
                       /\ scope'[d] = scope[d]
                       /\ history'[scope[d]] = history[scope[d]]
                       /\ authorization'[scope[d]] = authorization[scope[d]]
    OBVIOUS
  <2>1. Connected(d) /\ scope'[d] = scope[d] /\ scope[d] \in SessionIds
    BY <1>1, <1>2 DEF BusTypeOK, Connected
  <2>2. scope[d] \notin gone /\ scope[d] \in sessions
    BY <1>1, <2>1 DEF Connected, Owned
  <2>. QED
    BY <1>1, <2>1, <2>2 DEF BusTypeOK, Without
<1>9. NothingSkipped'
  <2>. SUFFICES ASSUME NEW d \in ConnIds, Connected(d)'
                PROVE  HoldsAllSubscribed(d)'
    BY DEF NothingSkipped
  <2>1. CASE d = c
    BY <1>2, <2>1 DEF BusTypeOK, HoldsAllSubscribed
  <2>2. CASE d # c
    <3>1. HoldsAllSubscribed(d)
      BY <1>8, <2>2 DEF NothingSkipped
    <3>2. /\ history'[scope'[d]] = history[scope[d]]
          /\ subscriptions'[d] = subscriptions[d]
          /\ subscribedAt'[d] = subscribedAt[d]
          /\ taken'[d] = taken[d]
          /\ queue'[d] = queue[d]
      BY <1>2, <1>8, <2>2 DEF BusTypeOK
    <3>. QED
      BY <3>1, <3>2 DEF HoldsAllSubscribed
  <2>. QED
    BY <2>1, <2>2
<1>10. Isolated'
  <2>1. ASSUME NEW t \in SessionIds, NEW i \in DOMAIN history'[t]
        PROVE  /\ history'[t][i].payload \in {t, Broadcast}
               /\ permits(authorization'[t], Required[history'[t][i].event])
    <3>1. t \in sessions \ gone /\ history'[t] = history[t]
      BY <1>1 DEF Owned, Without, BusTypeOK
    <3>2. authorization'[t] = authorization[t]
      BY <1>1, <3>1 DEF BusTypeOK, Without
    <3>. QED
      BY <3>1, <3>2 DEF Isolated
  <2>2. ASSUME NEW d \in ConnIds, Connected(d)', NEW i \in DOMAIN queue'[d]
        PROVE  /\ queue'[d][i].payload \in {scope'[d], Broadcast}
               /\ permits(authorization'[scope'[d]], Required[queue'[d][i].event])
    <3>1. d # c /\ queue'[d] = queue[d]
      BY <1>2 DEF BusTypeOK
    <3>. QED
      BY <1>8, <2>2, <3>1 DEF Isolated
  <2>. QED
    BY <2>1, <2>2 DEF Isolated
<1>. QED
  BY <1>3, <1>5, <1>6, <1>7, <1>9, <1>10

\* disconnect removes one connection and leaves the history of its session.
LEMMA DisconnectInv ==
    ASSUME BusInv, NEW c \in ConnIds, Disconnect(c)
    PROVE  BusInv'
<1>. USE DEF BusInv, Disconnect
<1>1. BusTypeOK'
  BY ConfigAssumption DEF BusTypeOK
<1>2. Owned'
  BY DEF BusTypeOK, Owned
<1>3. Published' /\ Lengths'
  BY ConfigAssumption DEF BusTypeOK, Published, Lengths
<1>4. InOrder'
  BY DEF BusTypeOK, InOrder, Increasing
<1>5. \A d \in ConnIds : Connected(d)' => d # c /\ Connected(d) /\ scope'[d] = scope[d]
  BY DEF BusTypeOK, Connected
<1>6. NothingSkipped'
  <2>. SUFFICES ASSUME NEW d \in ConnIds, Connected(d)'
                PROVE  HoldsAllSubscribed(d)'
    BY DEF NothingSkipped
  <2>1. HoldsAllSubscribed(d)
    BY <1>5 DEF NothingSkipped
  <2>2. /\ history'[scope'[d]] = history[scope[d]]
        /\ subscriptions'[d] = subscriptions[d]
        /\ subscribedAt'[d] = subscribedAt[d]
        /\ taken'[d] = taken[d]
        /\ queue'[d] = queue[d]
    BY <1>5 DEF BusTypeOK
  <2>. QED
    BY <2>1, <2>2 DEF HoldsAllSubscribed

<1>7. Isolated'
  BY <1>5 DEF BusTypeOK, Isolated
<1>. QED
  BY <1>1, <1>2, <1>3, <1>4, <1>6, <1>7

\* subscribe and unsubscribe change one connection's subscriptions; a
\* subscription that is new starts after everything in the history.
LEMMA SubscribeInv ==
    ASSUME BusInv, NEW c \in ConnIds, NEW events \in SUBSET Events, Subscribe(c, events)
    PROVE  BusInv'
<1>. USE DEF BusInv, Subscribe, CanSubscribe
<1>1. BusTypeOK'
  BY ConfigAssumption DEF BusTypeOK, Connected
<1>2. Owned' /\ Lengths'
  BY DEF BusTypeOK, Owned, Lengths
<1>3. Published'
  BY DEF BusTypeOK, Published
<1>4. InOrder' /\ Isolated'
  BY DEF BusTypeOK, InOrder, Increasing, Isolated, Connected
<1>5. NothingSkipped'
  <2>. SUFFICES ASSUME NEW d \in ConnIds, Connected(d)'
                PROVE  HoldsAllSubscribed(d)'
    BY DEF NothingSkipped
  <2>1. HoldsAllSubscribed(d) /\ scope[d] \in SessionIds
    BY DEF NothingSkipped, Connected, BusTypeOK
  <2>2. \A i \in DOMAIN history[scope[d]] : LET h == history[scope[d]][i] IN
          /\ h.event \in Events /\ h.sequence \in Nat
          /\ (h.event \in subscriptions'[d] /\ h.sequence > subscribedAt'[d][h.event])
             => (h.event \in subscriptions[d] /\ h.sequence > subscribedAt[d][h.event])
    <3>. SUFFICES ASSUME NEW i \in DOMAIN history[scope[d]], NEW h, h = history[scope[d]][i]
                  PROVE  /\ h.event \in Events /\ h.sequence \in Nat
                         /\ (h.event \in subscriptions'[d] /\ h.sequence > subscribedAt'[d][h.event])
                            => (h.event \in subscriptions[d] /\ h.sequence > subscribedAt[d][h.event])
      OBVIOUS
    <3>1. h \in Envelope /\ h.sequence <= next_sequence
      BY <2>1 DEF BusTypeOK, Published
    <3>2. CASE d = c /\ h.event \in events \ subscriptions[c]
      BY <3>1, <3>2 DEF BusTypeOK, Envelope
    <3>3. CASE ~(d = c /\ h.event \in events \ subscriptions[c])
      <4>1. subscribedAt'[d][h.event] = subscribedAt[d][h.event]
        BY <3>1, <3>3 DEF BusTypeOK, Envelope
      <4>2. h.event \in subscriptions'[d] => h.event \in subscriptions[d]
        BY <3>1, <3>3 DEF BusTypeOK, Envelope
      <4>. QED
        BY <3>1, <4>1, <4>2 DEF Envelope
    <3>. QED
      BY <3>2, <3>3
  <2>. QED
    BY <2>1, <2>2 DEF HoldsAllSubscribed
<1>. QED
  BY <1>1, <1>2, <1>3, <1>4, <1>5

\* unsubscribe ends subscriptions; what is queued for them stays in order.
LEMMA UnsubscribeInv ==
    ASSUME BusInv, NEW c \in ConnIds, NEW events \in SUBSET Events, Unsubscribe(c, events)
    PROVE  BusInv'
<1>. USE DEF BusInv, Unsubscribe, CanUnsubscribe, auxVars
<1>1. BusTypeOK'
  BY ConfigAssumption DEF BusTypeOK, Connected
<1>2. Owned' /\ Lengths' /\ Published'
  BY DEF BusTypeOK, Owned, Lengths, Published
<1>3. InOrder' /\ Isolated'
  BY DEF BusTypeOK, InOrder, Increasing, Isolated, Connected
<1>4. NothingSkipped'
  <2>. SUFFICES ASSUME NEW d \in ConnIds, Connected(d)'
                PROVE  HoldsAllSubscribed(d)'
    BY DEF NothingSkipped
  <2>1. HoldsAllSubscribed(d) /\ subscriptions'[d] \subseteq subscriptions[d]
    BY DEF NothingSkipped, Connected, BusTypeOK
  <2>. QED
    BY <2>1 DEF HoldsAllSubscribed
<1>. QED
  BY <1>1, <1>2, <1>3, <1>4

\* Receiving takes the oldest envelope off the queue and marks it as received.
LEMMA RecvInv ==
    ASSUME BusInv, NEW c \in ConnIds, Recv(c)
    PROVE  BusInv'
<1>. USE DEF BusInv, Recv, sessionVars
<1>. DEFINE q == queue[c]
            r == Tail(queue[c])
<1>1. /\ q \in Seq(Envelope) /\ q # <<>>
      /\ Len(q) \in Nat \ {0}
      /\ Head(q) = q[1] /\ q[1] \in Envelope
      /\ r \in Seq(Envelope)
      /\ Len(r) = Len(q) - 1
      /\ DOMAIN q = 1..Len(q) /\ DOMAIN r = 1..(Len(q) - 1)
      /\ \A i \in 1..(Len(q) - 1) : r[i] = q[i + 1]
  BY HeadTailProperties, EmptySeq, LenProperties DEF BusTypeOK
<1>2. /\ queue' = [queue EXCEPT ![c] = r] /\ queue'[c] = r
      /\ taken' = [taken EXCEPT ![c] = q[1].sequence] /\ taken'[c] = q[1].sequence
      /\ q = queue[c] /\ taken[c] \in Nat /\ scope[c] \in SessionIds
  BY <1>1 DEF BusTypeOK, Connected
<1>. HIDE DEF q, r
<1>a. /\ \A i \in DOMAIN q : q[i] \in Envelope /\ q[i].sequence \in 1..MaxSequence
      /\ \A i \in DOMAIN r : i + 1 \in DOMAIN q /\ r[i] = q[i + 1]
  <2>1. \A i \in DOMAIN q : q[i] \in Envelope
    BY <1>1
  <2>2. \A x \in Envelope : x.sequence \in 1..MaxSequence
    BY DEF Envelope
  <2>3. \A i \in DOMAIN r : i + 1 \in DOMAIN q /\ r[i] = q[i + 1]
    BY <1>1
  <2>. QED
    BY <2>1, <2>2, <2>3

<1>3. BusTypeOK'
  <2>1. queue' \in [ConnIds -> Seq(Envelope)]
    BY <1>1, <1>2, <1>a DEF BusTypeOK
  <2>2. taken' \in [ConnIds -> 0..MaxSequence]
    BY <1>1, <1>2, <1>a DEF BusTypeOK, Envelope
  <2>. QED
    BY <2>1, <2>2 DEF BusTypeOK
<1>4. Owned'
  BY DEF Owned
<1>5. Published'
  <2>1. \A i \in DOMAIN r : r[i].sequence <= next_sequence
    BY <1>1, <1>2, <1>a DEF Published
  <2>2. taken'[c] <= next_sequence
    BY <1>1, <1>2, <1>a DEF Published
  <2>. QED
    BY <1>2, <2>1, <2>2 DEF Published, BusTypeOK
<1>6. Lengths'
  BY <1>1, <1>2, <1>a, ConfigAssumption DEF BusTypeOK, Lengths
<1>7. InOrder'
  <2>1. \A i, j \in 1..Len(q) : i < j => q[i].sequence < q[j].sequence
    BY <1>1, <1>2, <1>a DEF InOrder, Increasing
  <2>2. Increasing(r)
    <3>. SUFFICES ASSUME NEW i \in DOMAIN r, NEW j \in DOMAIN r, i < j
                  PROVE  r[i].sequence < r[j].sequence
      BY DEF Increasing
    <3>1. i + 1 \in 1..Len(q) /\ j + 1 \in 1..Len(q) /\ i + 1 < j + 1
      BY <1>1
    <3>. QED
      BY <1>a, <2>1, <3>1
  <2>3. \A i \in DOMAIN r : r[i].sequence > q[1].sequence
    BY <1>1, <1>2, <1>a, <2>1
  <2>. QED
    BY <1>2, <2>2, <2>3 DEF InOrder, BusTypeOK
<1>8. NothingSkipped'
  <2>. SUFFICES ASSUME NEW d \in ConnIds, Connected(d)'
                PROVE  HoldsAllSubscribed(d)'
    BY DEF NothingSkipped
  <2>1. HoldsAllSubscribed(d)
    BY DEF NothingSkipped, Connected
  <2>2. CASE d # c
    <3>1. queue'[d] = queue[d] /\ taken'[d] = taken[d]
      BY <1>2, <2>2 DEF BusTypeOK
    <3>. QED
      BY ZenonT(60), <2>1, <3>1 DEF HoldsAllSubscribed
  <2>3. CASE d = c
    <3>a. /\ queue'[c] = r /\ taken'[c] = q[1].sequence
          /\ history' = history /\ scope' = scope /\ subscriptions' = subscriptions
          /\ subscribedAt' = subscribedAt
      BY <1>2 DEF BusTypeOK
    <3>. HIDE DEF BusInv, Recv
    <3>b. SUFFICES \A i \in DOMAIN history[scope[c]] :
                      LET h == history[scope[c]][i] IN
                      /\ h.event \in subscriptions[c]
                      /\ h.sequence > subscribedAt[c][h.event]
                      /\ h.sequence > q[1].sequence
                      => \E j \in DOMAIN r : r[j] = h
      BY <2>3, <3>a DEF HoldsAllSubscribed
    <3>. USE DEF BusInv, Recv
    <3>. SUFFICES ASSUME NEW i \in DOMAIN history[scope[c]], NEW h, h = history[scope[c]][i],
                         h.event \in subscriptions[c],
                         h.sequence > subscribedAt[c][h.event],
                         h.sequence > q[1].sequence
                  PROVE  \E j \in DOMAIN r : r[j] = h
      OBVIOUS
    <3>1. q[1].sequence > taken[c] /\ h \in Envelope
      BY <1>1, <1>2, <1>a DEF InOrder, BusTypeOK
    <3>2. h.sequence > taken[c]
      BY <1>1, <1>2, <1>a, <3>1 DEF Envelope
    <3>3. PICK j \in DOMAIN q : q[j] = h
      BY <1>2, <2>1, <2>3, <3>2 DEF HoldsAllSubscribed
    <3>4. j # 1
      BY <3>1, <3>3 DEF Envelope
    <3>5. j - 1 \in DOMAIN r /\ r[j - 1] = q[j]
      BY <1>1, <3>3, <3>4
    <3>. QED
      BY <3>3, <3>5
  <2>. QED
    BY <2>2, <2>3
<1>9. Isolated'
  BY <1>2, <1>a DEF Isolated, Connected, BusTypeOK
<1>. QED
  BY <1>3, <1>4, <1>5, <1>6, <1>7, <1>8, <1>9

\* Appending an envelope that is newer than everything in a sequence keeps it
\* ascending.
LEMMA AppendOrdered ==
    ASSUME NEW h \in Seq(Envelope), NEW x \in Envelope, Increasing(h),
           \A i \in DOMAIN h : h[i].sequence < x.sequence
    PROVE  /\ Append(h, x) \in Seq(Envelope)
           /\ Len(Append(h, x)) = Len(h) + 1
           /\ \A i \in DOMAIN Append(h, x) :
                Append(h, x)[i] = x \/ \E j \in DOMAIN h : Append(h, x)[i] = h[j]
           /\ \A j \in DOMAIN h : \E i \in DOMAIN Append(h, x) : Append(h, x)[i] = h[j]
           /\ \E i \in DOMAIN Append(h, x) : Append(h, x)[i] = x
           /\ Increasing(Append(h, x))
<1>. DEFINE a == Append(h, x)
<1>1. /\ a \in Seq(Envelope) /\ Len(a) = Len(h) + 1 /\ Len(h) \in Nat
      /\ DOMAIN a = 1..(Len(h) + 1) /\ DOMAIN h = 1..Len(h)
      /\ \A i \in 1..Len(h) : a[i] = h[i]
      /\ a[Len(h) + 1] = x
  BY AppendProperties, LenProperties
<1>. HIDE DEF a
<1>2. /\ \A i \in DOMAIN a : a[i] = x \/ \E j \in DOMAIN h : a[i] = h[j]
      /\ \A j \in DOMAIN h : \E i \in DOMAIN a : a[i] = h[j]
      /\ \E i \in DOMAIN a : a[i] = x
  BY <1>1
<1>3. Increasing(a)
  BY <1>1 DEF Increasing
<1>. QED
  BY <1>1, <1>2, <1>3 DEF a

\* A history stays ascending when the newest envelope is pushed onto it.
LEMMA PushOrdered ==
    ASSUME NEW h \in Seq(Envelope), NEW x \in Envelope, Len(h) <= HistoryCapacity,
           Increasing(h), \A i \in DOMAIN h : h[i].sequence < x.sequence
    PROVE  /\ \A i \in DOMAIN Push(h, x) :
                Push(h, x)[i] = x \/ \E j \in DOMAIN h : Push(h, x)[i] = h[j]
           /\ Increasing(Push(h, x))
<1>. DEFINE p == Push(h, x)
<1>1. PICK d \in {0, 1} :
        /\ Len(p) = Len(h) + 1 - d
        /\ \A i \in 1..Len(p) : p[i] = IF i + d <= Len(h) THEN h[i + d] ELSE x
  BY PushProperties
<1>2. /\ Len(h) \in Nat /\ DOMAIN h = 1..Len(h)
      /\ DOMAIN p = 1..Len(p)
  BY PushProperties, LenProperties
<1>. HIDE DEF p
<1>3. \A i \in DOMAIN p : p[i] = x \/ \E j \in DOMAIN h : p[i] = h[j]
  <2>. SUFFICES ASSUME NEW i \in DOMAIN p, i + d <= Len(h)
                PROVE  \E j \in DOMAIN h : p[i] = h[j]
    BY <1>1, <1>2
  <2>1. i + d \in DOMAIN h /\ p[i] = h[i + d]
    BY <1>1, <1>2
  <2>. QED
    BY <2>1
<1>4. Increasing(p)
  <2>. SUFFICES ASSUME NEW i \in DOMAIN p, NEW j \in DOMAIN p, i < j
                PROVE  p[i].sequence < p[j].sequence
    BY DEF Increasing
  <2>0. i \in 1..Len(p) /\ j \in 1..Len(p) /\ i + d <= Len(h) /\ i + d \in 1..Len(h)
    BY <1>1, <1>2
  <2>1. i + d \in DOMAIN h /\ p[i] = h[i + d]
    BY <1>1, <1>2, <2>0
  <2>2. CASE
 j + d <= Len(h)
    <3>1. j + d \in DOMAIN h /\ p[j] = h[j + d] /\ i + d < j + d
      BY <1>1, <1>2, <2>2
    <3>. QED
      BY <2>1, <3>1 DEF Increasing
  <2>3. CASE ~(j + d <= Len(h))
    BY <1>1, <1>2, <2>1, <2>3
  <2>. QED
    BY <2>2, <2>3
<1>. QED
  BY <1>3, <1>4 DEF p

\* publish.  The sessions split into the receivers, the expired ones and the
\* rest; the connections into those whose queue takes the envelope, those that
\* lose their place for a full queue, and those it does not concern.
LEMMA PublishInv ==
    ASSUME BusInv, NEW target \in SessionIds \cup {Broadcast}, NEW event \in Events,
           Publish(target, event)
    PROVE  BusInv'
<1>. USE DEF BusInv
<1>. DEFINE x == [event |-> event, payload |-> target, sequence |-> next_sequence + 1]
            R == Receivers(target, event)
            Sent(c) == /\ scope[c] \in R
                       /\ c \in connections[scope[c]] \ Overflowing(scope[c], event)
                       /\ event \in subscriptions[c]
<1>1. /\ x \in Envelope
      /\ x.event = event /\ x.payload = target /\ x.sequence = next_sequence + 1
      /\ next_sequence \in Nat
      /\ next_sequence' = next_sequence + 1 /\ next_sequence' \in 0..MaxSequence
  BY ConfigAssumption DEF BusTypeOK, Publish, NextSequence, Envelope
<1>2. /\ R \subseteq sessions \ Expired
      /\ \A s \in R : target \in {s, Broadcast} /\ permits(authorization[s], Required[event])
      /\ \A s \in Expired : s \in sessions /\ connections[s] = {}
      /\ sessions \subseteq SessionIds
  BY DEF Receivers, Expired, BusTypeOK
<1>3. /\ history' = [s \in SessionIds |-> IF s \in R THEN Push(history[s], x)
                                         ELSE IF s \in Expired THEN <<>> ELSE history[s]]
      /\ idle' = [s \in SessionIds |-> IF s \in R \cup Expired THEN 0 ELSE idle[s]]
      /\ connections' = [s \in SessionIds |-> IF s \in R THEN Retained(s, event)
                                             ELSE connections[s]]
      /\ queue' = [c \in ConnIds |-> TrySend(c, x, R)]
      /\ sessions' = sessions \ Expired
      /\ authorization' = Without(authorization, Expired, 0)
      /\ UNCHANGED <<subscriptions, scope, subscribedAt, taken>>
  BY DEF Publish, NextSequence, auxVars
<1>4. \A c \in ConnIds : queue'[c] = IF Sent(c) THEN Append(queue[c], x) ELSE queue[c]
  BY <1>1, <1>3 DEF TrySend
<1>. HIDE DEF x, R
<1>5. \A s \in SessionIds :
        /\ history[s] \in Seq(Envelope) /\ Len(history[s]) <= HistoryCapacity
        /\ Increasing(history[s])
        /\ \A i \in DOMAIN history[s] : history[s][i].sequence < x.sequence
  <2>1. ASSUME NEW s \in SessionIds, NEW i \in DOMAIN history[s]
        PROVE  history[s][i].sequence < x.sequence
    <3>1. history[s][i] \in Envelope /\ history[s][i].sequence <= next_sequence
      BY DEF BusTypeOK, Published
    <3>. QED
      BY <1>1, <3>1 DEF Envelope
  <2>2. \A s \in SessionIds :
          /\ history[s] \in Seq(Envelope) /\ Len(history[s]) <= HistoryCapacity
          /\ Increasing(history[s])
    BY DEF BusTypeOK, Lengths, InOrder
  <2>. QED
    BY <2>1, <2>2
<1>6. \A c \in ConnIds :
        /\ queue[c] \in Seq(Envelope) /\ Increasing(queue[c])
        /\ \A i \in DOMAIN queue[c] : queue[c][i].sequence < x.sequence
  <2>1. ASSUME NEW c \in ConnIds, NEW i \in DOMAIN queue[c]
        PROVE  queue[c][i].sequence < x.sequence
    <3>1. queue[c][i] \in Envelope /\ queue[c][i].sequence <= next_sequence
      BY DEF BusTypeOK, Published
    <3>. QED
      BY <1>1, <3>1 DEF Envelope
  <2>2. \A c \in ConnIds : queue[c] \in Seq(Envelope) /\ Increasing(queue[c])
    BY DEF BusTypeOK, InOrder
  <2>. QED
    BY <2>1, <2>2
<1>7. \A s \in R :
        /\ history'[s] \in Seq(Envelope) /\ Len(history'[s]) <= HistoryCapacity
        /\ Increasing(history'[s])
        /\ \A i \in DOMAIN history'[s] :
            history'[s][i] = x \/ \E j \in DOMAIN history[s] : history'[s][i] = history[s][j]
  <2>. SUFFICES ASSUME NEW s \in R
                PROVE  /\ history'[s] \in Seq(Envelope) /\ Len(history'[s]) <= HistoryCapacity
                       /\ Increasing(history'[s])
                       /\ \A i \in DOMAIN history'[s] :
                           \/ history'[s][i] = x
                           \/ \E j \in DOMAIN history[s] : history'[s][i] = history[s][j]
    OBVIOUS
  <2>1. s \in SessionIds /\ history'[s] = Push(history[s], x)
    BY <1>2, <1>3
  <2>2. /\ Push(history[s], x) \in Seq(Envelope)
        /\ Len(Push(history[s], x)) <= HistoryCapacity
    BY <1>1, <1>5, <2>1, PushProperties, ConfigAssumption
  <2>3. /\ Increasing(Push(history[s], x))
        /\ \A i \in DOMAIN Push(history[s], x) :
             \/ Push(history[s], x)[i] = x
             \/ \E j \in DOMAIN history[s] : Push(history[s], x)[i] = history[s][j]
    BY <1>1, <1>5, <2>1, PushOrdered
  <2>. QED
    BY <2>1, <2>2, <2>3
<1>8. \A s \in SessionIds \ R : history'[s] = history[s] \/ history'[s] = <<>>
  BY <1>3
<1>9. \A c \in ConnIds : Sent(c) =>
        /\ queue'[c] \in Seq(Envelope) /\ Len(queue'[c]) = Len(queue[c]) + 1
        /\ Len(queue[c]) < QueueCapacity
        /\ Increasing(queue'[c])
        /\ \A i \in DOMAIN queue'[c] :
            queue'[c][i] = x \/ \E j \in DOMAIN queue[c] : queue'[c][i] = queue[c][j]
        /\ \A j \in DOMAIN queue[c] : \E i \in DOMAIN queue'[c] : queue'[c][i] = queue[c][j]
        /\ \E i \in DOMAIN queue'[c] : queue'[c][i] = x
  <2>. SUFFICES ASSUME NEW c \in ConnIds, Sent(c)
                PROVE  /\ queue'[c] \in Seq(Envelope) /\ Len(queue'[c]) = Len(queue[c]) + 1
                       /\ Len(queue[c]) < QueueCapacity
                       /\ Increasing(queue'[c])
                       /\ \A i \in DOMAIN queue'[c] :
                           \/ queue'[c][i] = x
                           \/ \E j \in DOMAIN queue[c] : queue'[c][i] = queue[c][j]
                       /\ \A j \in DOMAIN queue[c] :
                           \E i \in DOMAIN queue'[c] : queue'[c][i] = queue[c][j]
                       /\ \E i \in DOMAIN queue'[c] : queue'[c][i] = x
    OBVIOUS
  <2>1. Len(queue[c]) < QueueCapacity
    BY <1>6, LenProperties, ConfigAssumption DEF Overflowing
  <2>2. queue'[c] = Append(queue[c], x)
    BY <1>4
  <2>3. /\ queue[c] \in Seq(Envelope) /\ Increasing(queue[c]) /\ x \in Envelope
        /\ \A i \in DOMAIN queue[c] : queue[c][i].sequence < x.sequence
    BY <1>1, <1>6
  <2>. DEFINE a == Append(queue[c], x)
  <2>4. /\ a \in Seq(Envelope) /\ Len(a) = Len(queue[c]) + 1 /\ Increasing(a)
        /\ \A i \in DOMAIN a : a[i] = x \/ \E j \in DOMAIN queue[c] : a[i] = queue[c][j]
        /\ \A j \in DOMAIN queue[c] : \E i \in DOMAIN a : a[i] = queue[c][j]
        /\ \E i \in DOMAIN a : a[i] = x
    BY <2>3, AppendOrdered
  <2>5. queue'[c] = a
    BY <2>2
  <2>. HIDE DEF Sent, a
  <2>. QED
    BY <2>1, <2>4, <2>5
<1>10. \A c \in ConnIds : Connected(c)' =>
         /\ Connected(c) /\ scope'[c] = scope[c] /\ scope[c] \in sessions \ Expired
         /\ (scope[c] \in R /\ event \in subscriptions[c]) => Sent(c)
  <2>. SUFFICES ASSUME NEW c \in ConnIds, Connected(c)'
                PROVE  /\ Connected(c) /\ scope'[c] = scope[c] /\ scope[c] \in sessions \ Expired
                       /\ (scope[c] \in R /\ event \in subscriptions[c]) => Sent(c)
    OBVIOUS
  <2>1. scope'[c] = scope[c] /\ scope[c] \in SessionIds /\ c \in connections'[scope[c]]
    BY <1>3 DEF BusTypeOK, Connected
  <2>2. /\ c \in connections[scope[c]]
        /\ scope[c] \in R => c \notin Overflowing(scope[c], event)
    BY <1>3, <2>1 DEF Retained
  <2>3. scope[c] \in sessions \ Expired
    BY <1>2, <2>1, <2>2 DEF Owned
  <2>. QED
    BY <2>1, <2>2, <2>3, DistinctAssumption DEF Connected
<1>11. BusTypeOK'
  <2>1. history' \in [SessionIds -> Seq(Envelope)]
    <3>1. \A s \in SessionIds : history'[s] \in Seq(Envelope)
      <4>1. <<>> \in Seq(Envelope)
        BY EmptySeq
      <4>. QED
        BY <1>5, <1>7, <1>8, <4>1
    <3>. QED
      BY <1>3, <3>1
  <2>2. queue' \in [ConnIds -> Seq(Envelope)]
    BY <1>3, <1>4, <1>9 DEF BusTypeOK
  <2>3. idle' \in [SessionIds -> 0..TTL]
    BY <1>3, ConfigAssumption DEF BusTypeOK
  <2>4. authorization' \in [SessionIds -> Levels]
    BY <1>3 DEF BusTypeOK, Without, Levels
  <2>5. connections' \in [SessionIds -> SUBSET ConnIds]
    BY <1>3 DEF BusTypeOK, Retained
  <2>. QED
    BY <1>1, <1>3, <2>1, <2>2, <2>3, <2>4, <2>5 DEF BusTypeOK
<1>12. Owned'
  <2>1. \A s \in SessionIds : connections'[s] \subseteq connections[s]
    BY <1>3 DEF Retained
  <2>2. \A s \in SessionIds : s \notin sessions' => connections'[s] = {} /\ history'[s] = <<>>
    BY <1>2, <1>3, <2>1 DEF Owned
  <2>. QED
    BY <1>3, <2>1, <2>2 DEF Owned
<1>13. Published'
  <2>1. ASSUME NEW s \in SessionIds, NEW i \in DOMAIN history'[s]
        PROVE  history'[s][i].sequence <= next_sequence'
    <3>1. history'[s][i] = x \/ \E j \in DOMAIN history[s] : history'[s][i] = history[s][j]
      BY <1>7, <1>8
    <3>2. history'[s][i] \in Envelope
      BY <1>11 DEF BusTypeOK
    <3>. QED
      BY <1>1, <1>5, <3>1, <3>2 DEF Envelope
  <2>2. ASSUME NEW c \in ConnIds, NEW i \in DOMAIN queue'[c]
        PROVE  queue'[c][i].sequence <= next_sequence'
    <3>1. queue'[c][i] = x \/ \E j \in DOMAIN queue[c] : queue'[c][i] = queue[c][j]
      BY <1>4, <1>9
    <3>2. queue'[c][i] \in Envelope
      BY <1>11 DEF BusTypeOK
    <3>. QED
      BY <1>1, <1>6, <3>1, <3>2 DEF Envelope
  <2>3. ASSUME NEW c \in ConnIds
        PROVE  /\ \A e \in Events : subscribedAt'[c][e] <= next_sequence'
               /\ taken'[c] <= next_sequence'
    BY <1>1, <1>3 DEF BusTypeOK, Published
  <2>. QED
    BY <2>1, <2>2, <2>3 DEF Published
<1>14. Lengths'
  <2>1. \A s \in SessionIds : Len(history'[s]) <= HistoryCapacity
    BY <1>5, <1>7, <1>8, ConfigAssumption
  <2>2. \A c \in ConnIds : Len(queue'[c]) <= QueueCapacity
    BY <1>4, <1>6, <1>9, LenProperties, ConfigAssumption DEF Lengths
  <2>. QED
    BY <2>1, <2>2 DEF Lengths
<1>15. InOrder'
  <2>1. \A s \in SessionIds : Increasing(history'[s])
    BY <1>5, <1>7, <1>8 DEF Increasing
  <2>2. \A c \in ConnIds : Increasing(queue'[c])
    BY <1>4, <1>6, <1>9
  <2>3. ASSUME NEW c \in ConnIds, NEW i \in DOMAIN queue'[c]
        PROVE  queue'[c][i].sequence > taken'[c]
    <3>1. queue'[c][i] = x \/ \E j \in DOMAIN queue[c] : queue'[c][i] = queue[c][j]
      BY <1>4, <1>9
    <3>2. taken'[c] = taken[c] /\ taken[c] \in Nat /\ taken[c] <= next_sequence
      BY <1>3 DEF BusTypeOK, Published
    <3>. QED
      BY <1>1, <3>1, <3>2 DEF InOrder
  <2>. QED
    BY <2>1, <2>2, <2>3 DEF InOrder, Increasing
<1>16. NothingSkipped'
  <2>. SUFFICES ASSUME NEW c \in ConnIds, Connected(c)'
                PROVE  HoldsAllSubscribed(c)'
    BY DEF NothingSkipped
  <2>1. HoldsAllSubscribed(c) /\ scope'[c] = scope[c] /\ scope[c] \in SessionIds
    BY <1>2, <1>10 DEF NothingSkipped
  <2>. SUFFICES ASSUME NEW i \in DOMAIN history'[scope[c]], NEW h,
                       h = history'[scope[c]][i],
                       h.event \in subscriptions[c],
                       h.sequence > subscribedAt[c][h.event],
                       h.sequence > taken[c]
                PROVE  \E j \in DOMAIN queue'[c] : queue'[c][j] = h
    <3>1. subscriptions' = subscriptions /\ subscribedAt' = subscribedAt /\ taken' = taken
      BY <1>3
    <3>. QED
      BY <2>1, <3>1 DEF HoldsAllSubscribed
  <2>2. CASE h = x /\ scope[c] \in R
    BY <1>1, <1>9, <1>10, <2>2
  <2>3. CASE \E k \in DOMAIN history[scope[c]] : h = history[scope[c]][k]
    <3>1. PICK j \in DOMAIN queue[c] : queue[c][j] = h
      BY <2>1, <2>3 DEF HoldsAllSubscribed
    <3>. QED
      BY <1>4, <1>9, <3>1
  <2>. QED
    BY <1>7, <1>8, <2>1, <2>2, <2>3
<1>17. Isolated'
  <2>1. ASSUME NEW s \in SessionIds, NEW i \in DOMAIN history'[s]
        PROVE  /\ history'[s][i].payload \in {s, Broadcast}
               /\ permits(authorization'[s], Required[history'[s][i].event])
    <3>1. s \notin Expired
      BY <1>2, <1>3
    <3>2. authorization'[s] = authorization[s]
      BY <1>3, <3>1 DEF Without
    <3>3. \/ s \in R /\ history'[s][i] = x
          \/ \E j \in DOMAIN history[s] : history'[s][i] = history[s][j]
      BY <1>7, <1>8
    <3>. QED
      BY <1>1, <1>2, <3>2, <3>3 DEF Isolated
  <2>2. ASSUME NEW c \in ConnIds, Connected(c)', NEW i \in DOMAIN queue'[c]
        PROVE  /\ queue'[c][i].payload \in {scope'[c], Broadcast}
               /\ permits(authorization'[scope'[c]], Required[queue'[c][i].event])
    <3>1. /\ Connected(c) /\ scope'[c] = scope[c]
          /\ authorization'[scope[c]] = authorization[scope[c]]
      BY <1>2, <1>3, <1>10, <2>2 DEF Without
    <3>2. \/ scope[c] \in R /\ queue'[c][i] = x
          \/ \E j \in DOMAIN queue[c] : queue'[c][i] = queue[c][j]
      BY <1>4, <1>9
    <3>. QED
      BY <1>1, <1>2, <3>1, <3>2 DEF Isolated
  <2>. QED
    BY <2>1, <2>2 DEF Isolated
<1>. QED
  BY <1>11, <1>12, <1>13, <1>14, <1>15, <1>16, <1>17
-----------------------------------------------------------------------------
(***************************************************************************)
(* What a new subscription replays.                                        *)
(***************************************************************************)
\* A set of naturals has a least element.
LEMMA Least ==
    ASSUME NEW S \in SUBSET Nat, S # {}
    PROVE \E i \in S : \A j \in S : i <= j
<1>1. PICK i \in S : \A j \in S : ~(<<j, i>> \in OpToRel(<, Nat))
  BY WFMin, NatLessThanWellFounded
<1>2. \A j \in S : ~(j < i)
  BY <1>1 DEF OpToRel
<1> QED
  BY <1>2

\* f holds what is kept of each prefix of s, up to the n-th.
Keeps(f, s, I, n) ==
    f = [i \in 0 .. n |-> IF i = 0 THEN <<>>
                          ELSE IF i \in I THEN Append(f[i - 1], s[i]) ELSE f[i - 1]]

\* The recursion in Filter defines a function.
LEMMA KeepsExists ==
    ASSUME NEW S, NEW s \in Seq(S), NEW I
    PROVE \A n \in Nat : \E f : Keeps(f, s, I, n)
<1> DEFINE bad == {n \in Nat : ~\E f : Keeps(f, s, I, n)}
<1> SUFFICES ASSUME bad # {} PROVE FALSE
  OBVIOUS
<1>1. PICK n \in bad : \A m \in bad : n <= m
  BY Least
<1>2. \E f : Keeps(f, s, I, 0)
  <2> WITNESS [i \in 0 .. 0 |-> <<>>]
  <2> QED
    BY DEF Keeps
<1>3. n # 0 /\ n \in Nat /\ n - 1 \in Nat
  BY <1>1, <1>2
<1>4. PICK f : Keeps(f, s, I, n - 1)
  BY <1>1, <1>3
<1> DEFINE g == [i \in 0 .. n |-> IF i < n THEN f[i]
                                  ELSE IF n \in I THEN Append(f[n - 1], s[n]) ELSE f[n - 1]]
<1>5. Keeps(g, s, I, n)
  <2>1. \A i \in 0 .. n :
          g[i] = IF i = 0 THEN <<>>
                 ELSE IF i \in I THEN Append(g[i - 1], s[i]) ELSE g[i - 1]
    <3> SUFFICES ASSUME NEW i \in 0 .. n
                 PROVE g[i] = IF i = 0 THEN <<>>
                              ELSE IF i \in I THEN Append(g[i - 1], s[i]) ELSE g[i - 1]
      OBVIOUS
    <3>1. CASE i = n
      <4>1. n - 1 \in 0 .. n /\ n - 1 < n
        BY <1>3
      <4>2. g[n - 1] = f[n - 1]
        BY <4>1
      <4> QED
        BY <1>3, <3>1, <4>2
    <3>2. CASE i < n
      <4>1. i \in 0 .. n - 1
        BY <1>3, <3>2
      <4>2. f[i] = IF i = 0 THEN <<>>
                   ELSE IF i \in I THEN Append(f[i - 1], s[i]) ELSE f[i - 1]
        BY <1>4, <4>1 DEF Keeps
      <4>3. g[i] = f[i]
        BY <3>2
      <4>4. i # 0 => i - 1 \in 0 .. n /\ i - 1 < n
        BY <1>3, <3>2
      <4>5. i # 0 => g[i - 1] = f[i - 1]
        BY <4>4
      <4> QED
        BY <4>2, <4>3, <4>5
    <3> QED
      BY <1>3, <3>1, <3>2
  <2> HIDE DEF g
  <2>2. g = [i \in 0 .. n |-> g[i]]
    BY DEF g
  <2> QED
    BY <2>1, <2>2 DEF Keeps
<1> QED
  BY <1>1, <1>5

\* filter keeps the entries at the positions I, and their order.
LEMMA Filtered ==
    ASSUME NEW h \in Seq(Envelope), Increasing(h), NEW I \in SUBSET DOMAIN h
    PROVE  LET u == Filter(h, I) IN
           /\ u \in Seq(Envelope)
           /\ \A k \in DOMAIN u : \E i \in I : u[k] = h[i]
           /\ \A i \in I : \E k \in DOMAIN u : u[k] = h[i]
           /\ Increasing(u)
<1>. DEFINE f == CHOOSE g : Keeps(g, h, I, Len(h))
<1>1. Keeps(f, h, I, Len(h))
  BY KeepsExists
<1>2. Filter(h, I) = f[Len(h)]
  BY DEF Filter, Keeps
<1>. HIDE DEF f
<1>. DEFINE Right(n) ==
              /\ f[n] \in Seq(Envelope)
              /\ \A k \in DOMAIN f[n] : \E i \in I \cap 1..n : f[n][k] = h[i]
              /\ \A i \in I \cap 1..n : \E k \in DOMAIN f[n] : f[n][k] = h[i]
              /\ Increasing(f[n])
            wrong == {n \in 0..Len(h) : ~Right(n)}
<1>3. /\ f[0] = <<>>
      /\ \A n \in 1..Len(h) : f[n] = IF n \in I THEN Append(f[n - 1], h[n]) ELSE f[n - 1]
  <2>1. \A i \in 0..Len(h) :
          f[i] = IF i = 0 THEN <<>>
                 ELSE IF i \in I THEN Append(f[i - 1], h[i]) ELSE f[i - 1]
    BY <1>1, Zenon DEF Keeps
  <2>2. Len(h) \in Nat
    OBVIOUS
  <2>. QED
    BY <2>1, <2>2
<1>4. Right(0)
  <2>1. f[0] \in Seq(Envelope) /\ DOMAIN f[0] = {} /\ I \cap 1..0 = {}
    BY <1>3
  <2>. QED
    BY <2>1 DEF Increasing
<1>5. ASSUME NEW n \in 1..Len(h), Right(n - 1) PROVE Right(n)
  <2>1. 1..n = (1..(n - 1)) \cup {n} /\ n \in DOMAIN h /\ DOMAIN h = 1..Len(h) /\ n \in Nat
    OBVIOUS
  <2>2. CASE n \notin I
    <3>1. f[n] = f[n - 1] /\ I \cap 1..n = I \cap 1..(n - 1)
      BY <1>3, <2>1, <2>2
    <3>. QED
      BY <1>5, <3>1
  <2>3. CASE n \in I
    <3>. DEFINE old == f[n - 1]
                new == Append(old, h[n])
                m == Len(old)
    <3>1. f[n] = new /\ old \in Seq(Envelope) /\ h[n] \in Envelope
      <4>1. f[n] = Append(f[n - 1], h[n])
        BY <1>3, <2>3
      <4>2. f[n - 1] \in Seq(Envelope)
        BY <1>5
      <4>3. h[n] \in Envelope
        BY <2>1
      <4>. QED
        BY <4>1, <4>2, <4>3
    <3>2. /\ new \in Seq(Envelope) /\ m \in Nat /\ new[m + 1] = h[n]
          /\ DOMAIN old = 1..m /\ DOMAIN new = (1..m) \cup {m + 1}
          /\ \A k \in 1..m : new[k] = old[k] /\ k < m + 1
      BY <3>1
    <3>3. /\ \A k \in 1..m : \E i \in I \cap 1..(n - 1) : old[k] = h[i]
          /\ \A i \in I \cap 1..(n - 1) : \E k \in 1..m : old[k] = h[i]
          /\ Increasing(old)
      BY <1>5, <3>2
    <3>. HIDE DEF old, new, m
    <3>4. \A k \in DOMAIN new : \E i \in I \cap 1..n : new[k] = h[i]
      BY <2>1, <2>3, <3>2, <3>3
    <3>5. \A i \in I \cap 1..n : \E k \in DOMAIN new : new[k] = h[i]
      BY <2>1, <2>3, <3>2, <3>3
    <3>6. Increasing(new)
      <4>1. \A k \in 1..m : new[k].sequence < h[n].sequence
        <5>. TAKE k \in 1..m
        <5>1. PICK i \in I \cap 1..(n - 1) : old[k] = h[i]
          BY <3>3
        <5>2. i < n /\ i \in DOMAIN h
          BY <2>1, <5>1
        <5>. QED
          BY <2>1, <3>2, <5>1, <5>2 DEF Increasing
      <4>2. ASSUME NEW j \in DOMAIN new, NEW k \in DOMAIN new, j < k
            PROVE  new[j].sequence < new[k].sequence
        <5>1. j \in 1..m
          BY <3>2, <4>2
        <5>2. CASE k \in 1..m
          BY <3>2, <3>3, <4>2, <5>1, <5>2 DEF Increasing
        <5>3. CASE k = m + 1
          BY <3>2, <4>1, <5>1, <5>3
        <5>. QED
          BY <3>2, <5>2, <5>3
      <4>. QED
        BY <4>2 DEF Increasing
    <3>. QED
      BY <3>1, <3>2, <3>4, <3>5, <3>6
  <2>. QED
    BY <2>2, <2>3
<1>. HIDE DEF Right
<1>6. wrong = {}
  <2>. SUFFICES ASSUME wrong # {} PROVE FALSE
    OBVIOUS
  <2>1. wrong \in SUBSET Nat
    OBVIOUS
  <2>2. PICK n \in wrong : \A m \in wrong : n <= m
    BY <2>1, Least
  <2>3. n # 0 /\ n \in 1..Len(h)
    BY <1>4
  <2>4. n - 1 \in 0..Len(h) /\ n - 1 \notin wrong
    BY <2>2, <2>3
  <2>. QED
    BY <1>5, <2>3, <2>4
<1>7. Right(Len(h)) /\ I \cap 1..Len(h) = I
  BY <1>6
<1>. QED
  BY <1>2, <1>7 DEF Right

(***************************************************************************)
(* A replay is what the history holds after `since` of the events asked    *)
(* for: nothing else, all of it, and in order.                             *)
(***************************************************************************)
LEMMA Replayed ==
    ASSUME BusInv, NEW s \in SessionIds, NEW E, NEW since \in Nat
    PROVE  LET u == Replay(s, E, since) IN
           /\ u \in Seq(Envelope)
           /\ since = 0 => u = <<>>
           /\ \A k \in DOMAIN u : u[k].sequence > since /\ u[k].sequence <= next_sequence
           /\ since > 0 =>
                \A i \in DOMAIN history[s] :
                    history[s][i].event \in E /\ history[s][i].sequence > since =>
                        \E k \in DOMAIN u : u[k] = history[s][i]
           /\ Increasing(u)
<1>. DEFINE h == history[s]
            I == {i \in DOMAIN h : h[i].sequence > since /\ h[i].event \in E}
<1>1. /\ h \in Seq(Envelope) /\ Increasing(h)
      /\ \A i \in DOMAIN h : h[i].sequence <= next_sequence
  BY DEF BusInv, BusTypeOK, InOrder, Published
<1>2. CASE since = 0
  <2>1. Replay(s, E, since) = <<>>
    BY <1>2 DEF Replay
  <2>2. PICK u : u = <<>>
    OBVIOUS
  <2>3. u \in Seq(Envelope) /\ Increasing(u) /\ DOMAIN u = {}
    BY <2>2 DEF Increasing
  <2>4. Replay(s, E, since) = u
    BY <2>1, <2>2
  <2>5. ~(since > 0)
    BY <1>2
  <2>. QED
    BY <2>2, <2>3, <2>4, <2>5, Zenon
<1>3. CASE since > 0
  <2>1. Replay(s, E, since) = Filter(h, I)
    BY <1>3 DEF Replay
  <2>0. I \in SUBSET DOMAIN h
    OBVIOUS
  <2>. HIDE DEF h, I
  <2>2. LET u == Filter(h, I) IN
        /\ u \in Seq(Envelope)
        /\ \A k \in DOMAIN u : \E i \in I : u[k] = h[i]
        /\ \A i \in I : \E k \in DOMAIN u : u[k] = h[i]
        /\ Increasing(u)
    BY <1>1, <2>0, Filtered, Zenon
  <2>3. PICK u : u = Replay(s, E, since)
    OBVIOUS
  <2>4. /\ u \in Seq(Envelope)
        /\ \A k \in DOMAIN u : \E i \in I : u[k] = h[i]
        /\ \A i \in I : \E k \in DOMAIN u : u[k] = h[i]
        /\ Increasing(u)
    BY <2>1, <2>2, <2>3, Zenon
  <2>5. /\ \A k \in DOMAIN u : u[k].sequence > since /\ u[k].sequence <= next_sequence
        /\ \A i \in DOMAIN h : h[i].event \in E /\ h[i].sequence > since =>
              \E k \in DOMAIN u : u[k] = h[i]
    BY <1>1, <2>0, <2>4 DEF I
  <2>6. since # 0
    BY <1>3
  <2>. QED
    BY <2>3, <2>4, <2>5, <2>6, Zenon DEF h
<1>. QED
  BY <1>2, <1>3
-----------------------------------------------------------------------------
(***************************************************************************)
(* Every reachable state of the bus satisfies the inductive invariant.     *)
(***************************************************************************)
THEOREM BusInvariant == BusSpec => []BusInv
<1>1. BusInit => BusInv
  BY BusInitInv
<1>2. BusInv /\ [BusNext]_busVars => BusInv'
  <2>. SUFFICES ASSUME BusInv, [BusNext]_busVars PROVE BusInv'
    OBVIOUS
  <2>1. CASE BusNext
    BY <2>1, TickInv, RemoveSessionInv, ConnectInv, ConnectRejectedInv, DisconnectInv,
       SubscribeInv, UnsubscribeInv, PublishInv, RecvInv DEF BusNext
  <2>2. CASE UNCHANGED busVars
    <3>. USE <2>2 DEF BusInv, busVars, sessionVars, connVars, auxVars
    <3>1. BusTypeOK' /\ Owned' /\ Published' /\ Lengths'
      BY DEF BusTypeOK, Owned, Published, Lengths
    <3>2. InOrder' /\ NothingSkipped' /\ Isolated'
      BY DEF InOrder, Increasing, NothingSkipped, HoldsAllSubscribed, Isolated, Connected
    <3>. QED
      BY <3>1, <3>2
  <2>. QED
    BY <2>1, <2>2
<1>. QED
  BY <1>1, <1>2, PTL DEF BusSpec

(***************************************************************************)
(* The variables of the bus keep their types.                              *)
(***************************************************************************)
THEOREM BusTyped == BusSpec => []BusTypeOK
<1>1. BusInv => BusTypeOK
  BY DEF BusInv
<1>. QED
  BY <1>1, BusInvariant, PTL

(***************************************************************************)
(* A connection the bus still holds has missed nothing it subscribed to:   *)
(* publish gives up a slow connection, never a single event.               *)
(***************************************************************************)
THEOREM BusSkipsNothing == BusSpec => []NothingSkipped
<1>1. BusInv => NothingSkipped
  BY DEF BusInv
<1>. QED
  BY <1>1, BusInvariant, PTL

(***************************************************************************)
(* Histories and queues ascend, and recv never hands out an envelope that  *)
(* is not newer than the last one.                                         *)
(***************************************************************************)
THEOREM BusInOrder == BusSpec => []InOrder
<1>1. BusInv => InOrder
  BY DEF BusInv
<1>. QED
  BY <1>1, BusInvariant, PTL

(***************************************************************************)
(* No session is given an event above its level or addressed to another.   *)
(***************************************************************************)
THEOREM BusIsolated == BusSpec => []Isolated
<1>1. BusInv => Isolated
  BY DEF BusInv
<1>. QED
  BY <1>1, BusInvariant, PTL
-----------------------------------------------------------------------------
(***************************************************************************)
(* The bus never holds more sessions, or a session more connections, than  *)
(* the configuration allows.                                               *)
(***************************************************************************)
Counted ==
    /\ Cardinality(sessions) <= MaxSessions
    /\ \A s \in SessionIds : Cardinality(connections[s]) <= MaxConnections

\* connect makes room before it adds a session, and checks the limit before it
\* adds a connection.
LEMMA ConnectCounted ==
    ASSUME BusInv, Counted,
           NEW s \in SessionIds, NEW level \in Granted, NEW c \in ConnIds, Connect(s, level, c)
    PROVE  Counted'
<1>. USE DEF BusInv
<1>. DEFINE live == sessions \ Expired
<1>1. /\ IsFiniteSet(sessions) /\ \A t \in SessionIds : IsFiniteSet(connections[t])
      /\ Expired \subseteq sessions
  BY FiniteIdsAssumption, FS_Subset DEF BusTypeOK, Expired
<1>2. /\ IsFiniteSet(live) /\ Cardinality(live) \in Nat
      /\ Cardinality(live) <= MaxSessions
  <2>1. IsFiniteSet(live) /\ Cardinality(live) <= Cardinality(sessions)
    BY <1>1, FS_Subset
  <2>2. Cardinality(live) \in Nat /\ Cardinality(sessions) \in Nat
    BY <1>1, <2>1, FS_CardinalityType
  <2>. QED
    BY <2>1, <2>2, ConfigAssumption DEF Counted
<1>3. PICK gone \in SUBSET sessions :
        /\ \/ ~AtSessionLimit(s) /\ gone = Expired
           \/ AtSessionLimit(s) /\ \E r \in Removable : gone = Expired \cup {r}
        /\ s \in sessions \ gone => Cardinality(connections[s]) < MaxConnections
        /\ sessions' = (sessions \ gone) \cup {s}
        /\ connections' = [connections EXCEPT ![s] = @ \cup {c}]
  BY DEF Connect
<1>4. Cardinality(sessions') <= MaxSessions
  <2>1. CASE ~AtSessionLimit(s) /\ s \in live
    <3>1. sessions' = live
      BY <1>3, <2>1
    <3>. QED
      BY <1>2, <3>1
  <2>2. CASE ~AtSessionLimit(s) /\ s \notin live
    <3>1. sessions' = live \cup {s} /\ ~(Cardinality(live) >= MaxSessions)
      BY <1>3, <2>2 DEF AtSessionLimit
    <3>2. Cardinality(live \cup {s}) = Cardinality(live) + 1
      BY <1>2, <2>2, FS_AddElement
    <3>. QED
      BY <1>2, <3>1, <3>2, ConfigAssumption
  <2>3. CASE AtSessionLimit(s)
    <3>1. PICK r \in Removable : gone = Expired \cup {r}
      BY <1>3, <2>3
    <3>2. r \in live /\ s \notin live /\ sessions' = (live \ {r}) \cup {s}
      BY <1>3, <2>3, <3>1 DEF Removable, AtSessionLimit
    <3>3. IsFiniteSet(live \ {r}) /\ Cardinality(live \ {r}) = Cardinality(live) - 1
      BY <1>2, <3>2, FS_RemoveElement
    <3>4. Cardinality((live \ {r}) \cup {s}) = Cardinality(live \ {r}) + 1
      BY <3>2, <3>3, FS_AddElement
    <3>. QED
      BY <1>2, <3>2, <3>3, <3>4
  <2>. QED
    BY <2>1, <2>2, <2>3
<1>5. ASSUME NEW t \in SessionIds
      PROVE  Cardinality(connections'[t]) <= MaxConnections
  <2>1. CASE t # s
    BY <1>3, <2>1 DEF BusTypeOK, Counted
  <2>2. CASE t = s /\ s \in sessions \ gone
    <3>1. connections'[t] = connections[s] \cup {c}
      BY <1>3, <2>2 DEF BusTypeOK
    <3>2. Cardinality(connections[s]) \in Nat /\ Cardinality(connections[s]) < MaxConnections
      BY <1>1, <1>3, <2>2, FS_CardinalityType
    <3>3. Cardinality(connections[s] \cup {c}) <= Cardinality(connections[s]) + 1
      <4>1. IsFiniteSet(connections[s])
        BY <1>1
      <4>2. Cardinality(connections[s] \cup {c}) \in
              {Cardinality(connections[s]), Cardinality(connections[s]) + 1}
        BY <4>1, FS_AddElement
      <4>. QED
        BY <3>2, <4>2
    <3>4. Cardinality(connections[s] \cup {c}) \in Nat
      BY <1>1, FS_AddElement, FS_CardinalityType
    <3>. QED
      BY <3>1, <3>2, <3>3, <3>4, ConfigAssumption
  <2>3. CASE t = s /\ s \notin sessions \ gone
    <3>1. connections[s] = {}
      BY <1>3, <2>3 DEF Owned, Expired, Removable
    <3>2. connections'[t] = {c}
      BY <1>3, <2>3, <3>1 DEF BusTypeOK
    <3>. QED
      <4>1. Cardinality({c}) = 1
        BY FS_Singleton
      <4>. QED
        BY <3>2, <4>1, ConfigAssumption

  <2>. QED
    BY <2>1, <2>2, <2>3
<1>. QED
  BY <1>4, <1>5 DEF Counted

\* Every other step only removes sessions and connections.
LEMMA ShrinkCounted ==
    ASSUME BusInv, Counted, sessions' \subseteq sessions,
           \A s \in SessionIds : connections'[s] \subseteq connections[s]
    PROVE  Counted'
<1>1. IsFiniteSet(sessions) /\ \A t \in SessionIds : IsFiniteSet(connections[t])
  BY FiniteIdsAssumption, FS_Subset DEF BusInv, BusTypeOK
<1>2. /\ Cardinality(sessions') <= Cardinality(sessions)
      /\ Cardinality(sessions') \in Nat /\ Cardinality(sessions) \in Nat
  BY <1>1, FS_Subset, FS_CardinalityType
<1>3. \A s \in SessionIds :
        /\ Cardinality(connections'[s]) <= Cardinality(connections[s])
        /\ Cardinality(connections'[s]) \in Nat /\ Cardinality(connections[s]) \in Nat
  BY <1>1, FS_Subset, FS_CardinalityType
<1>. QED
  BY <1>2, <1>3, ConfigAssumption DEF Counted

(***************************************************************************)
(* Whatever the clients do, the bus stays within its configured bounds.    *)
(***************************************************************************)
THEOREM BusBounded == BusSpec => []Bounded
<1>1. BusInit => Counted
  BY FS_EmptySet, ConfigAssumption DEF BusInit, Counted
<1>2. BusInv /\ Counted /\ [BusNext]_busVars => Counted'
  <2>. SUFFICES ASSUME BusInv, Counted, [BusNext]_busVars PROVE Counted'
    OBVIOUS
  <2>1. CASE \E s \in SessionIds, level \in Granted, c \in ConnIds : Connect(s, level, c)
    BY <2>1, ConnectCounted
  <2>2. CASE Tick
    BY <2>2, ShrinkCounted DEF Tick
  <2>3. CASE \E s \in SessionIds : RemoveSession(s)
    BY <2>3, ShrinkCounted DEF RemoveSession, Without
  <2>4. CASE \E s \in SessionIds, level \in Granted : ConnectRejected(s, level)
    BY <2>4, ShrinkCounted DEF ConnectRejected
  <2>5. CASE \E c \in ConnIds : Disconnect(c)
    BY <2>5, ShrinkCounted DEF Disconnect, BusInv, BusTypeOK
  <2>6. CASE \E c \in ConnIds, events \in SUBSET Events :
                Subscribe(c, events) \/ Unsubscribe(c, events)
    BY <2>6, ShrinkCounted DEF Subscribe, Unsubscribe
  <2>7. CASE \E target \in SessionIds \cup {Broadcast}, event \in Events : Publish(target, event)
    <3>1. sessions' \subseteq sessions
      BY <2>7 DEF Publish
    <3>2. \A s \in SessionIds : connections'[s] \subseteq connections[s]
      BY <2>7 DEF Publish, Retained
    <3>. QED
      BY <3>1, <3>2, ShrinkCounted
  <2>8. CASE \E c \in ConnIds : Recv(c)
    BY <2>8, ShrinkCounted DEF Recv, sessionVars
  <2>9. CASE UNCHANGED busVars
    BY <2>9, ShrinkCounted DEF busVars, sessionVars
  <2>. QED
    BY <2>1, <2>2, <2>3, <2>4, <2>5, <2>6, <2>7, <2>8, <2>9 DEF BusNext
<1>3. BusInv /\ Counted => Bounded
  BY DEF BusInv, Lengths, Counted, Bounded
<1>. QED
  BY <1>1, <1>2, <1>3, BusInvariant, PTL DEF BusSpec
=============================================================================
