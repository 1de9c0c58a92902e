------------------------- MODULE PluginProcessProofs -------------------------
(***************************************************************************)
(* Proofs about plugin processes: types, `initialize` before everything,   *)
(* and what the calls and the manager know of each other.                  *)
(***************************************************************************)
EXTENDS PluginProcess, SequenceTheorems, TLAPS

-----------------------------------------------------------------------------
(***************************************************************************)
(* Types.                                                                  *)
(***************************************************************************)
Commands == [type : {"call", "cancel"}, request : Requests]

Pieces == [request : Requests, part : {"all", "first", "last"}]

Steps == {"idle", "starting", "sending", "reserving", "reserved", "waiting", "cancelling",
          "returned", "gone"}

CallersOK ==
    /\ pc \in [Calls -> Steps] /\ stage \in [Calls -> {"initialize", "call"}]
    /\ limited \in [Calls -> BOOLEAN] /\ replied \in [Calls -> BOOLEAN]
    /\ initialized \in {"empty", "busy", "set"} /\ aborts \in 0 .. MaxAborts

HostOK == stopping \in {"no", "closing", "waiting", "ended"} /\ dropped \in BOOLEAN

ManagerOK ==
    /\ manager \in {"select", "writing", "killing", "done"}
    /\ manager = "writing" => writing \in Commands
    /\ shutting_down \in BOOLEAN /\ channel_drained \in BOOLEAN
    /\ line_buf \in Requests \cup {NoRequest}
    /\ pending_requests \subseteq Requests
    /\ queue \in Seq(Commands)

PipesOK ==
    /\ child \in {"running", "exited", "killed"}
    /\ stdin \in Seq(Commands) /\ stdout \in Seq(Pieces)
    /\ working \subseteq Requests /\ unfinished \in Requests \cup {NoRequest}
    /\ told \in BOOLEAN

TypeOK == CallersOK /\ HostOK /\ ManagerOK /\ PipesOK

-----------------------------------------------------------------------------
(***************************************************************************)
(* What becomes of `initialize`.                                           *)
(***************************************************************************)
\* The plugin gets nothing more to read.
Dead == child # "running" \/ manager \in {"killing", "done"}

Writing(stg) == manager = "writing" /\ writing.request[2] = stg

\* An `initialize` has gone to the plugin, or goes before whatever is sent now.
Launched ==
    \/ told \/ Dead \/ Writing("initialize")
    \/ \E r \in Queued : r[2] = "initialize"

\* One caller at a time initializes; its own request comes after.
Initializing(c) ==
    stage[c] = "initialize" /\ pc[c] \notin {"idle", "starting", "returned", "gone"}

OneInitializer ==
    /\ \A c \in Calls : Initializing(c) => initialized = "busy"
    /\ \A c, d \in Calls : Initializing(c) /\ Initializing(d) => c = d
    /\ \A c \in Calls : stage[c] = "call" => initialized = "set" /\ InFlight(c) /\ pc[c] # "starting"

\* The channel is closed because the host stops the process or has let go of it,
\* which it does when no call is under way.
ClosedByHost ==
    /\ shutting_down => stopping \in {"waiting", "ended"} \/ dropped
    /\ dropped => \A c \in Calls : ~InFlight(c)

\* Whoever has sent something came after an `initialize`, and the cell is not set
\* before one is sent, except when nothing will be accepted any more.
SentInOrder ==
    /\ \A c \in Calls : pc[c] \in {"waiting", "cancelling"} => Launched
    /\ initialized = "set" => Launched \/ ~accepting_calls \/ dropped

\* No request of a call overtakes an `initialize` on its way to the plugin.
NoneOvertakes ==
    /\ Writing("call") => told \/ child # "running"
    /\ \A i \in DOMAIN queue : queue[i].request[2] = "call" =>
           \/ told \/ Dead \/ Writing("initialize")
           \/ \E j \in DOMAIN queue : /\ j < i /\ queue[j].type = "call"
                                      /\ queue[j].request[2] = "initialize"

InitInv == OneInitializer /\ ClosedByHost /\ SentInOrder /\ NoneOvertakes /\ InitializeFirst

-----------------------------------------------------------------------------
(***************************************************************************)
(* Who waits for what.                                                     *)
(***************************************************************************)
\* The call has gone on from request r.
Over(r) == pc[r[1]] \in {"returned", "gone"} \/ (r[2] = "initialize" /\ stage[r[1]] = "call")

Entries == pending_requests \cup Queued

\* What was sent was sent by a call that waits, or has gone on.
SentOnce ==
    /\ \A r \in Entries : Over(r) \/ Waiting(r)
    /\ \A r \in Cancelled : Over(r)
    /\ \A i, j \in DOMAIN queue : i < j /\ queue[j].type = "call" =>
           queue[i].request # queue[j].request
    /\ pending_requests \cap Queued = {}

\* A reply takes the entry away.
RepliedOnce == \A c \in Calls : replied[c] => pc[c] = "waiting" /\ Request(c) \notin Entries

\* EntriesAreAwaited, with the commands that will become entries.
AllAwaited ==
    \A r \in Entries : Waiting(r) \/ r \in Cancelled \/ pc[r[1]] = "gone" \/ Closed

\* The loop leaves no entries behind, and drains a closed channel only.
LoopOK ==
    /\ manager \in {"killing", "done"} => pending_requests = {}
    /\ channel_drained => shutting_down

CallInv ==
    /\ SentOnce /\ RepliedOnce /\ WaitersAreKnown /\ AllAwaited /\ LoopOK /\ NothingAfterDrain

-----------------------------------------------------------------------------
(***************************************************************************)
(* Requests, sequences and the channel.                                    *)
(***************************************************************************)
\* The bounds of the model, as the provers need them.
LEMMA Sizes == Limits \in SUBSET BOOLEAN /\ MaxAborts \in Nat /\ NoRequest \notin Requests
BY SizesAssumption, NoRequestAssumption

\* A request is a call and a stage.
LEMMA RequestParts ==
    /\ \A r \in Requests : r[1] \in Calls /\ r[2] \in {"initialize", "call"} /\ r = <<r[1], r[2]>>
    /\ \A c \in Calls, s \in {"initialize", "call"} :
           <<c, s>> \in Requests /\ <<c, s>>[1] = c /\ <<c, s>>[2] = s
BY DEF Requests

\* What a command carries.
LEMMA CommandParts ==
    \A t \in {"call", "cancel"}, r \in Requests :
        Command(t, r) \in Commands /\ Command(t, r).type = t /\ Command(t, r).request = r
BY DEF Command, Commands

\* What a request of a call in a known state is.
LEMMA RequestTyped ==
    ASSUME CallersOK, NEW c \in Calls
    PROVE Request(c) \in Requests /\ Request(c)[1] = c /\ Request(c)[2] = stage[c]
<1>1. stage[c] \in {"initialize", "call"}
  BY DEF CallersOK
<1> QED
  BY <1>1, RequestParts DEF Request

\* What Append does to a sequence.
LEMMA Appended ==
    ASSUME NEW S, NEW s \in Seq(S), NEW x \in S
    PROVE /\ Append(s, x) \in Seq(S) /\ DOMAIN s = 1 .. Len(s) /\ Len(s) \in Nat
          /\ DOMAIN Append(s, x) = 1 .. Len(s) + 1
          /\ \A i \in 1 .. Len(s) : Append(s, x)[i] = s[i]
          /\ Append(s, x)[Len(s) + 1] = x
OBVIOUS

\* What Head and Tail are of a sequence that is not empty.
LEMMA Taken ==
    ASSUME NEW S, NEW s \in Seq(S), s # <<>>
    PROVE /\ Head(s) = s[1] /\ Head(s) \in S /\ Tail(s) \in Seq(S)
          /\ Len(s) \in Nat /\ Len(s) >= 1
          /\ DOMAIN s = 1 .. Len(s) /\ DOMAIN Tail(s) = 1 .. Len(s) - 1
          /\ \A i \in 1 .. Len(s) - 1 : Tail(s)[i] = s[i + 1]
OBVIOUS

\* The channel holds commands.
LEMMA QueueTyped ==
    ASSUME ManagerOK
    PROVE /\ \A i \in DOMAIN queue : queue[i] \in Commands /\ queue[i].request \in Requests
                                     /\ queue[i].type \in {"call", "cancel"}
          /\ Queued \subseteq Requests /\ Cancelled \subseteq Requests
<1>1. \A i \in DOMAIN queue : queue[i] \in Commands
  BY DEF ManagerOK
<1>2. \A x \in Commands : x.request \in Requests /\ x.type \in {"call", "cancel"}
  BY DEF Commands
<1> QED
  BY <1>1, <1>2 DEF Queued, Cancelled

\* What a command adds to the channel.
LEMMA Enqueued ==
    ASSUME ManagerOK, NEW t \in {"call", "cancel"}, NEW r \in Requests,
           queue' = Append(queue, Command(t, r))
    PROVE /\ Queued' = Queued \cup (IF t = "call" THEN {r} ELSE {})
          /\ Cancelled' = Cancelled \cup (IF t = "cancel" THEN {r} ELSE {})
<1> DEFINE x == Command(t, r)
<1>1. x \in Commands /\ x.type = t /\ x.request = r
  BY CommandParts
<1>2. /\ queue \in Seq(Commands) /\ queue' = Append(queue, x)
  BY DEF ManagerOK
<1> HIDE DEF x
<1>3. /\ DOMAIN queue = 1 .. Len(queue) /\ Len(queue) \in Nat
      /\ DOMAIN queue' = 1 .. Len(queue) + 1
      /\ \A i \in 1 .. Len(queue) : queue'[i] = queue[i]
      /\ queue'[Len(queue) + 1] = x
  BY <1>1, <1>2, Appended
<1>4. \A i \in DOMAIN queue' : i \in DOMAIN queue \/ i = Len(queue) + 1
  BY <1>3
<1>5. Len(queue) + 1 \in DOMAIN queue' /\ DOMAIN queue \subseteq DOMAIN queue'
  BY <1>3
<1>6. \A i \in DOMAIN queue : queue'[i] = queue[i]
  BY <1>3
<1>7. Queued' = Queued \cup (IF t = "call" THEN {r} ELSE {})
  BY <1>1, <1>3, <1>4, <1>5, <1>6 DEF Queued
<1>8. Cancelled' = Cancelled \cup (IF t = "cancel" THEN {r} ELSE {})
  BY <1>1, <1>3, <1>4, <1>5, <1>6 DEF Cancelled
<1> QED
  BY <1>7, <1>8

\* What receiving a command takes from it.
LEMMA Dequeued ==
    ASSUME ManagerOK, queue # <<>>, queue' = Tail(queue)
    PROVE /\ Head(queue) \in Commands /\ Head(queue) = queue[1] /\ 1 \in DOMAIN queue
          /\ \A i \in DOMAIN queue' : i + 1 \in DOMAIN queue /\ queue'[i] = queue[i + 1]
          /\ \A i \in DOMAIN queue : i = 1 \/ (i - 1 \in DOMAIN queue' /\ queue'[i - 1] = queue[i])
          /\ Queued = Queued' \cup (IF Head(queue).type = "call" THEN {Head(queue).request} ELSE {})
          /\ Cancelled = Cancelled' \cup
                             (IF Head(queue).type = "cancel" THEN {Head(queue).request} ELSE {})
<1>1. /\ Head(queue) = queue[1] /\ Head(queue) \in Commands
      /\ Len(queue) \in Nat /\ Len(queue) >= 1
      /\ DOMAIN queue = 1 .. Len(queue) /\ DOMAIN queue' = 1 .. Len(queue) - 1
      /\ \A i \in 1 .. Len(queue) - 1 : queue'[i] = queue[i + 1]
  BY Taken DEF ManagerOK
<1>2. 1 \in DOMAIN queue /\ \A i \in DOMAIN queue' : i + 1 \in DOMAIN queue /\ queue'[i] = queue[i + 1]
  BY <1>1
<1>3. \A i \in DOMAIN queue : i = 1 \/ (i - 1 \in DOMAIN queue' /\ queue'[i - 1] = queue[i])
  BY <1>1
<1>4. Queued = Queued' \cup (IF Head(queue).type = "call" THEN {Head(queue).request} ELSE {})
  <2> DEFINE first == IF Head(queue).type = "call" THEN {Head(queue).request} ELSE {}
  <2>1. ASSUME NEW r \in Queued PROVE r \in Queued' \cup first
    <3>1. PICK i \in DOMAIN queue : queue[i].type = "call" /\ queue[i].request = r
      BY <2>1 DEF Queued
    <3>2. CASE i = 1
      BY <1>1, <3>1, <3>2
    <3>3. CASE i - 1 \in DOMAIN queue' /\ queue'[i - 1] = queue[i]
      BY <3>1, <3>3 DEF Queued
    <3> QED
      BY <1>3, <3>1, <3>2, <3>3
  <2>2. ASSUME NEW r \in Queued' PROVE r \in Queued
    <3>1. PICK i \in DOMAIN queue' : queue'[i].type = "call" /\ queue'[i].request = r
      BY <2>2 DEF Queued
    <3> QED
      BY <1>2, <3>1 DEF Queued
  <2>3. first \subseteq Queued
    BY <1>1, <1>2 DEF Queued
  <2> QED
    BY <2>1, <2>2, <2>3
<1>5. Cancelled = Cancelled' \cup (IF Head(queue).type = "cancel" THEN {Head(queue).request} ELSE {})
  <2> DEFINE first == IF Head(queue).type = "cancel" THEN {Head(queue).request} ELSE {}
  <2>1. ASSUME NEW r \in Cancelled PROVE r \in Cancelled' \cup first
    <3>1. PICK i \in DOMAIN queue : queue[i].type = "cancel" /\ queue[i].request = r
      BY <2>1 DEF Cancelled
    <3>2. CASE i = 1
      BY <1>1, <3>1, <3>2
    <3>3. CASE i - 1 \in DOMAIN queue' /\ queue'[i - 1] = queue[i]
      BY <3>1, <3>3 DEF Cancelled
    <3> QED
      BY <1>3, <3>1, <3>2, <3>3
  <2>2. ASSUME NEW r \in Cancelled' PROVE r \in Cancelled
    <3>1. PICK i \in DOMAIN queue' : queue'[i].type = "cancel" /\ queue'[i].request = r
      BY <2>2 DEF Cancelled
    <3> QED
      BY <1>2, <3>1 DEF Cancelled
  <2>3. first \subseteq Cancelled
    BY <1>1, <1>2 DEF Cancelled
  <2> QED
    BY <2>1, <2>2, <2>3
<1> QED
  BY <1>1, <1>2, <1>3, <1>4, <1>5

-----------------------------------------------------------------------------
(***************************************************************************)
(* Type correctness.                                                       *)
(***************************************************************************)
\* A reply keeps the types of the callers.
LEMMA RepliedTyped == ASSUME TypeOK, NEW requests, Replied(requests) PROVE CallersOK'
BY DEF Replied, TypeOK, CallersOK

\* So does a call's return.
LEMMA ReturnTyped == ASSUME TypeOK, NEW c \in Calls, Return(c) PROVE CallersOK'
BY Sizes DEF Return, Proceed, Leave, Goto, Steps, TypeOK, CallersOK

\* So does a step of its own.
LEMMA GotoTyped ==
    ASSUME TypeOK, NEW c, NEW p \in Steps, Goto(c, p),
           UNCHANGED <<stage, limited, replied, initialized, aborts>>
    PROVE CallersOK'
BY DEF Goto, TypeOK, CallersOK

\* Every step keeps the types of the callers.
LEMMA CallersOKStep == TypeOK /\ [Next]_vars => CallersOK'
<1> SUFFICES ASSUME TypeOK, [Next]_vars PROVE CallersOK'
  OBVIOUS
<1>1. ASSUME NEW c \in Calls, call_detailed(c) PROVE CallersOK'
  BY <1>1, GotoTyped DEF call_detailed, Steps
<1>2. ASSUME NEW c \in Calls, get_or_init(c) PROVE CallersOK'
  BY <1>2, Sizes
  DEF get_or_init, Goto, Proceed, hostVars, managerVars, pluginVars, loopVars, TypeOK,
      CallersOK, Steps
<1>3. ASSUME NEW c \in Calls, send_request(c) PROVE CallersOK'
  BY <1>3, GotoTyped, ReturnTyped DEF send_request, Steps
<1>4. ASSUME NEW c \in Calls, reserve(c) PROVE CallersOK'
  BY <1>4, GotoTyped, ReturnTyped DEF reserve, Steps
<1>5. ASSUME NEW c \in Calls, permit_send(c) PROVE CallersOK'
  BY <1>5, GotoTyped, ReturnTyped DEF permit_send, Steps
<1>6. ASSUME NEW c \in Calls, TakeReply(c) PROVE CallersOK'
  BY <1>6, ReturnTyped DEF TakeReply
<1>7. ASSUME NEW c \in Calls, TimeOut(c) PROVE CallersOK'
  BY <1>7, GotoTyped DEF TimeOut, Steps
<1>8. ASSUME NEW c \in Calls, SendCancel(c) PROVE CallersOK'
  BY <1>8, ReturnTyped DEF SendCancel
<1>9. ASSUME NEW c \in Calls, Abort(c) PROVE CallersOK'
  BY <1>9, Sizes
  DEF Abort, Leave, Goto, hostVars, managerVars, pluginVars, loopVars, TypeOK, CallersOK,
      Steps
<1>10. CASE GraceElapsed
  <2>1. (\E requests : Replied(requests)) \/ UNCHANGED callerVars
    BY <1>10 DEF GraceElapsed, Break
  <2> QED
    BY <2>1, RepliedTyped DEF callerVars, TypeOK, CallersOK
<1>11. CASE LoopEnds
  <2>1. (\E requests : Replied(requests)) \/ UNCHANGED callerVars
    BY <1>11 DEF LoopEnds, Break
  <2> QED
    BY <2>1, RepliedTyped DEF callerVars, TypeOK, CallersOK
<1>12. CASE ReceiveNone
  <2>1. (\E requests : Replied(requests)) \/ UNCHANGED callerVars
    BY <1>12 DEF ReceiveNone, Break
  <2> QED
    BY <2>1, RepliedTyped DEF callerVars, TypeOK, CallersOK
<1>13. CASE WriteFails
  <2>1. (\E requests : Replied(requests)) \/ UNCHANGED callerVars
    BY <1>13 DEF WriteFails
  <2> QED
    BY <2>1, RepliedTyped DEF callerVars, TypeOK, CallersOK
<1>14. CASE ReadLine
  <2>1. (\E requests : Replied(requests)) \/ UNCHANGED callerVars
    BY <1>14 DEF ReadLine
  <2> QED
    BY <2>1, RepliedTyped DEF callerVars, TypeOK, CallersOK
<1>15. CASE ReadEnd
  <2>1. (\E requests : Replied(requests)) \/ UNCHANGED callerVars
    BY <1>15 DEF ReadEnd, Break
  <2> QED
    BY <2>1, RepliedTyped DEF callerVars, TypeOK, CallersOK
<1>16. CASE Kill
  <2>1. (\E requests : Replied(requests)) \/ UNCHANGED callerVars
    BY <1>16 DEF Kill, TaskEnds
  <2> QED
    BY <2>1, RepliedTyped DEF callerVars, TypeOK, CallersOK
<1>17. CASE AbortTask
  <2>1. (\E requests : Replied(requests)) \/ UNCHANGED callerVars
    BY <1>17 DEF AbortTask, TaskEnds
  <2> QED
    BY <2>1, RepliedTyped DEF callerVars, TypeOK, CallersOK
<1>18. CASE UNCHANGED <<pc, stage, limited, replied, initialized, aborts>>
  BY <1>18 DEF TypeOK, CallersOK
<1> QED
  BY ZenonT(60), <1>1, <1>2, <1>3, <1>4, <1>5, <1>6, <1>7, <1>8, <1>9, <1>10, <1>11, <1>12,
     <1>13, <1>14, <1>15, <1>16, <1>17, <1>18
  DEF Next, vars, Caller, Manager, Host, Plugin, callerVars, hostVars, managerVars,
      loopVars, pluginVars, Stopping, BeginShutdown, Receive, WriteLine, ReadPiece, stop,
      SignalShutdown, Joined, Drop, PluginReads, PluginExits, PluginAnswers

\* Every step keeps the types of the host.
LEMMA HostOKStep == TypeOK /\ [Next]_vars => HostOK'
<1> SUFFICES ASSUME TypeOK, [Next]_vars PROVE HostOK'
  OBVIOUS
<1>1. CASE stop
  BY <1>1
  DEF stop, Stopping, callerVars, managerVars, pluginVars, loopVars, TypeOK, HostOK
<1>2. CASE SignalShutdown
  BY <1>2
  DEF SignalShutdown, Stopping, callerVars, managerVars, pluginVars, loopVars, TypeOK,
      HostOK
<1>3. CASE Joined
  BY <1>3
  DEF Joined, Stopping, callerVars, managerVars, pluginVars, loopVars, TypeOK, HostOK
<1>4. CASE Drop
  BY <1>4
  DEF Drop, callerVars, managerVars, pluginVars, loopVars, TypeOK, HostOK
<1>5. CASE UNCHANGED <<stopping, dropped>>
  BY <1>5 DEF TypeOK, HostOK
<1> QED
  BY ZenonT(60), <1>1, <1>2, <1>3, <1>4, <1>5
  DEF Next, vars, Caller, Manager, Host, Plugin, callerVars, hostVars, managerVars,
      loopVars, pluginVars, Break, TaskEnds, call_detailed, get_or_init, send_request,
      reserve, permit_send, TakeReply, TimeOut, SendCancel, Abort, BeginShutdown,
      GraceElapsed, LoopEnds, Receive, ReceiveNone, WriteLine, WriteFails, ReadPiece,
      ReadLine, ReadEnd, Kill, AbortTask, PluginReads, PluginExits, PluginAnswers

\* Every step keeps the types of the manager.
LEMMA ManagerOKStep == TypeOK /\ [Next]_vars => ManagerOK'
<1> SUFFICES ASSUME TypeOK, [Next]_vars PROVE ManagerOK'
  OBVIOUS
<1>1. ASSUME NEW c \in Calls, permit_send(c) PROVE ManagerOK'
  <2>1. Command("call", Request(c)) \in Commands
    BY RequestTyped, CommandParts DEF TypeOK
  <2> QED
    BY <1>1, <2>1 DEF permit_send, managerVars, loopVars, TypeOK, ManagerOK
<1>2. ASSUME NEW c \in Calls, SendCancel(c) PROVE ManagerOK'
  <2>1. Command("cancel", Request(c)) \in Commands
    BY RequestTyped, CommandParts DEF TypeOK
  <2> QED
    BY <1>2, <2>1 DEF SendCancel, managerVars, loopVars, TypeOK, ManagerOK
<1>3. CASE BeginShutdown
  BY <1>3, Sizes
  DEF BeginShutdown, ReadDropped, callerVars, hostVars, pluginVars, TypeOK, ManagerOK
<1>4. CASE GraceElapsed
  BY <1>4, Sizes
  DEF GraceElapsed, Break, Replied, ReadDropped, hostVars, pluginVars, TypeOK, ManagerOK
<1>5. CASE LoopEnds
  BY <1>5, Sizes
  DEF LoopEnds, Break, Replied, ReadDropped, hostVars, pluginVars, TypeOK, ManagerOK
<1>6. CASE Receive
  <2>1. Head(queue) \in Commands /\ queue' \in Seq(Commands)
    BY <1>6, Taken DEF Receive, TypeOK, ManagerOK
  <2>2. Head(queue).request \in Requests
    BY <2>1 DEF Commands
  <2> QED
    BY <1>6, <2>1, <2>2
    DEF Receive, ReceiveCall, ReceiveCancel, Write, ReadDropped, Selecting, TypeOK, ManagerOK
<1>7. CASE ReceiveNone
  BY <1>7, Sizes
  DEF ReceiveNone, ReadDropped, Break, Replied, callerVars, hostVars, pluginVars, TypeOK,
      ManagerOK
<1>8. CASE WriteLine
  BY <1>8, Sizes
  DEF WriteLine, callerVars, hostVars, loopVars, TypeOK, ManagerOK
<1>9. CASE WriteFails
  BY <1>9, Sizes
  DEF WriteFails, Replied, callerVars, hostVars, loopVars, pluginVars, TypeOK, ManagerOK
<1>10. CASE ReadPiece
  <2>1. Head(stdout) \in Pieces
    BY <1>10, Taken DEF ReadPiece, TypeOK, PipesOK
  <2>2. Head(stdout).request \in Requests
    BY <2>1 DEF Pieces
  <2> QED
    BY <1>10, <2>2 DEF ReadPiece, TypeOK, ManagerOK
<1>11. CASE ReadLine
  BY <1>11, Sizes
  DEF ReadLine, Replied, callerVars, hostVars, TypeOK, ManagerOK
<1>12. CASE ReadEnd
  BY <1>12, Sizes
  DEF ReadEnd, ReadDropped, Break, Replied, callerVars, hostVars, pluginVars, TypeOK,
      ManagerOK
<1>13. CASE Kill
  BY <1>13, Sizes
  DEF Kill, TaskEnds, Replied, hostVars, TypeOK, ManagerOK
<1>14. CASE AbortTask
  BY <1>14, Sizes
  DEF AbortTask, ReadDropped, TaskEnds, Replied, hostVars, TypeOK, ManagerOK
<1>15. CASE UNCHANGED <<manager, writing, shutting_down, channel_drained, line_buf,
                        pending_requests, queue>>
  BY <1>15 DEF TypeOK, ManagerOK
<1> QED
  BY ZenonT(60), <1>1, <1>2, <1>3, <1>4, <1>5, <1>6, <1>7, <1>8, <1>9, <1>10, <1>11, <1>12,
     <1>13, <1>14, <1>15
  DEF Next, vars, Caller, Manager, Host, Plugin, callerVars, hostVars, managerVars,
      loopVars, pluginVars, Stopping, call_detailed, get_or_init, send_request, reserve,
      TakeReply, TimeOut, Abort, stop, SignalShutdown, Joined, Drop, PluginReads,
      PluginExits, PluginAnswers

\* Every step keeps the types of the plugin's pipes.
LEMMA PipesOKStep == TypeOK /\ [Next]_vars => PipesOK'
<1> SUFFICES ASSUME TypeOK, [Next]_vars PROVE PipesOK'
  OBVIOUS
<1>1. CASE WriteLine
  BY <1>1 DEF WriteLine, TypeOK, ManagerOK, PipesOK, Commands
<1>2. CASE ReadPiece
  BY <1>2 DEF ReadPiece, TypeOK, PipesOK
<1>3. CASE ReadLine
  BY <1>3 DEF ReadLine, TypeOK, PipesOK
<1>4. CASE Kill
  BY <1>4, Sizes
  DEF Kill, TaskEnds, Replied, hostVars, TypeOK, PipesOK
<1>5. CASE AbortTask
  BY <1>5, Sizes
  DEF AbortTask, ReadDropped, TaskEnds, Replied, hostVars, TypeOK, PipesOK
<1>6. CASE PluginReads
  <2>1. Head(stdin) \in Commands /\ stdin' \in Seq(Commands)
    BY <1>6, Taken DEF PluginReads, TypeOK, PipesOK
  <2>2. Head(stdin).request \in Requests
    BY <2>1 DEF Commands
  <2> QED
    BY <1>6, <2>1, <2>2 DEF PluginReads, TypeOK, PipesOK
<1>7. CASE PluginExits
  BY <1>7, Sizes
  DEF PluginExits, callerVars, hostVars, managerVars, loopVars, TypeOK, PipesOK
<1>8. ASSUME NEW r \in Requests, PluginAnswers(r) PROVE PipesOK'
  <2>1. \A part \in {"all", "first", "last"} : Piece(r, part) \in Pieces
    BY DEF Piece, Pieces
  <2>2. stdout' \in Seq(Pieces)
    <3>1. PICK part \in {"all", "first", "last"} : stdout' = Append(stdout, Piece(r, part))
      BY <1>8 DEF PluginAnswers
    <3> QED
      BY <2>1, <3>1, Appended DEF TypeOK, PipesOK
  <2>3. UNCHANGED <<child, stdin, told>> /\ working' \in {working, working \ {r}}
        /\ unfinished' \in {unfinished, r, NoRequest}
    BY <1>8 DEF PluginAnswers
  <2> QED
    BY <2>2, <2>3 DEF TypeOK, PipesOK
<1>9. CASE UNCHANGED <<child, stdin, stdout, working, unfinished, told>>
  BY <1>9 DEF TypeOK, PipesOK
<1> QED
  BY ZenonT(60), <1>1, <1>2, <1>3, <1>4, <1>5, <1>6, <1>7, <1>8, <1>9
  DEF Next, vars, Caller, Manager, Host, Plugin, callerVars, hostVars, managerVars,
      loopVars, pluginVars, Break, Stopping, call_detailed, get_or_init, send_request,
      reserve, permit_send, TakeReply, TimeOut, SendCancel, Abort, BeginShutdown,
      GraceElapsed, LoopEnds, Receive, ReceiveNone, WriteFails, ReadEnd, stop,
      SignalShutdown, Joined, Drop

\* Types at the start.
LEMMA TypeInit == Init => TypeOK
<1> SUFFICES ASSUME Init PROVE TypeOK
  OBVIOUS
<1>1. CallersOK
  <2>1. aborts \in 0 .. MaxAborts
    BY Sizes DEF Init
  <2> QED
    BY <2>1 DEF Init, CallersOK, Steps
<1>2. HostOK
  BY DEF Init, HostOK
<1>3. <<>> \in Seq(Commands) /\ <<>> \in Seq(Pieces)
  OBVIOUS
<1>4. ManagerOK
  BY <1>3 DEF Init, ManagerOK
<1>5. PipesOK
  BY <1>3 DEF Init, PipesOK
<1> QED
  BY <1>1, <1>2, <1>4, <1>5 DEF TypeOK

\* Types after a step.
LEMMA TypeStep == TypeOK /\ [Next]_vars => TypeOK'
BY CallersOKStep, HostOKStep, ManagerOKStep, PipesOKStep DEF TypeOK

\* The variables keep their types, among them that the manager writes a command
\* whenever it is in write_all.
THEOREM TypeCorrect == Spec => []TypeOK
BY TypeInit, TypeStep, PTL DEF Spec

-----------------------------------------------------------------------------
(***************************************************************************)
(* The way of `initialize`.                                                *)
(***************************************************************************)
\* get_or_init lets one caller initialize at a time.
LEMMA OneInitializerStep == TypeOK /\ OneInitializer /\ [Next]_vars => OneInitializer'
<1> SUFFICES ASSUME TypeOK /\ OneInitializer, [Next]_vars PROVE OneInitializer'
  OBVIOUS
<1>1. ASSUME NEW c \in Calls, call_detailed(c) PROVE OneInitializer'
  BY <1>1
  DEF call_detailed, Goto, hostVars, managerVars, pluginVars, loopVars, OneInitializer,
      Initializing, InFlight, TypeOK, CallersOK
<1>2. ASSUME NEW c \in Calls, get_or_init(c) PROVE OneInitializer'
  BY <1>2
  DEF get_or_init, Goto, Proceed, hostVars, managerVars, pluginVars, loopVars,
      OneInitializer, Initializing, InFlight, TypeOK, CallersOK
<1>3. ASSUME NEW c \in Calls, send_request(c) PROVE OneInitializer'
  BY <1>3
  DEF send_request, Goto, Return, Proceed, Leave, hostVars, managerVars, pluginVars,
      loopVars, OneInitializer, Initializing, InFlight, TypeOK, CallersOK
<1>4. ASSUME NEW c \in Calls, reserve(c) PROVE OneInitializer'
  BY <1>4
  DEF reserve, Goto, Return, Proceed, Leave, hostVars, managerVars, pluginVars, loopVars,
      OneInitializer, Initializing, InFlight, TypeOK, CallersOK
<1>5. ASSUME NEW c \in Calls, permit_send(c) PROVE OneInitializer'
  BY <1>5
  DEF permit_send, Goto, Return, Proceed, Leave, hostVars, managerVars, pluginVars,
      loopVars, OneInitializer, Initializing, InFlight, TypeOK, CallersOK
<1>6. ASSUME NEW c \in Calls, TakeReply(c) PROVE OneInitializer'
  BY <1>6
  DEF TakeReply, Return, Proceed, Goto, Leave, hostVars, managerVars, pluginVars, loopVars,
      OneInitializer, Initializing, InFlight, TypeOK, CallersOK
<1>7. ASSUME NEW c \in Calls, TimeOut(c) PROVE OneInitializer'
  BY <1>7
  DEF TimeOut, Goto, hostVars, managerVars, pluginVars, loopVars, OneInitializer,
      Initializing, InFlight, TypeOK, CallersOK
<1>8. ASSUME NEW c \in Calls, SendCancel(c) PROVE OneInitializer'
  BY <1>8
  DEF SendCancel, Return, Proceed, Goto, Leave, hostVars, managerVars, pluginVars,
      loopVars, OneInitializer, Initializing, InFlight, TypeOK, CallersOK
<1>9. ASSUME NEW c \in Calls, Abort(c) PROVE OneInitializer'
  BY <1>9
  DEF Abort, Leave, Goto, hostVars, managerVars, pluginVars, loopVars, OneInitializer,
      Initializing, InFlight, TypeOK, CallersOK
<1>10. CASE UNCHANGED <<pc, stage, initialized>>
  BY <1>10 DEF OneInitializer, Initializing, InFlight, TypeOK, CallersOK
<1> QED
  BY ZenonT(60), <1>1, <1>2, <1>3, <1>4, <1>5, <1>6, <1>7, <1>8, <1>9, <1>10
  DEF Next, vars, Caller, Manager, Host, Plugin, callerVars, hostVars, managerVars,
      loopVars, pluginVars, Break, Replied, TaskEnds, Stopping, BeginShutdown,
      GraceElapsed, LoopEnds, Receive, ReceiveNone, WriteLine, WriteFails, ReadPiece,
      ReadLine, ReadEnd, Kill, stop, SignalShutdown, Joined, AbortTask, Drop, PluginReads,
      PluginExits, PluginAnswers

\* Only the host closes the channel, and it lets go of the process when no call is under way.
LEMMA ClosedByHostStep == TypeOK /\ ClosedByHost /\ [Next]_vars => ClosedByHost'
<1> SUFFICES ASSUME TypeOK /\ ClosedByHost, [Next]_vars PROVE ClosedByHost'
  OBVIOUS
<1>1. ASSUME NEW c \in Calls, call_detailed(c) PROVE ClosedByHost'
  BY <1>1
  DEF call_detailed, Goto, hostVars, managerVars, pluginVars, loopVars, ClosedByHost,
      InFlight, HostOK, TypeOK, CallersOK
<1>2. ASSUME NEW c \in Calls, get_or_init(c) PROVE ClosedByHost'
  BY <1>2
  DEF get_or_init, Goto, Proceed, hostVars, managerVars, pluginVars, loopVars,
      ClosedByHost, InFlight, HostOK, TypeOK, CallersOK
<1>3. ASSUME NEW c \in Calls, send_request(c) PROVE ClosedByHost'
  BY <1>3
  DEF send_request, Goto, Return, Proceed, Leave, hostVars, managerVars, pluginVars,
      loopVars, ClosedByHost, InFlight, HostOK, TypeOK, CallersOK
<1>4. ASSUME NEW c \in Calls, reserve(c) PROVE ClosedByHost'
  BY <1>4
  DEF reserve, Goto, Return, Proceed, Leave, hostVars, managerVars, pluginVars, loopVars,
      ClosedByHost, InFlight, HostOK, TypeOK, CallersOK
<1>5. ASSUME NEW c \in Calls, permit_send(c) PROVE ClosedByHost'
  BY <1>5
  DEF permit_send, Goto, Return, Proceed, Leave, hostVars, managerVars, pluginVars,
      loopVars, ClosedByHost, InFlight, HostOK, TypeOK, CallersOK
<1>6. ASSUME NEW c \in Calls, TakeReply(c) PROVE ClosedByHost'
  BY <1>6
  DEF TakeReply, Return, Proceed, Goto, Leave, hostVars, managerVars, pluginVars, loopVars,
      ClosedByHost, InFlight, HostOK, TypeOK, CallersOK
<1>7. ASSUME NEW c \in Calls, TimeOut(c) PROVE ClosedByHost'
  BY <1>7
  DEF TimeOut, Goto, hostVars, managerVars, pluginVars, loopVars, ClosedByHost, InFlight,
      HostOK, TypeOK, CallersOK
<1>8. ASSUME NEW c \in Calls, SendCancel(c) PROVE ClosedByHost'
  BY <1>8
  DEF SendCancel, Return, Proceed, Goto, Leave, hostVars, managerVars, pluginVars,
      loopVars, ClosedByHost, InFlight, HostOK, TypeOK, CallersOK
<1>9. ASSUME NEW c \in Calls, Abort(c) PROVE ClosedByHost'
  BY <1>9
  DEF Abort, Leave, Goto, hostVars, managerVars, pluginVars, loopVars, ClosedByHost,
      InFlight, HostOK, TypeOK, CallersOK
<1>10. CASE BeginShutdown
  BY <1>10
  DEF BeginShutdown, ReadDropped, callerVars, hostVars, pluginVars, ClosedByHost, InFlight,
      HostOK, TypeOK, CallersOK
<1>11. CASE stop
  BY <1>11
  DEF stop, Stopping, callerVars, managerVars, pluginVars, loopVars, ClosedByHost,
      InFlight, HostOK, TypeOK, CallersOK
<1>12. CASE SignalShutdown
  BY <1>12
  DEF SignalShutdown, Stopping, callerVars, managerVars, pluginVars, loopVars,
      ClosedByHost, InFlight, HostOK, TypeOK, CallersOK
<1>13. CASE Joined
  BY <1>13
  DEF Joined, Stopping, callerVars, managerVars, pluginVars, loopVars, ClosedByHost,
      InFlight, HostOK, TypeOK, CallersOK
<1>14. CASE Drop
  BY <1>14
  DEF Drop, callerVars, managerVars, pluginVars, loopVars, ClosedByHost, InFlight, HostOK,
      TypeOK, CallersOK
<1>15. CASE UNCHANGED <<shutting_down, stopping, dropped, pc>>
  BY <1>15 DEF ClosedByHost, InFlight, HostOK, TypeOK, CallersOK
<1> QED
  BY ZenonT(60), <1>1, <1>2, <1>3, <1>4, <1>5, <1>6, <1>7, <1>8, <1>9, <1>10, <1>11, <1>12,
     <1>13, <1>14, <1>15
  DEF Next, vars, Caller, Manager, Host, Plugin, callerVars, hostVars, managerVars,
      loopVars, pluginVars, Break, Replied, TaskEnds, GraceElapsed, LoopEnds, Receive,
      ReceiveNone, WriteLine, WriteFails, ReadPiece, ReadLine, ReadEnd, Kill, AbortTask,
      PluginReads, PluginExits, PluginAnswers

\* Once an `initialize` is on its way, it or the end comes first.
LEMMA LaunchedStep == TypeOK /\ Launched /\ [Next]_vars => Launched'
<1> SUFFICES ASSUME TypeOK /\ Launched, [Next]_vars PROVE Launched'
  OBVIOUS
<1>1. ASSUME NEW c \in Calls, permit_send(c) PROVE Launched'
  <2>1. Request(c) \in Requests /\ ManagerOK
    BY RequestTyped DEF TypeOK
  <2>2. queue' = queue \/ queue' = Append(queue, Command("call", Request(c)))
    BY <1>1 DEF permit_send
  <2>3. Queued \subseteq Queued'
    BY <2>1, <2>2, Enqueued DEF Queued
  <2>4. UNCHANGED <<told, child, manager, writing>>
    BY <1>1 DEF permit_send, managerVars, pluginVars
  <2> QED
    BY <2>3, <2>4 DEF Launched, Dead, Writing
<1>2. ASSUME NEW c \in Calls, SendCancel(c) PROVE Launched'
  <2>1. Request(c) \in Requests /\ ManagerOK
    BY RequestTyped DEF TypeOK
  <2>2. queue' = queue \/ queue' = Append(queue, Command("cancel", Request(c)))
    BY <1>2 DEF SendCancel
  <2>3. Queued \subseteq Queued'
    BY <2>1, <2>2, Enqueued DEF Queued
  <2>4. UNCHANGED <<told, child, manager, writing>>
    BY <1>2 DEF SendCancel, managerVars, pluginVars
  <2> QED
    BY <2>3, <2>4 DEF Launched, Dead, Writing
<1>3. CASE GraceElapsed
  BY <1>3
  DEF GraceElapsed, Break, Replied, ReadDropped, hostVars, pluginVars, Launched, Dead,
      Writing
<1>4. CASE LoopEnds
  BY <1>4
  DEF LoopEnds, Break, Replied, ReadDropped, hostVars, pluginVars, Launched, Dead, Writing
<1>5. CASE Receive
  <2>1. /\ Queued = Queued' \cup (IF Head(queue).type = "call" THEN {Head(queue).request} ELSE {})
        /\ Head(queue) \in Commands
    BY <1>5, Dequeued DEF Receive, TypeOK
  <2>2. manager = "select" /\ UNCHANGED <<child, told>>
    BY <1>5 DEF Receive, Selecting, pluginVars
  <2>3. CASE ReceiveCall
    <3>1. manager' = "writing" /\ writing' = Head(queue)
      BY <2>3 DEF ReceiveCall, Write
    <3> QED
      BY <2>1, <2>2, <3>1 DEF Launched, Dead, Writing
  <2>4. CASE ReceiveCancel
    <3>1. Queued' = Queued
      BY <2>1, <2>4 DEF ReceiveCancel
    <3>2. manager' \in {"select", "writing"}
      BY <2>2, <2>4 DEF ReceiveCancel, Write
    <3> QED
      BY <2>2, <3>1, <3>2 DEF Launched, Dead, Writing
  <2> QED
    BY <1>5, <2>3, <2>4 DEF Receive
<1>6. CASE ReceiveNone
  BY <1>6 DEF ReceiveNone, Break, pluginVars, Launched, Dead, Writing, Queued
<1>7. CASE WriteLine
  BY <1>7 DEF WriteLine, Launched, Dead, Writing, Queued
<1>8. CASE WriteFails
  BY <1>8
  DEF WriteFails, Replied, callerVars, hostVars, loopVars, pluginVars, Launched, Dead,
      Writing
<1>9. CASE ReadEnd
  BY <1>9 DEF ReadEnd, Break, pluginVars, Launched, Dead, Writing, Queued
<1>10. CASE Kill
  BY <1>10
  DEF Kill, TaskEnds, Replied, hostVars, Launched, Dead, Writing
<1>11. CASE AbortTask
  BY <1>11
  DEF AbortTask, ReadDropped, TaskEnds, Replied, hostVars, Launched, Dead, Writing
<1>12. CASE PluginExits
  BY <1>12
  DEF PluginExits, callerVars, hostVars, managerVars, loopVars, Launched, Dead, Writing
<1>13. CASE UNCHANGED <<told, child, manager, writing, queue>>
  BY <1>13 DEF Launched, Dead, Writing, Queued
<1> QED
  BY ZenonT(60), <1>1, <1>2, <1>3, <1>4, <1>5, <1>6, <1>7, <1>8, <1>9, <1>10, <1>11, <1>12,
     <1>13
  DEF Next, vars, Caller, Manager, Host, Plugin, callerVars, hostVars, managerVars,
      loopVars, pluginVars, Stopping, call_detailed, get_or_init, send_request, reserve,
      TakeReply, TimeOut, Abort, BeginShutdown, ReadPiece, ReadLine, stop, SignalShutdown,
      Joined, Drop, PluginReads, PluginAnswers

\* Who sends, sends after an `initialize`.
LEMMA SentInOrderStep ==
    TypeOK /\ OneInitializer /\ ClosedByHost /\ SentInOrder /\ [Next]_vars => SentInOrder'
<1> SUFFICES ASSUME TypeOK /\ OneInitializer /\ ClosedByHost /\ SentInOrder, [Next]_vars
             PROVE SentInOrder'
  OBVIOUS
<1>1. ASSUME NEW c \in Calls, call_detailed(c) PROVE SentInOrder'
  BY <1>1, LaunchedStep
  DEF call_detailed, Goto, hostVars, managerVars, pluginVars, loopVars, SentInOrder,
      accepting_calls, TypeOK, CallersOK
<1>2. ASSUME NEW c \in Calls, get_or_init(c) PROVE SentInOrder'
  BY <1>2, LaunchedStep
  DEF get_or_init, Goto, Proceed, hostVars, managerVars, pluginVars, loopVars, SentInOrder,
      accepting_calls, TypeOK, CallersOK
<1>3. ASSUME NEW c \in Calls, send_request(c) PROVE SentInOrder'
  BY <1>3, LaunchedStep
  DEF send_request, Goto, Return, Proceed, Leave, hostVars, managerVars, pluginVars,
      loopVars, SentInOrder, accepting_calls, TypeOK, CallersOK
<1>4. ASSUME NEW c \in Calls, reserve(c) PROVE SentInOrder'
  <2>1. CASE pc' = [pc EXCEPT ![c] = "reserved"] /\ initialized' = initialized
    BY <1>4, <2>1, LaunchedStep
    DEF reserve, hostVars, SentInOrder, accepting_calls, TypeOK, CallersOK
  <2>2. CASE Closed /\ Return(c)
    <3>1. Launched \/ ~accepting_calls \/ dropped
      BY <2>2 DEF Closed, Launched, Dead, ClosedByHost, accepting_calls
    <3> QED
      BY <1>4, <2>2, <3>1, LaunchedStep
      DEF reserve, Return, Proceed, Leave, Goto, hostVars, SentInOrder, accepting_calls,
          TypeOK, CallersOK
  <2> QED
    BY <1>4, <2>1, <2>2 DEF reserve, Goto
<1>5. ASSUME NEW c \in Calls, permit_send(c) PROVE SentInOrder'
  <2>1. CASE accepting_calls
    <3>1. /\ pc' = [pc EXCEPT ![c] = "waiting"] /\ queue' = Append(queue, Command("call", Request(c)))
          /\ UNCHANGED <<initialized, stopping, dropped>> /\ pc[c] = "reserved"
      BY <1>5, <2>1 DEF permit_send, Goto, hostVars
    <3>2. Launched'
      <4>1. CASE stage[c] = "initialize"
        <5>1. Request(c) \in Queued' /\ Request(c)[2] = "initialize"
          BY <3>1, <4>1, Enqueued, RequestTyped DEF TypeOK
        <5> QED
          BY <5>1 DEF Launched
      <4>2. CASE stage[c] = "call"
        <5>1. Launched
          BY <2>1, <3>1, <4>2 DEF OneInitializer, ClosedByHost, SentInOrder, InFlight
        <5> QED
          BY <5>1, LaunchedStep
      <4> QED
        BY <4>1, <4>2 DEF TypeOK, CallersOK
    <3> QED
      BY <3>1, <3>2, LaunchedStep DEF SentInOrder, accepting_calls, TypeOK, CallersOK
  <2>2. CASE ~accepting_calls
    BY <1>5, <2>2, LaunchedStep
    DEF permit_send, Return, Proceed, Leave, Goto, hostVars, SentInOrder, accepting_calls,
        TypeOK,
        CallersOK
  <2> QED
    BY <2>1, <2>2
<1>6. ASSUME NEW c \in Calls, TakeReply(c) PROVE SentInOrder'
  BY <1>6, LaunchedStep
  DEF TakeReply, Return, Proceed, Goto, Leave, hostVars, managerVars, pluginVars, loopVars,
      SentInOrder, accepting_calls, TypeOK, CallersOK
<1>7. ASSUME NEW c \in Calls, TimeOut(c) PROVE SentInOrder'
  BY <1>7, LaunchedStep
  DEF TimeOut, Goto, hostVars, managerVars, pluginVars, loopVars, SentInOrder,
      accepting_calls, TypeOK, CallersOK
<1>8. ASSUME NEW c \in Calls, SendCancel(c) PROVE SentInOrder'
  BY <1>8, LaunchedStep
  DEF SendCancel, Return, Proceed, Goto, Leave, hostVars, managerVars, pluginVars,
      loopVars, SentInOrder, accepting_calls, TypeOK, CallersOK
<1>9. ASSUME NEW c \in Calls, Abort(c) PROVE SentInOrder'
  BY <1>9, LaunchedStep
  DEF Abort, Leave, Goto, hostVars, managerVars, pluginVars, loopVars, SentInOrder,
      accepting_calls, TypeOK, CallersOK
<1>10. CASE GraceElapsed
  BY <1>10, LaunchedStep
  DEF GraceElapsed, Break, Replied, ReadDropped, hostVars, pluginVars, SentInOrder,
      accepting_calls
<1>11. CASE LoopEnds
  BY <1>11, LaunchedStep
  DEF LoopEnds, Break, Replied, ReadDropped, hostVars, pluginVars, SentInOrder,
      accepting_calls
<1>12. CASE Receive
  <2>1. UNCHANGED <<pc, initialized, stopping, dropped>>
    BY <1>12 DEF Receive, callerVars, hostVars
  <2> QED
    BY <2>1, LaunchedStep DEF SentInOrder, accepting_calls
<1>13. CASE ReceiveNone
  BY <1>13, LaunchedStep
  DEF ReceiveNone, ReadDropped, Break, Replied, callerVars, hostVars, pluginVars,
      SentInOrder, accepting_calls
<1>14. CASE WriteLine
  BY <1>14, LaunchedStep
  DEF WriteLine, callerVars, hostVars, loopVars, SentInOrder, accepting_calls
<1>15. CASE WriteFails
  BY <1>15, LaunchedStep
  DEF WriteFails, Replied, callerVars, hostVars, loopVars, pluginVars, SentInOrder,
      accepting_calls
<1>16. CASE ReadEnd
  BY <1>16, LaunchedStep
  DEF ReadEnd, ReadDropped, Break, Replied, callerVars, hostVars, pluginVars, SentInOrder,
      accepting_calls
<1>17. CASE Kill
  BY <1>17, LaunchedStep
  DEF Kill, TaskEnds, Replied, hostVars, SentInOrder, accepting_calls
<1>18. CASE stop
  BY <1>18, LaunchedStep
  DEF stop, Stopping, callerVars, managerVars, pluginVars, loopVars, SentInOrder,
      accepting_calls
<1>19. CASE SignalShutdown
  BY <1>19, LaunchedStep
  DEF SignalShutdown, Stopping, callerVars, managerVars, pluginVars, loopVars, SentInOrder,
      accepting_calls
<1>20. CASE Joined
  BY <1>20, LaunchedStep
  DEF Joined, Stopping, callerVars, managerVars, pluginVars, loopVars, SentInOrder,
      accepting_calls
<1>21. CASE AbortTask
  BY <1>21, LaunchedStep
  DEF AbortTask, ReadDropped, TaskEnds, Replied, hostVars, SentInOrder, accepting_calls
<1>22. CASE Drop
  BY <1>22, LaunchedStep
  DEF Drop, callerVars, managerVars, pluginVars, loopVars, SentInOrder, accepting_calls
<1>23. CASE PluginExits
  BY <1>23, LaunchedStep
  DEF PluginExits, callerVars, hostVars, managerVars, loopVars, SentInOrder,
      accepting_calls
<1>24. CASE UNCHANGED <<told, child, manager, writing, queue, pc, initialized, stopping,
                        dropped>>
  BY <1>24, LaunchedStep DEF SentInOrder, accepting_calls
<1> QED
  BY ZenonT(60), <1>1, <1>2, <1>3, <1>4, <1>5, <1>6, <1>7, <1>8, <1>9, <1>10, <1>11, <1>12,
     <1>13, <1>14, <1>15, <1>16, <1>17, <1>18, <1>19, <1>20, <1>21, <1>22, <1>23, <1>24
  DEF Next, vars, Caller, Manager, Host, Plugin, callerVars, hostVars, managerVars,
      loopVars, pluginVars, Replied, BeginShutdown, ReadPiece, ReadLine, PluginReads,
      PluginAnswers

\* A command that is sent in order overtakes nothing.
LEMMA AppendInOrder ==
    ASSUME TypeOK, NoneOvertakes, NEW t \in {"call", "cancel"}, NEW r \in Requests,
           queue' = Append(queue, Command(t, r)), UNCHANGED <<told, child, manager, writing>>,
           r[2] = "call" => Launched
    PROVE NoneOvertakes'
<1>1. /\ DOMAIN queue = 1 .. Len(queue) /\ Len(queue) \in Nat
      /\ DOMAIN queue' = 1 .. Len(queue) + 1
      /\ \A i \in 1 .. Len(queue) : queue'[i] = queue[i]
      /\ queue'[Len(queue) + 1] = Command(t, r)
  BY CommandParts, Appended DEF TypeOK, ManagerOK
<1>2. (Writing("call") => told \/ child # "running")'
  BY DEF NoneOvertakes, Writing
<1>3. ASSUME NEW i \in DOMAIN queue', queue'[i].request[2] = "call",
             ~told, ~Dead, ~Writing("initialize")
      PROVE \E j \in DOMAIN queue' : /\ j < i /\ queue'[j].type = "call"
                                     /\ queue'[j].request[2] = "initialize"
  <2>1. CASE i \in DOMAIN queue
    <3>1. PICK j \in DOMAIN queue : j < i /\ queue[j].type = "call" /\ queue[j].request[2] = "initialize"
      BY <1>1, <1>3, <2>1 DEF NoneOvertakes
    <3> QED
      BY <1>1, <3>1
  <2>2. CASE i = Len(queue) + 1
    <3>1. r[2] = "call"
      BY <1>1, <1>3, <2>2, CommandParts
    <3>2. PICK q \in Queued : q[2] = "initialize"
      BY <1>3, <3>1 DEF Launched
    <3>3. PICK j \in DOMAIN queue : queue[j].type = "call" /\ queue[j].request = q
      BY <3>2 DEF Queued
    <3> QED
      BY <1>1, <2>2, <3>2, <3>3
  <2> QED
    BY <1>1, <2>1, <2>2
<1> QED
  BY <1>2, <1>3 DEF NoneOvertakes, Dead, Writing

\* The channel and the pipe are in order.
LEMMA NoneOvertakesStep ==
    TypeOK /\ OneInitializer /\ ClosedByHost /\ SentInOrder /\ NoneOvertakes /\ [Next]_vars => NoneOvertakes'
<1> SUFFICES ASSUME TypeOK /\ OneInitializer /\ ClosedByHost /\ SentInOrder /\ NoneOvertakes, [Next]_vars
             PROVE NoneOvertakes'
  OBVIOUS
<1>1. ASSUME NEW c \in Calls, permit_send(c) PROVE NoneOvertakes'
  <2>1. CASE accepting_calls
    <3>1. /\ queue' = Append(queue, Command("call", Request(c))) /\ pc[c] = "reserved"
          /\ UNCHANGED <<told, child, manager, writing>>
      BY <1>1, <2>1 DEF permit_send, managerVars, pluginVars
    <3>2. Request(c) \in Requests /\ Request(c)[2] = stage[c]
      BY RequestTyped DEF TypeOK
    <3>3. stage[c] = "call" => Launched
      BY <2>1, <3>1 DEF OneInitializer, ClosedByHost, SentInOrder, InFlight
    <3> QED
      BY <3>1, <3>2, <3>3, AppendInOrder
  <2>2. CASE ~accepting_calls
    BY <1>1, <2>2 DEF permit_send, managerVars, pluginVars, NoneOvertakes, Dead, Writing
  <2> QED
    BY <2>1, <2>2
<1>2. ASSUME NEW c \in Calls, SendCancel(c) PROVE NoneOvertakes'
  <2>1. pc[c] = "cancelling" /\ UNCHANGED <<told, child, manager, writing>>
    BY <1>2 DEF SendCancel, managerVars, pluginVars
  <2>2. Request(c) \in Requests /\ Launched
    BY <2>1, RequestTyped DEF TypeOK, SentInOrder
  <2>3. CASE queue' = Append(queue, Command("cancel", Request(c)))
    BY <2>1, <2>2, <2>3, AppendInOrder
  <2>4. CASE queue' = queue
    BY <2>1, <2>4 DEF NoneOvertakes, Dead, Writing
  <2> QED
    BY <1>2, <2>3, <2>4 DEF SendCancel
<1>3. CASE GraceElapsed
  BY <1>3
  DEF GraceElapsed, Break, Replied, ReadDropped, hostVars, pluginVars, NoneOvertakes, Dead,
      Writing
<1>4. CASE LoopEnds
  BY <1>4
  DEF LoopEnds, Break, Replied, ReadDropped, hostVars, pluginVars, NoneOvertakes, Dead,
      Writing
<1>5. CASE Receive
  <2> DEFINE x == Head(queue)
  <2>1. /\ x \in Commands /\ x = queue[1] /\ 1 \in DOMAIN queue
        /\ \A i \in DOMAIN queue' : i + 1 \in DOMAIN queue /\ queue'[i] = queue[i + 1]
        /\ \A i \in DOMAIN queue : i = 1 \/ (i - 1 \in DOMAIN queue' /\ queue'[i - 1] = queue[i])
        /\ DOMAIN queue \subseteq Nat \ {0} /\ DOMAIN queue' \subseteq Nat \ {0}
    <3>1. queue # <<>> /\ queue' = Tail(queue)
      BY <1>5 DEF Receive
    <3>2. DOMAIN queue \subseteq Nat \ {0} /\ DOMAIN queue' \subseteq Nat \ {0}
      BY <3>1, Taken DEF TypeOK, ManagerOK
    <3> QED
      BY <3>1, <3>2, Dequeued DEF TypeOK
  <2>2. manager = "select" /\ UNCHANGED <<child, told>>
    BY <1>5 DEF Receive, Selecting, pluginVars
  <2>3. /\ manager' \in {"select", "writing"}
        /\ manager' = "writing" => writing' = x
        /\ x.type = "call" => manager' = "writing"
    BY <1>5, <2>2 DEF Receive, ReceiveCall, ReceiveCancel, Write
  <2> HIDE DEF x
  <2>4. (Writing("call") => told \/ child # "running")'
    <3>1. x.request[2] = "call" => told \/ child # "running"
      BY <2>1, <2>2 DEF NoneOvertakes, Dead, Writing
    <3> QED
      BY <2>2, <2>3, <3>1 DEF Writing
  <2>5. ASSUME NEW i \in DOMAIN queue', queue'[i].request[2] = "call",
               ~told, child = "running", ~Writing("initialize")'
        PROVE \E j \in DOMAIN queue' : /\ j < i /\ queue'[j].type = "call"
                                       /\ queue'[j].request[2] = "initialize"
    <3>1. i + 1 \in DOMAIN queue /\ queue[i + 1].request[2] = "call"
      BY <2>1, <2>5
    <3>2. ~Dead /\ ~Writing("initialize")
      BY <2>2, <2>5 DEF Dead, Writing
    <3>3. PICK j \in DOMAIN queue : /\ j < i + 1 /\ queue[j].type = "call"
                                    /\ queue[j].request[2] = "initialize"
      BY <2>5, <3>1, <3>2 DEF NoneOvertakes
    <3>4. j # 1
      BY <2>1, <2>3, <2>5, <3>3 DEF Writing
    <3>5. j - 1 \in DOMAIN queue' /\ queue'[j - 1] = queue[j] /\ j - 1 < i
      BY <2>1, <3>3, <3>4
    <3> QED
      BY <3>3, <3>5
  <2> QED
    BY <2>2, <2>3, <2>4, <2>5 DEF NoneOvertakes, Dead
<1>6. CASE ReceiveNone
  BY <1>6 DEF ReceiveNone, Break, managerVars, pluginVars, NoneOvertakes, Dead, Writing
<1>7. CASE WriteLine
  <2>1. writing.request[2] \in {"initialize", "call"}
    BY <1>7, RequestParts DEF WriteLine, Commands, TypeOK, ManagerOK
  <2>2. told'
    BY <1>7, <2>1 DEF WriteLine, NoneOvertakes, Writing
  <2> QED
    BY <1>7, <2>2 DEF WriteLine, NoneOvertakes, Writing
<1>8. CASE WriteFails
  BY <1>8
  DEF WriteFails, Replied, callerVars, hostVars, loopVars, pluginVars, NoneOvertakes, Dead,
      Writing
<1>9. CASE ReadEnd
  BY <1>9 DEF ReadEnd, Break, managerVars, pluginVars, NoneOvertakes, Dead, Writing
<1>10. CASE Kill
  BY <1>10
  DEF Kill, TaskEnds, Replied, hostVars, NoneOvertakes, Dead, Writing
<1>11. CASE AbortTask
  BY <1>11
  DEF AbortTask, ReadDropped, TaskEnds, Replied, hostVars, NoneOvertakes, Dead, Writing
<1>12. CASE PluginExits
  BY <1>12
  DEF PluginExits, callerVars, hostVars, managerVars, loopVars, NoneOvertakes, Dead,
      Writing
<1>13. CASE UNCHANGED <<told, child, manager, writing, queue>>
  BY <1>13 DEF NoneOvertakes, Dead, Writing
<1> QED
  BY ZenonT(60), <1>1, <1>2, <1>3, <1>4, <1>5, <1>6, <1>7, <1>8, <1>9, <1>10, <1>11, <1>12,
     <1>13
  DEF Next, vars, Caller, Manager, Host, Plugin, callerVars, hostVars, managerVars,
      loopVars, pluginVars, Stopping, call_detailed, get_or_init, send_request, reserve,
      TakeReply, TimeOut, Abort, BeginShutdown, ReadPiece, ReadLine, stop, SignalShutdown,
      Joined, Drop, PluginReads, PluginAnswers

\* The plugin reads what was written in order.
LEMMA InitializeFirstStep ==
    TypeOK /\ NoneOvertakes /\ InitializeFirst /\ [Next]_vars => InitializeFirst'
<1> SUFFICES ASSUME TypeOK /\ NoneOvertakes /\ InitializeFirst, [Next]_vars
             PROVE InitializeFirst'
  OBVIOUS
<1>1. CASE WriteLine
  <2>1. writing.request[2] \in {"initialize", "call"}
    BY <1>1, RequestParts DEF WriteLine, Commands, TypeOK, ManagerOK
  <2>2. told'
    BY <1>1, <2>1 DEF WriteLine, NoneOvertakes, Writing
  <2> QED
    BY <2>2 DEF InitializeFirst
<1>2. CASE Kill
  BY <1>2 DEF Kill, TaskEnds, InitializeFirst
<1>3. CASE AbortTask
  BY <1>3 DEF AbortTask, TaskEnds, InitializeFirst
<1>4. CASE PluginReads
  <2>1. stdin \in Seq(Commands) /\ stdin # <<>> /\ stdin' = Tail(stdin) /\ told' = told
    BY <1>4 DEF PluginReads, TypeOK, PipesOK
  <2>2. /\ 1 \in DOMAIN stdin /\ Head(stdin) = stdin[1]
        /\ \A i \in DOMAIN stdin' : i + 1 \in DOMAIN stdin /\ stdin'[i] = stdin[i + 1]
    BY <2>1, Taken
  <2>3. working' \subseteq working \cup {stdin[1].request}
    BY <1>4, <2>2 DEF PluginReads
  <2> QED
    BY <2>1, <2>2, <2>3 DEF InitializeFirst
<1>5. CASE PluginExits
  BY <1>5 DEF PluginExits, InitializeFirst
<1>6. ASSUME NEW r \in Requests, PluginAnswers(r) PROVE InitializeFirst'
  BY <1>6 DEF PluginAnswers, InitializeFirst
<1>7. CASE UNCHANGED <<working, stdin, told>>
  BY <1>7 DEF InitializeFirst
<1> QED
  BY ZenonT(60), <1>1, <1>2, <1>3, <1>4, <1>5, <1>6, <1>7
  DEF Next, vars, Caller, Manager, Host, Plugin, callerVars, hostVars, managerVars,
      loopVars, pluginVars, Break, Stopping, call_detailed, get_or_init, send_request,
      reserve, permit_send, TakeReply, TimeOut, SendCancel, Abort, BeginShutdown,
      GraceElapsed, LoopEnds, Receive, ReceiveNone, WriteFails, ReadPiece, ReadLine,
      ReadEnd, stop, SignalShutdown, Joined, Drop

\* The invariant of `initialize` holds initially.
LEMMA InitInvInit == Init => InitInv
BY DEF Init, InitInv, OneInitializer, Initializing, ClosedByHost, SentInOrder, NoneOvertakes,
       InitializeFirst, InFlight, accepting_calls, Writing

\* Every step keeps it.
LEMMA InitInvStep == TypeOK /\ InitInv /\ [Next]_vars => InitInv'
BY OneInitializerStep, ClosedByHostStep, SentInOrderStep, NoneOvertakesStep, InitializeFirstStep
   DEF InitInv

\* The plugin sees no request before an `initialize` (InitializeFirst), for any number
\* of callers and any room in the channel and the pipes.
THEOREM NothingBeforeInitialize == Spec => []InitializeFirst
<1>1. InitInv => InitializeFirst
  BY DEF InitInv
<1> QED
  BY <1>1, TypeCorrect, InitInvInit, InitInvStep, PTL DEF Spec

-----------------------------------------------------------------------------
(***************************************************************************)
(* The calls and the manager: what a step does to the entries.             *)
(***************************************************************************)
\* No call goes back.
Onward ==
    \A r \in Requests : /\ Over(r) => Over(r)'
                        /\ pc[r[1]] = "gone" => (pc[r[1]] = "gone")'

Same(c) == pc'[c] = pc[c] /\ stage'[c] = stage[c] /\ replied'[c] = replied[c]

\* permit.send.
Sends(c) ==
    /\ pc[c] = "reserved" /\ pc' = [pc EXCEPT ![c] = "waiting"]
    /\ queue' = Append(queue, Command("call", Request(c)))
    /\ UNCHANGED <<stage, replied, pending_requests>>

\* A cancel for a call that goes on.
Cancels(c) ==
    /\ pc[c] = "cancelling" /\ (pc[c] # "waiting" /\ ~replied[c])'
    /\ stage[c] = "initialize" => stage'[c] = "call"
    /\ stage[c] = "call" => pc'[c] = "returned"
    /\ \A d \in Calls : d # c => Same(d)
    /\ queue' = Append(queue, Command("cancel", Request(c)))
    /\ UNCHANGED pending_requests

\* The manager receives a command.
Takes ==
    /\ queue # <<>> /\ queue' = Tail(queue)
    /\ \/ /\ Head(queue).type = "call"
          /\ pending_requests' = pending_requests \cup {Head(queue).request}
       \/ /\ Head(queue).type = "cancel"
          /\ pending_requests' = pending_requests \ {Head(queue).request}
    /\ UNCHANGED <<pc, stage, replied>>

\* It hands out answers, or errors, and forgets their entries.
Answers(requests) ==
    /\ requests \subseteq pending_requests /\ Replied(requests)
    /\ pending_requests' = pending_requests \ requests /\ queue' = queue

\* Its task ends.
Ends ==
    /\ Replied(Queued \cup pending_requests)
    /\ pending_requests' = {} /\ queue' = <<>> /\ manager' = "done"

\* A step that concerns no entry.
Quiet ==
    /\ UNCHANGED <<pending_requests, queue>>
    /\ \A c \in Calls :
           \/ Same(c)
           \/ /\ pc[c] # "waiting" /\ (pc[c] # "waiting" /\ ~replied[c])'
              /\ pc[c] = "cancelling" => Closed \/ pc'[c] = "gone"
           \/ pc[c] = "waiting" /\ stage'[c] = stage[c] /\ pc'[c] = "cancelling" /\ ~replied'[c]
           \/ /\ pc[c] = "waiting" /\ (pc[c] # "waiting" /\ ~replied[c])'
              /\ replied[c] \/ pc'[c] = "gone"
    /\ \A r \in Requests : Waiting(r) => Waiting(r)' \/ Over(r)'

Shape ==
    \/ \E c \in Calls : Sends(c) \/ Cancels(c)
    \/ Takes \/ Ends \/ Quiet
    \/ \E requests \in SUBSET Requests : Answers(requests)

\* No step takes a call back.
LEMMA OnwardStep == TypeOK /\ [Next]_vars => Onward
<1> SUFFICES ASSUME TypeOK, [Next]_vars PROVE Onward
  OBVIOUS
<1>1. ASSUME NEW c \in Calls, call_detailed(c) PROVE Onward
  BY <1>1, RequestParts
  DEF call_detailed, Goto, hostVars, managerVars, pluginVars, loopVars, Onward, Over,
      TypeOK, CallersOK
<1>2. ASSUME NEW c \in Calls, get_or_init(c) PROVE Onward
  BY <1>2, RequestParts
  DEF get_or_init, Goto, Proceed, hostVars, managerVars, pluginVars, loopVars, Onward,
      Over, TypeOK, CallersOK
<1>3. ASSUME NEW c \in Calls, send_request(c) PROVE Onward
  BY <1>3, RequestParts
  DEF send_request, Goto, Return, Proceed, Leave, hostVars, managerVars, pluginVars,
      loopVars, Onward, Over, TypeOK, CallersOK
<1>4. ASSUME NEW c \in Calls, reserve(c) PROVE Onward
  BY <1>4, RequestParts
  DEF reserve, Goto, Return, Proceed, Leave, hostVars, managerVars, pluginVars, loopVars,
      Onward, Over, TypeOK, CallersOK
<1>5. ASSUME NEW c \in Calls, permit_send(c) PROVE Onward
  BY <1>5, RequestParts
  DEF permit_send, Goto, Return, Proceed, Leave, hostVars, managerVars, pluginVars,
      loopVars, Onward, Over, TypeOK, CallersOK
<1>6. ASSUME NEW c \in Calls, TakeReply(c) PROVE Onward
  BY <1>6, RequestParts
  DEF TakeReply, Return, Proceed, Goto, Leave, hostVars, managerVars, pluginVars, loopVars,
      Onward, Over, TypeOK, CallersOK
<1>7. ASSUME NEW c \in Calls, TimeOut(c) PROVE Onward
  BY <1>7, RequestParts
  DEF TimeOut, Goto, hostVars, managerVars, pluginVars, loopVars, Onward, Over, TypeOK,
      CallersOK
<1>8. ASSUME NEW c \in Calls, SendCancel(c) PROVE Onward
  BY <1>8, RequestParts
  DEF SendCancel, Return, Proceed, Goto, Leave, hostVars, managerVars, pluginVars,
      loopVars, Onward, Over, TypeOK, CallersOK
<1>9. ASSUME NEW c \in Calls, Abort(c) PROVE Onward
  BY <1>9, RequestParts
  DEF Abort, Leave, Goto, hostVars, managerVars, pluginVars, loopVars, Onward, Over,
      TypeOK, CallersOK
<1>10. CASE UNCHANGED <<pc, stage>>
  BY <1>10 DEF Onward, Over, TypeOK, CallersOK
<1> QED
  BY ZenonT(60), <1>1, <1>2, <1>3, <1>4, <1>5, <1>6, <1>7, <1>8, <1>9, <1>10
  DEF Next, vars, Caller, Manager, Host, Plugin, callerVars, hostVars, managerVars,
      loopVars, pluginVars, Break, Replied, TaskEnds, Stopping, BeginShutdown,
      GraceElapsed, LoopEnds, Receive, ReceiveNone, WriteLine, WriteFails, ReadPiece,
      ReadLine, ReadEnd, Kill, stop, SignalShutdown, Joined, AbortTask, Drop, PluginReads,
      PluginExits, PluginAnswers

\* A step has one of these shapes.
LEMMA StepShape == TypeOK /\ RepliedOnce /\ LoopOK /\ [Next]_vars => Shape
<1> SUFFICES ASSUME TypeOK /\ RepliedOnce /\ LoopOK, [Next]_vars PROVE Shape
  OBVIOUS
<1>1. ASSUME NEW c \in Calls, call_detailed(c) PROVE Shape
  <2>1. Quiet
    BY <1>1, RequestParts
    DEF call_detailed, Goto, hostVars, managerVars, pluginVars, loopVars, Quiet, Same,
        Waiting, Over, RepliedOnce, TypeOK, CallersOK
  <2> QED
    BY <2>1 DEF Shape
<1>2. ASSUME NEW c \in Calls, get_or_init(c) PROVE Shape
  <2>1. Quiet
    BY <1>2, RequestParts
    DEF get_or_init, Goto, Proceed, hostVars, managerVars, pluginVars, loopVars, Quiet,
        Same, Waiting, Over, RepliedOnce, TypeOK, CallersOK
  <2> QED
    BY <2>1 DEF Shape
<1>3. ASSUME NEW c \in Calls, send_request(c) PROVE Shape
  <2>1. Quiet
    BY <1>3, RequestParts
    DEF send_request, Goto, Return, Proceed, Leave, hostVars, managerVars, pluginVars,
        loopVars, Quiet, Same, Waiting, Over, RepliedOnce, TypeOK, CallersOK
  <2> QED
    BY <2>1 DEF Shape
<1>4. ASSUME NEW c \in Calls, reserve(c) PROVE Shape
  <2>1. CASE pc' = [pc EXCEPT ![c] = "reserved"] /\ UNCHANGED <<stage, replied>>
    <3>1. Quiet
      BY <1>4, <2>1, RequestParts
      DEF reserve, Goto, managerVars, Quiet, Same, Waiting, Over, RepliedOnce, TypeOK, CallersOK
    <3> QED
      BY <3>1 DEF Shape
  <2>2. CASE Return(c)
    <3>1. Quiet
      BY <1>4, <2>2, RequestParts
      DEF reserve, Return, Proceed, Leave, Goto, managerVars, Quiet, Same, Waiting, Over,
          RepliedOnce, TypeOK, CallersOK
    <3> QED
      BY <3>1 DEF Shape
  <2> QED
    BY <1>4, <2>1, <2>2 DEF reserve, Goto
<1>5. ASSUME NEW c \in Calls, permit_send(c) PROVE Shape
  <2>1. CASE accepting_calls
    <3>1. Sends(c)
      BY <1>5, <2>1 DEF permit_send, Goto, managerVars, Sends
    <3> QED
      BY <3>1 DEF Shape
  <2>2. CASE ~accepting_calls
    <3>1. Quiet
      BY <1>5, <2>2, RequestParts
      DEF permit_send, Return, Proceed, Leave, Goto, managerVars, Quiet, Same, Waiting, Over,
          RepliedOnce, TypeOK, CallersOK
    <3> QED
      BY <3>1 DEF Shape
  <2> QED
    BY <2>1, <2>2
<1>6. ASSUME NEW c \in Calls, TakeReply(c) PROVE Shape
  <2>1. Quiet
    BY <1>6, RequestParts
    DEF TakeReply, Return, Proceed, Goto, Leave, hostVars, managerVars, pluginVars,
        loopVars, Quiet, Same, Waiting, Over, RepliedOnce, TypeOK, CallersOK
  <2> QED
    BY <2>1 DEF Shape
<1>7. ASSUME NEW c \in Calls, TimeOut(c) PROVE Shape
  <2>1. Quiet
    BY <1>7, RequestParts
    DEF TimeOut, Goto, hostVars, managerVars, pluginVars, loopVars, Quiet, Same, Waiting,
        Over, RepliedOnce, TypeOK, CallersOK
  <2> QED
    BY <2>1 DEF Shape
<1>8. ASSUME NEW c \in Calls, SendCancel(c) PROVE Shape
  <2>1. CASE Closed /\ queue' = queue
    <3>1. Quiet
      BY <1>8, <2>1, RequestParts
      DEF SendCancel, Return, Proceed, Leave, Goto, managerVars, Quiet, Same, Waiting, Over,
          RepliedOnce, TypeOK, CallersOK
    <3> QED
      BY <3>1 DEF Shape
  <2>2. CASE queue' = Append(queue, Command("cancel", Request(c)))
    <3>1. pc[c] = "cancelling" /\ Return(c) /\ UNCHANGED pending_requests
      BY <1>8 DEF SendCancel, managerVars
    <3>2. /\ stage[c] = "initialize" => stage'[c] = "call" /\ pc'[c] = "sending"
          /\ stage[c] = "call" => pc'[c] = "returned"
          /\ pc'[c] # "waiting" /\ ~replied'[c]
      BY <3>1 DEF Return, Proceed, Leave, Goto, TypeOK, CallersOK
    <3>3. \A d \in Calls : d # c => Same(d)
      BY <3>1 DEF Return, Proceed, Leave, Goto, Same, TypeOK, CallersOK
    <3>4. Cancels(c)
      BY <2>2, <3>1, <3>2, <3>3 DEF Cancels
    <3> QED
      BY <3>4 DEF Shape
  <2> QED
    BY <1>8, <2>1, <2>2 DEF SendCancel
<1>9. ASSUME NEW c \in Calls, Abort(c) PROVE Shape
  <2>1. /\ pc'[c] = "gone" /\ ~replied'[c] /\ pc[c] \in {"starting", "reserving", "waiting", "cancelling"}
        /\ replied[c] => pc[c] = "waiting"
        /\ UNCHANGED <<pending_requests, queue>>
    BY <1>9 DEF Abort, Leave, Goto, managerVars, RepliedOnce, TypeOK, CallersOK
  <2>2. \A d \in Calls : d # c => Same(d)
    BY <1>9 DEF Abort, Leave, Goto, Same, TypeOK, CallersOK
  <2>3. \A r \in Requests : Waiting(r) => Waiting(r)' \/ Over(r)'
    BY <2>1, <2>2, RequestParts DEF Waiting, Over, Same
  <2>4. Quiet
    BY <2>1, <2>2, <2>3 DEF Quiet
  <2> QED
    BY <2>4 DEF Shape
<1>10. CASE GraceElapsed
  <2>1. pending_requests \subseteq Requests
    BY DEF TypeOK, ManagerOK
  <2>2. Answers(pending_requests)
    BY <1>10 DEF GraceElapsed, Break, Answers
  <2> QED
    BY <2>1, <2>2 DEF Shape
<1>11. CASE LoopEnds
  <2>1. pending_requests \subseteq Requests
    BY DEF TypeOK, ManagerOK
  <2>2. Answers(pending_requests)
    BY <1>11 DEF LoopEnds, Break, Answers
  <2> QED
    BY <2>1, <2>2 DEF Shape
<1>12. CASE Receive
  <2>1. Takes
    BY <1>12 DEF Receive, ReceiveCall, ReceiveCancel, callerVars, Takes
  <2> QED
    BY <2>1 DEF Shape
<1>13. CASE ReceiveNone
  <2>1. pending_requests \subseteq Requests
    BY DEF TypeOK, ManagerOK
  <2>2. CASE Break
    <3>1. Answers(pending_requests)
      BY <2>2 DEF Break, Answers
    <3> QED
      BY <2>1, <3>1 DEF Shape
  <2>3. CASE UNCHANGED <<pc, stage, replied, pending_requests, queue>>
    BY <2>3 DEF Shape, Quiet, Same, Waiting
  <2> QED
    BY <1>13, <2>2, <2>3 DEF ReceiveNone, callerVars
<1>14. CASE WriteFails
  <2>1. pending_requests \subseteq Requests
    BY DEF TypeOK, ManagerOK
  <2>2. CASE UNCHANGED <<pc, stage, replied, pending_requests, queue>>
    BY <2>2 DEF Shape, Quiet, Same, Waiting
  <2>3. CASE /\ Replied(pending_requests \cap {writing.request})
             /\ pending_requests' = pending_requests \ {writing.request} /\ queue' = queue
    <3> DEFINE answered == pending_requests \cap {writing.request}
    <3>1. /\ answered \subseteq pending_requests
          /\ pending_requests \ {writing.request} = pending_requests \ answered
      OBVIOUS
    <3>2. Answers(answered)
      BY <2>3, <3>1 DEF Answers
    <3>3. answered \in SUBSET Requests
      BY <2>1
    <3> QED
      BY <3>2, <3>3 DEF Shape
  <2> QED
    BY <1>14, <2>2, <2>3 DEF WriteFails, callerVars
<1>15. CASE ReadLine
  <2>1. pending_requests \subseteq Requests
    BY DEF TypeOK, ManagerOK
  <2>2. CASE UNCHANGED <<pc, stage, replied, pending_requests, queue>>
    BY <2>2 DEF Shape, Quiet, Same, Waiting
  <2>3. CASE /\ Replied(pending_requests \cap {Head(stdout).request})
             /\ pending_requests' = pending_requests \ {Head(stdout).request} /\ queue' = queue
    <3> DEFINE answered == pending_requests \cap {Head(stdout).request}
    <3>1. /\ answered \subseteq pending_requests
          /\ pending_requests \ {Head(stdout).request} = pending_requests \ answered
      OBVIOUS
    <3>2. Answers(answered)
      BY <2>3, <3>1 DEF Answers
    <3>3. answered \in SUBSET Requests
      BY <2>1
    <3> QED
      BY <3>2, <3>3 DEF Shape
  <2> QED
    BY <1>15, <2>2, <2>3 DEF ReadLine, callerVars
<1>16. CASE ReadEnd
  <2>1. pending_requests \subseteq Requests
    BY DEF TypeOK, ManagerOK
  <2>2. CASE Break
    <3>1. Answers(pending_requests)
      BY <2>2 DEF Break, Answers
    <3> QED
      BY <2>1, <3>1 DEF Shape
  <2>3. CASE UNCHANGED <<pc, stage, replied, pending_requests, queue>>
    BY <2>3 DEF Shape, Quiet, Same, Waiting
  <2> QED
    BY <1>16, <2>2, <2>3 DEF ReadEnd, callerVars
<1>17. CASE Kill
  <2>1. pending_requests = {} /\ Queued = Queued \cup pending_requests
    BY <1>17 DEF Kill, LoopOK
  <2>2. Ends
    BY <1>17, <2>1 DEF Kill, TaskEnds, Ends
  <2> QED
    BY <2>2 DEF Shape
<1>18. CASE AbortTask
  <2>1. Ends
    BY <1>18 DEF AbortTask, TaskEnds, Ends
  <2> QED
    BY <2>1 DEF Shape
<1>19. CASE UNCHANGED <<pc, stage, replied, pending_requests, queue>>
  BY <1>19 DEF Shape, Quiet, Same, Waiting
<1> QED
  BY ZenonT(60), <1>1, <1>2, <1>3, <1>4, <1>5, <1>6, <1>7, <1>8, <1>9, <1>10, <1>11, <1>12,
     <1>13, <1>14, <1>15, <1>16, <1>17, <1>18, <1>19
  DEF Next, vars, Caller, Manager, Host, Plugin, callerVars, hostVars, managerVars,
      loopVars, pluginVars, Stopping, BeginShutdown, WriteLine, ReadPiece, stop,
      SignalShutdown, Joined, Drop, PluginReads, PluginExits, PluginAnswers

\* What permit.send sends is new.
LEMMA SendsEntries ==
    ASSUME TypeOK, SentOnce, NEW c \in Calls, Sends(c)
    PROVE /\ Request(c) \in Requests /\ Request(c)[1] = c /\ Request(c)[2] = stage[c]
          /\ Request(c) \notin Entries /\ Request(c) \notin Cancelled
          /\ Queued' = Queued \cup {Request(c)} /\ Cancelled' = Cancelled
          /\ pending_requests' = pending_requests
<1>1. /\ Request(c) \in Requests /\ Request(c)[1] = c /\ Request(c)[2] = stage[c]
      /\ ManagerOK
  BY RequestTyped DEF TypeOK
<1>2. Request(c) \notin Entries /\ Request(c) \notin Cancelled
  BY <1>1 DEF Sends, SentOnce, Over, Waiting
<1>3. Queued' = Queued \cup {Request(c)} /\ Cancelled' = Cancelled
  BY <1>1, Enqueued DEF Sends
<1> QED
  BY <1>1, <1>2, <1>3 DEF Sends

\* A cancel makes no entry.
LEMMA CancelsEntries ==
    ASSUME TypeOK, NEW c \in Calls, Cancels(c)
    PROVE /\ Request(c) \in Requests /\ Request(c)[1] = c /\ Request(c)[2] = stage[c]
          /\ Queued' = Queued /\ Cancelled' = Cancelled \cup {Request(c)}
          /\ pending_requests' = pending_requests
<1>1. /\ Request(c) \in Requests /\ Request(c)[1] = c /\ Request(c)[2] = stage[c]
      /\ ManagerOK
  BY RequestTyped DEF TypeOK
<1>2. Queued' = Queued /\ Cancelled' = Cancelled \cup {Request(c)}
  BY <1>1, Enqueued DEF Cancels
<1> QED
  BY <1>1, <1>2 DEF Cancels

\* A call's command becomes an entry; a cancel takes one away, and no command of the
\* same request is left behind it.
LEMMA TakesEntries ==
    ASSUME TypeOK, SentOnce, Takes
    PROVE LET r == Head(queue).request IN
          /\ r \in Requests
          /\ \/ /\ r \in Queued /\ r \notin Queued' /\ Queued = Queued' \cup {r}
                /\ Cancelled' = Cancelled /\ pending_requests' = pending_requests \cup {r}
             \/ /\ r \in Cancelled /\ r \notin Queued' /\ Queued' = Queued
                /\ Cancelled = Cancelled' \cup {r} /\ pending_requests' = pending_requests \ {r}
<1> DEFINE x == Head(queue)
<1>1. /\ x \in Commands /\ x = queue[1] /\ 1 \in DOMAIN queue
      /\ \A i \in DOMAIN queue' : i + 1 \in DOMAIN queue /\ queue'[i] = queue[i + 1]
      /\ Queued = Queued' \cup (IF x.type = "call" THEN {x.request} ELSE {})
      /\ Cancelled = Cancelled' \cup (IF x.type = "cancel" THEN {x.request} ELSE {})
  BY Dequeued DEF Takes, TypeOK
<1>2. /\ x.request \in Requests
      /\ \/ x.type = "call" /\ pending_requests' = pending_requests \cup {x.request}
         \/ x.type = "cancel" /\ pending_requests' = pending_requests \ {x.request}
  BY <1>1 DEF Takes, Commands
<1>3. x.request \notin Queued'
  <2>1. SUFFICES ASSUME NEW i \in DOMAIN queue', queue'[i].type = "call", queue'[i].request = x.request
                 PROVE FALSE
    BY DEF Queued
  <2>2. DOMAIN queue' \subseteq Nat \ {0}
    <3>1. queue # <<>> /\ queue' = Tail(queue)
      BY DEF Takes
    <3> QED
      BY <3>1, Taken DEF TypeOK, ManagerOK
  <2>3. /\ i + 1 \in DOMAIN queue /\ 1 < i + 1
        /\ queue[i + 1].type = "call" /\ queue[1].request = queue[i + 1].request
    BY <1>1, <2>1, <2>2
  <2> QED
    BY <1>1, <2>3 DEF SentOnce
<1> HIDE DEF x
<1>4. LET r == x.request IN
          /\ r \in Requests
          /\ \/ /\ r \in Queued /\ r \notin Queued' /\ Queued = Queued' \cup {r}
                /\ Cancelled' = Cancelled /\ pending_requests' = pending_requests \cup {r}
             \/ /\ r \in Cancelled /\ r \notin Queued' /\ Queued' = Queued
                /\ Cancelled = Cancelled' \cup {r} /\ pending_requests' = pending_requests \ {r}
  BY <1>1, <1>2, <1>3
<1> QED
  BY <1>4 DEF x

\* Who waits goes on waiting, or goes on.
LEMMA WaitingStep ==
    ASSUME TypeOK, Shape, NEW r \in Requests, Waiting(r)
    PROVE Waiting(r)' \/ Over(r)'
<1>1. r[1] \in Calls /\ r = <<r[1], r[2]>> /\ r[2] \in {"initialize", "call"}
  BY RequestParts
<1>2. ASSUME NEW c \in Calls, Sends(c) PROVE Waiting(r)'
  BY <1>1, <1>2 DEF Sends, Waiting, TypeOK, CallersOK
<1>3. ASSUME NEW c \in Calls, Cancels(c) PROVE Waiting(r)' \/ Over(r)'
  BY <1>1, <1>3 DEF Cancels, Same, Waiting, Over, TypeOK, CallersOK
<1>4. CASE Takes
  BY <1>4 DEF Takes, Waiting
<1>5. CASE Ends
  BY <1>5 DEF Ends, Replied, Waiting
<1>6. CASE Quiet
  BY <1>6 DEF Quiet
<1>7. ASSUME NEW requests, Answers(requests) PROVE Waiting(r)'
  BY <1>7 DEF Answers, Replied, Waiting
<1> QED
  BY <1>2, <1>3, <1>4, <1>5, <1>6, <1>7 DEF Shape

\* Only what is sent is new among the entries, and only a cancel of a call that has gone
\* on among the cancelled requests.
LEMMA EntriesGrow ==
    ASSUME TypeOK, SentOnce, Shape
    PROVE /\ \A r \in Entries' : r \in Requests /\ (r \in Entries \/ Waiting(r)')
          /\ \A r \in Cancelled' : r \in Requests /\ (r \in Cancelled \/ Over(r)')
          /\ pending_requests' \cap Queued' = {}
<1>1. /\ Queued \subseteq Requests /\ Cancelled \subseteq Requests
      /\ pending_requests \subseteq Requests /\ pending_requests \cap Queued = {}
  BY QueueTyped DEF TypeOK, ManagerOK, SentOnce
<1> DEFINE Goal == /\ \A r \in Entries' : r \in Requests /\ (r \in Entries \/ Waiting(r)')
                   /\ \A r \in Cancelled' : r \in Requests /\ (r \in Cancelled \/ Over(r)')
                   /\ pending_requests' \cap Queued' = {}
<1>2. ASSUME NEW c \in Calls, Sends(c) PROVE Goal
  <2>1. \A r \in Requests : r = Request(c) => Waiting(r)'
    <3>1. \A r \in Requests : r[1] = c /\ r[2] = stage[c] => Waiting(r)'
      BY <1>2 DEF Sends, Waiting, TypeOK, CallersOK
    <3>2. Request(c)[1] = c /\ Request(c)[2] = stage[c]
      BY <1>2, SendsEntries
    <3> QED
      BY <3>1, <3>2
  <2>2. /\ Request(c) \in Requests /\ Request(c) \notin Entries
        /\ Queued' = Queued \cup {Request(c)} /\ Cancelled' = Cancelled
        /\ pending_requests' = pending_requests
    BY <1>2, SendsEntries
  <2> QED
    BY <1>1, <2>1, <2>2 DEF Entries
<1>3. ASSUME NEW c \in Calls, Cancels(c) PROVE Goal
  <2>1. \A r \in Requests : r = Request(c) => Over(r)'
    BY <1>3, CancelsEntries DEF Cancels, Over, TypeOK, CallersOK
  <2> QED
    BY <1>1, <1>3, <2>1, CancelsEntries DEF Entries
<1>4. CASE Takes
  BY <1>1, <1>4, TakesEntries DEF Entries
<1>5. CASE Ends
  BY <1>5 DEF Ends, Queued, Cancelled, Entries
<1>6. CASE queue' = queue /\ pending_requests' \subseteq pending_requests
  <2>1. Queued' = Queued /\ Cancelled' = Cancelled
    BY <1>6 DEF Queued, Cancelled
  <2> QED
    BY <1>1, <1>6, <2>1 DEF Entries
<1> QED
  BY <1>2, <1>3, <1>4, <1>5, <1>6 DEF Shape, Quiet, Answers

\* A request goes through the channel once.
LEMMA DistinctStep ==
    ASSUME TypeOK, SentOnce, Shape
    PROVE \A i, j \in DOMAIN queue' : i < j /\ queue'[j].type = "call" =>
              queue'[i].request # queue'[j].request
<1>1. \A i \in DOMAIN queue : queue[i].request \in Queued \cup Cancelled
  BY QueueTyped DEF TypeOK, Queued, Cancelled
<1>2. SUFFICES ASSUME NEW i \in DOMAIN queue', NEW j \in DOMAIN queue', i < j,
                      queue'[j].type = "call"
               PROVE queue'[i].request # queue'[j].request
  OBVIOUS
<1>3. ASSUME NEW t \in {"call", "cancel"}, NEW r \in Requests, queue' = Append(queue, Command(t, r)),
             t = "call" => r \notin Queued \cup Cancelled
      PROVE queue'[i].request # queue'[j].request
  <2>1. /\ Command(t, r).type = t /\ Command(t, r).request = r
        /\ DOMAIN queue = 1 .. Len(queue) /\ Len(queue) \in Nat
        /\ DOMAIN queue' = 1 .. Len(queue) + 1
        /\ \A k \in 1 .. Len(queue) : queue'[k] = queue[k]
        /\ queue'[Len(queue) + 1] = Command(t, r)
    BY <1>3, CommandParts, Appended DEF TypeOK, ManagerOK
  <2>2. i \in DOMAIN queue /\ queue'[i] = queue[i]
    BY <1>2, <2>1
  <2>3. CASE j \in DOMAIN queue
    BY <1>2, <2>1, <2>2, <2>3 DEF SentOnce
  <2>4. CASE j = Len(queue) + 1
    BY <1>1, <1>2, <1>3, <2>1, <2>2, <2>4
  <2> QED
    BY <2>1, <2>3, <2>4
<1>4. ASSUME NEW c \in Calls, Sends(c) PROVE queue'[i].request # queue'[j].request
  BY <1>3, <1>4, SendsEntries DEF Sends, Entries
<1>5. ASSUME NEW c \in Calls, Cancels(c) PROVE queue'[i].request # queue'[j].request
  BY <1>3, <1>5, CancelsEntries DEF Cancels
<1>6. CASE Takes
  <2>1. queue # <<>> /\ queue' = Tail(queue)
    BY <1>6 DEF Takes
  <2>2. /\ i \in Nat /\ j \in Nat
        /\ i + 1 \in DOMAIN queue /\ queue'[i] = queue[i + 1]
        /\ j + 1 \in DOMAIN queue /\ queue'[j] = queue[j + 1]
    BY <2>1, Taken DEF TypeOK, ManagerOK
  <2>3. i + 1 < j + 1
    BY <1>2, <2>2
  <2> QED
    BY <1>2, <2>2, <2>3 DEF SentOnce
<1>7. CASE Ends
  BY <1>7 DEF Ends
<1>8. CASE queue' = queue
  BY <1>2, <1>8 DEF SentOnce
<1> QED
  BY <1>4, <1>5, <1>6, <1>7, <1>8 DEF Shape, Quiet, Answers

\* Whatever is on its way was sent once.
LEMMA SentOnceStep == TypeOK /\ SentOnce /\ RepliedOnce /\ LoopOK /\ [Next]_vars => SentOnce'
<1> SUFFICES ASSUME TypeOK, SentOnce, RepliedOnce, LoopOK, [Next]_vars PROVE SentOnce'
  OBVIOUS
<1>1. Shape /\ Onward
  BY StepShape, OnwardStep
<1>2. ASSUME NEW r \in Entries' PROVE Over(r)' \/ Waiting(r)'
  <2>1. r \in Requests /\ (r \in Entries \/ Waiting(r)')
    BY <1>1, <1>2, EntriesGrow
  <2>2. CASE r \in Entries
    <3>1. Over(r) \/ Waiting(r)
      BY <2>2 DEF SentOnce
    <3> QED
      BY <1>1, <2>1, <3>1, WaitingStep DEF Onward
  <2> QED
    BY <2>1, <2>2
<1>3. ASSUME NEW r \in Cancelled' PROVE Over(r)'
  BY <1>1, <1>3, EntriesGrow DEF SentOnce, Onward
<1> QED
  BY <1>1, <1>2, <1>3, DistinctStep, EntriesGrow DEF SentOnce

\* A reply comes to who waits, and its entry is gone.
LEMMA RepliedOnceStep == TypeOK /\ SentOnce /\ RepliedOnce /\ LoopOK /\ [Next]_vars => RepliedOnce'
<1> SUFFICES ASSUME TypeOK, SentOnce, RepliedOnce, LoopOK, [Next]_vars, NEW c \in Calls, replied'[c]
             PROVE pc'[c] = "waiting" /\ (Request(c) \notin Entries)'
  BY DEF RepliedOnce
<1> DEFINE Goal == pc'[c] = "waiting" /\ stage'[c] = stage[c] /\ Request(c) \notin Entries'
<1>1. Shape /\ replied \in [Calls -> BOOLEAN] /\ pending_requests \cap Queued = {}
  BY StepShape DEF TypeOK, CallersOK, SentOnce
<1>2. ASSUME NEW d \in Calls, Sends(d) PROVE Goal
  <2>1. pc[c] = "waiting" /\ Request(c) \notin Entries /\ c # d
    BY <1>2 DEF Sends, RepliedOnce
  <2>2. Request(c)[1] = c /\ Request(d)[1] = d
    BY DEF Request
  <2>3. Entries' = Entries \cup {Request(d)}
    BY <1>2, SendsEntries DEF Entries
  <2>4. pc'[c] = pc[c] /\ stage'[c] = stage[c]
    BY <1>2, <2>1 DEF Sends, TypeOK, CallersOK
  <2> QED
    BY <2>1, <2>2, <2>3, <2>4
<1>3. ASSUME NEW d \in Calls, Cancels(d) PROVE Goal
  <2>1. Same(c)
    BY <1>3 DEF Cancels
  <2> QED
    BY <1>3, <2>1, CancelsEntries DEF Same, RepliedOnce, Entries
<1>4. ASSUME Takes PROVE Goal
  <2>1. pc[c] = "waiting" /\ Request(c) \notin Entries /\ UNCHANGED <<pc, stage>>
    BY <1>4 DEF Takes, RepliedOnce
  <2>2. Entries' \subseteq Entries
    BY <1>4, TakesEntries DEF Entries
  <2> QED
    BY <2>1, <2>2
<1>5. ASSUME Ends PROVE Goal
  BY <1>1, <1>5 DEF Ends, Replied, RepliedOnce, Entries, Queued
<1>6. ASSUME Quiet PROVE Goal
  <2>1. Entries' = Entries
    BY <1>6 DEF Quiet, Entries, Queued
  <2>2. Same(c)
    BY <1>6 DEF Quiet
  <2> QED
    BY <2>1, <2>2 DEF Same, RepliedOnce
<1>7. ASSUME NEW requests, Answers(requests) PROVE Goal
  <2>1. Queued' = Queued /\ UNCHANGED <<pc, stage>>
    BY <1>7 DEF Answers, Replied, Queued
  <2>2. replied[c] \/ (pc[c] = "waiting" /\ Request(c) \in requests)
    BY <1>7 DEF Answers, Replied
  <2> QED
    BY <1>1, <1>7, <2>1, <2>2 DEF Answers, RepliedOnce, Entries
<1> QED
  BY <1>1, <1>2, <1>3, <1>4, <1>5, <1>6, <1>7 DEF Shape, Request

\* Who waits without a reply has an entry.
LEMMA WaitersStep ==
    TypeOK /\ SentOnce /\ RepliedOnce /\ LoopOK /\ WaitersAreKnown /\ [Next]_vars => WaitersAreKnown'
<1> SUFFICES ASSUME TypeOK, SentOnce, RepliedOnce, LoopOK, WaitersAreKnown, [Next]_vars,
                    NEW c \in Calls, pc'[c] = "waiting", ~replied'[c]
             PROVE (Request(c) \in Entries)'
  BY DEF WaitersAreKnown, Entries
<1> DEFINE Goal == stage'[c] = stage[c] /\ Request(c) \in Entries'
<1>1. Shape /\ pc[c] = "waiting" /\ ~replied[c] => Request(c) \in Entries
  BY DEF WaitersAreKnown, Entries
<1>2. ASSUME NEW d \in Calls, Sends(d) PROVE Goal
  <2>1. CASE c = d
    BY <1>2, <2>1, SendsEntries DEF Sends, Entries
  <2>2. CASE c # d
    BY <1>1, <1>2, <2>2, SendsEntries DEF Sends, Entries, TypeOK, CallersOK, WaitersAreKnown
  <2> QED
    BY <2>1, <2>2
<1>3. ASSUME NEW d \in Calls, Cancels(d) PROVE Goal
  <2>1. Same(c)
    BY <1>3 DEF Cancels
  <2> QED
    BY <1>3, <2>1, CancelsEntries DEF Same, WaitersAreKnown, Entries
<1>4. ASSUME Takes PROVE Goal
  <2>1. pc[c] = "waiting" /\ stage'[c] = stage[c] /\ Request(c) \in Entries
    BY <1>4 DEF Takes, WaitersAreKnown, Entries
  <2>2. Request(c) \notin Cancelled
    BY <2>1, RequestTyped DEF SentOnce, Over, TypeOK
  <2>3. Entries \subseteq Entries' \cup Cancelled
    BY <1>4, TakesEntries DEF Entries
  <2> QED
    BY <2>1, <2>2, <2>3
<1>5. ASSUME Ends PROVE Goal
  BY <1>5 DEF Ends, Replied, WaitersAreKnown
<1>6. ASSUME Quiet PROVE Goal
  <2>1. Entries' = Entries
    BY <1>6 DEF Quiet, Entries, Queued
  <2>2. Same(c)
    BY <1>6 DEF Quiet
  <2> QED
    BY <2>1, <2>2 DEF Same, WaitersAreKnown, Entries
<1>7. ASSUME NEW requests, Answers(requests) PROVE Goal
  <2>1. Queued' = Queued /\ UNCHANGED <<pc, stage>>
    BY <1>7 DEF Answers, Replied, Queued
  <2>2. ~replied[c] /\ (pc[c] = "waiting" => Request(c) \notin requests)
    BY <1>7 DEF Answers, Replied
  <2> QED
    BY <1>7, <2>1, <2>2 DEF Answers, WaitersAreKnown, Entries
<1>8. Shape
  BY StepShape
<1> QED
  BY <1>8, <1>2, <1>3, <1>4, <1>5, <1>6, <1>7 DEF Shape, Request

\* A closed channel stays closed.
LEMMA ClosedStep == Closed /\ [Next]_vars => Closed'
<1> SUFFICES ASSUME Closed, [Next]_vars PROVE Closed'
  OBVIOUS
<1>1. CASE BeginShutdown
  BY <1>1
  DEF BeginShutdown, ReadDropped, callerVars, hostVars, pluginVars, Closed, Selecting
<1>2. CASE GraceElapsed
  BY <1>2
  DEF GraceElapsed, Break, Replied, ReadDropped, hostVars, pluginVars, Closed, Selecting
<1>3. CASE LoopEnds
  BY <1>3
  DEF LoopEnds, Break, Replied, ReadDropped, hostVars, pluginVars, Closed, Selecting
<1>4. CASE Receive
  BY <1>4
  DEF Receive, ReadDropped, ReceiveCall, Write, ReceiveCancel, callerVars, hostVars,
      pluginVars, Closed, Selecting
<1>5. CASE ReceiveNone
  BY <1>5
  DEF ReceiveNone, ReadDropped, Break, Replied, callerVars, hostVars, pluginVars, Closed,
      Selecting
<1>6. CASE WriteLine
  BY <1>6
  DEF WriteLine, callerVars, hostVars, loopVars, Closed, Selecting
<1>7. CASE WriteFails
  BY <1>7
  DEF WriteFails, Replied, callerVars, hostVars, loopVars, pluginVars, Closed, Selecting
<1>8. CASE ReadEnd
  <2>1. manager = "select" /\ shutting_down' = shutting_down
    BY <1>8 DEF ReadEnd, Break, Selecting
  <2> QED
    BY <2>1 DEF Closed
<1>9. CASE Kill
  BY <1>9
  DEF Kill, TaskEnds, Replied, hostVars, Closed, Selecting
<1>10. CASE AbortTask
  BY <1>10
  DEF AbortTask, ReadDropped, TaskEnds, Replied, hostVars, Closed, Selecting
<1>11. CASE UNCHANGED <<manager, shutting_down>>
  BY <1>11 DEF Closed
<1> QED
  BY ZenonT(60), <1>1, <1>2, <1>3, <1>4, <1>5, <1>6, <1>7, <1>8, <1>9, <1>10, <1>11
  DEF Next, vars, Caller, Manager, Host, Plugin, callerVars, hostVars, managerVars,
      loopVars, pluginVars, Stopping, call_detailed, get_or_init, send_request, reserve,
      permit_send, TakeReply, TimeOut, SendCancel, Abort, ReadPiece, ReadLine, stop,
      SignalShutdown, Joined, Drop, PluginReads, PluginExits, PluginAnswers

\* The loop leaves no entries behind.
LEMMA LoopOKStep == LoopOK /\ [Next]_vars => LoopOK'
<1> SUFFICES ASSUME LoopOK, [Next]_vars PROVE LoopOK'
  OBVIOUS
<1>1. CASE BeginShutdown
  BY <1>1
  DEF BeginShutdown, ReadDropped, callerVars, hostVars, pluginVars, LoopOK, Selecting
<1>2. CASE GraceElapsed
  BY <1>2
  DEF GraceElapsed, Break, Replied, ReadDropped, hostVars, pluginVars, LoopOK, Selecting
<1>3. CASE LoopEnds
  BY <1>3
  DEF LoopEnds, Break, Replied, ReadDropped, hostVars, pluginVars, LoopOK, Selecting
<1>4. CASE Receive
  BY <1>4
  DEF Receive, ReadDropped, ReceiveCall, Write, ReceiveCancel, callerVars, hostVars,
      pluginVars, LoopOK, Selecting
<1>5. CASE ReceiveNone
  BY <1>5
  DEF ReceiveNone, ReadDropped, Break, Replied, callerVars, hostVars, pluginVars, LoopOK,
      Selecting
<1>6. CASE WriteLine
  BY <1>6
  DEF WriteLine, callerVars, hostVars, loopVars, LoopOK, Selecting
<1>7. CASE WriteFails
  BY <1>7
  DEF WriteFails, Replied, callerVars, hostVars, loopVars, pluginVars, LoopOK, Selecting
<1>8. CASE ReadLine
  BY <1>8
  DEF ReadLine, Replied, callerVars, hostVars, LoopOK, Selecting
<1>9. CASE ReadEnd
  BY <1>9
  DEF ReadEnd, ReadDropped, Break, Replied, callerVars, hostVars, pluginVars, LoopOK,
      Selecting
<1>10. CASE Kill
  BY <1>10
  DEF Kill, TaskEnds, Replied, hostVars, LoopOK, Selecting
<1>11. CASE AbortTask
  BY <1>11
  DEF AbortTask, ReadDropped, TaskEnds, Replied, hostVars, LoopOK, Selecting
<1>12. CASE UNCHANGED <<manager, pending_requests, shutting_down, channel_drained>>
  BY <1>12 DEF LoopOK
<1> QED
  BY ZenonT(60), <1>1, <1>2, <1>3, <1>4, <1>5, <1>6, <1>7, <1>8, <1>9, <1>10, <1>11, <1>12
  DEF Next, vars, Caller, Manager, Host, Plugin, callerVars, hostVars, managerVars,
      loopVars, pluginVars, Stopping, call_detailed, get_or_init, send_request, reserve,
      permit_send, TakeReply, TimeOut, SendCancel, Abort, ReadPiece, stop, SignalShutdown,
      Joined, Drop, PluginReads, PluginExits, PluginAnswers

\* recv says None when nothing can come any more.
LEMMA NothingAfterDrainStep ==
    TypeOK /\ LoopOK /\ NothingAfterDrain /\ [Next]_vars => NothingAfterDrain'
<1> SUFFICES ASSUME TypeOK /\ LoopOK /\ NothingAfterDrain, [Next]_vars PROVE NothingAfterDrain'
  OBVIOUS
<1>1. ASSUME NEW c \in Calls, call_detailed(c) PROVE NothingAfterDrain'
  BY <1>1
  DEF call_detailed, Goto, hostVars, managerVars, pluginVars, loopVars, NothingAfterDrain,
      Reserved, TypeOK, CallersOK, LoopOK, Closed
<1>2. ASSUME NEW c \in Calls, get_or_init(c) PROVE NothingAfterDrain'
  BY <1>2
  DEF get_or_init, Goto, Proceed, hostVars, managerVars, pluginVars, loopVars,
      NothingAfterDrain, Reserved, TypeOK, CallersOK, LoopOK, Closed
<1>3. ASSUME NEW c \in Calls, send_request(c) PROVE NothingAfterDrain'
  BY <1>3
  DEF send_request, Goto, Return, Proceed, Leave, hostVars, managerVars, pluginVars,
      loopVars, NothingAfterDrain, Reserved, TypeOK, CallersOK, LoopOK, Closed
<1>4. ASSUME NEW c \in Calls, reserve(c) PROVE NothingAfterDrain'
  BY <1>4
  DEF reserve, Goto, Return, Proceed, Leave, hostVars, managerVars, pluginVars, loopVars,
      NothingAfterDrain, Reserved, TypeOK, CallersOK, LoopOK, Closed
<1>5. ASSUME NEW c \in Calls, permit_send(c) PROVE NothingAfterDrain'
  BY <1>5
  DEF permit_send, Goto, Return, Proceed, Leave, hostVars, managerVars, pluginVars,
      loopVars, NothingAfterDrain, Reserved, TypeOK, CallersOK, LoopOK, Closed
<1>6. ASSUME NEW c \in Calls, TakeReply(c) PROVE NothingAfterDrain'
  BY <1>6
  DEF TakeReply, Return, Proceed, Goto, Leave, hostVars, managerVars, pluginVars, loopVars,
      NothingAfterDrain, Reserved, TypeOK, CallersOK, LoopOK, Closed
<1>7. ASSUME NEW c \in Calls, TimeOut(c) PROVE NothingAfterDrain'
  BY <1>7
  DEF TimeOut, Goto, hostVars, managerVars, pluginVars, loopVars, NothingAfterDrain,
      Reserved, TypeOK, CallersOK, LoopOK, Closed
<1>8. ASSUME NEW c \in Calls, SendCancel(c) PROVE NothingAfterDrain'
  BY <1>8
  DEF SendCancel, Return, Proceed, Goto, Leave, hostVars, managerVars, pluginVars,
      loopVars, NothingAfterDrain, Reserved, TypeOK, CallersOK, LoopOK, Closed
<1>9. ASSUME NEW c \in Calls, Abort(c) PROVE NothingAfterDrain'
  BY <1>9
  DEF Abort, Leave, Goto, hostVars, managerVars, pluginVars, loopVars, NothingAfterDrain,
      Reserved, TypeOK, CallersOK, LoopOK, Closed
<1>10. CASE GraceElapsed
  BY <1>10
  DEF GraceElapsed, Break, Replied, ReadDropped, hostVars, pluginVars, NothingAfterDrain,
      Reserved, Selecting, LoopOK
<1>11. CASE LoopEnds
  BY <1>11
  DEF LoopEnds, Break, Replied, ReadDropped, hostVars, pluginVars, NothingAfterDrain,
      Reserved, Selecting, LoopOK
<1>12. CASE Receive
  BY <1>12
  DEF Receive, ReadDropped, ReceiveCall, Write, ReceiveCancel, callerVars, hostVars,
      pluginVars, NothingAfterDrain, Reserved, Selecting, LoopOK
<1>13. CASE ReceiveNone
  BY <1>13
  DEF ReceiveNone, ReadDropped, Break, Replied, callerVars, hostVars, pluginVars,
      NothingAfterDrain, Reserved, Selecting, LoopOK
<1>14. CASE WriteLine
  BY <1>14
  DEF WriteLine, callerVars, hostVars, loopVars, NothingAfterDrain, Reserved, Selecting,
      LoopOK
<1>15. CASE WriteFails
  BY <1>15
  DEF WriteFails, Replied, callerVars, hostVars, loopVars, pluginVars, NothingAfterDrain,
      Reserved, Selecting, LoopOK
<1>16. CASE ReadEnd
  BY <1>16
  DEF ReadEnd, ReadDropped, Break, Replied, callerVars, hostVars, pluginVars,
      NothingAfterDrain, Reserved, Selecting, LoopOK
<1>17. CASE Kill
  BY <1>17
  DEF Kill, TaskEnds, Replied, hostVars, NothingAfterDrain, Reserved, Selecting, LoopOK
<1>18. CASE AbortTask
  BY <1>18
  DEF AbortTask, ReadDropped, TaskEnds, Replied, hostVars, NothingAfterDrain, Reserved,
      Selecting, LoopOK
<1>19. CASE UNCHANGED <<manager, pc, queue, channel_drained>>
  BY <1>19 DEF NothingAfterDrain, Reserved
<1> QED
  BY ZenonT(60), <1>1, <1>2, <1>3, <1>4, <1>5, <1>6, <1>7, <1>8, <1>9, <1>10, <1>11, <1>12,
     <1>13, <1>14, <1>15, <1>16, <1>17, <1>18, <1>19
  DEF Next, vars, Caller, Manager, Host, Plugin, callerVars, hostVars, managerVars,
      loopVars, pluginVars, Replied, Stopping, BeginShutdown, ReadPiece, ReadLine, stop,
      SignalShutdown, Joined, Drop, PluginReads, PluginExits, PluginAnswers

\* Who stops waiting for an answer that is still to come is gone, or has sent a cancel,
\* or finds the channel closed.
LEMMA WaitEnds ==
    ASSUME TypeOK, RepliedOnce, Shape, NEW r \in Requests, r \in Entries, Waiting(r)
    PROVE Waiting(r)' \/ r \in Cancelled' \/ pc'[r[1]] = "gone" \/ Closed
<1> DEFINE Goal == Waiting(r)' \/ r \in Cancelled' \/ pc'[r[1]] = "gone" \/ Closed
<1>1. /\ r[1] \in Calls /\ r = Request(r[1])
      /\ pc[r[1]] \in {"waiting", "cancelling"} /\ stage[r[1]] = r[2]
  BY RequestParts DEF Waiting, Request
<1>2. ~replied[r[1]]
  BY <1>1 DEF RepliedOnce
<1>3. ASSUME NEW c \in Calls, Sends(c) PROVE Goal
  BY <1>1, <1>3 DEF Sends, Waiting, TypeOK, CallersOK
<1>4. ASSUME NEW c \in Calls, Cancels(c) PROVE Goal
  <2>1. CASE c = r[1]
    BY <1>1, <1>4, <2>1, CancelsEntries
  <2>2. CASE c # r[1]
    BY <1>1, <1>4, <2>2 DEF Cancels, Same, Waiting
  <2> QED
    BY <2>1, <2>2
<1>5. ASSUME Takes PROVE Goal
  BY <1>1, <1>5 DEF Takes, Waiting
<1>6. ASSUME Ends PROVE Goal
  BY <1>1, <1>6 DEF Ends, Replied, Waiting
<1>7. ASSUME Quiet PROVE Goal
  BY <1>1, <1>2, <1>7 DEF Quiet, Same, Waiting
<1>8. ASSUME NEW requests, Answers(requests) PROVE Goal
  BY <1>1, <1>8 DEF Answers, Replied, Waiting
<1> QED
  BY <1>3, <1>4, <1>5, <1>6, <1>7, <1>8 DEF Shape

\* A cancel is received when its request is no entry any more.
LEMMA CancelledStep ==
    ASSUME TypeOK, SentOnce, Shape, NEW r \in Entries', r \in Cancelled
    PROVE r \in Cancelled'
<1>1. ASSUME NEW c \in Calls, Sends(c) PROVE r \in Cancelled'
  BY <1>1, SendsEntries
<1>2. ASSUME NEW c \in Calls, Cancels(c) PROVE r \in Cancelled'
  BY <1>2, CancelsEntries
<1>3. CASE Takes
  <2>1. \/ Cancelled' = Cancelled
        \/ \E q \in Requests : /\ q \notin Queued' /\ Cancelled = Cancelled' \cup {q}
                               /\ pending_requests' = pending_requests \ {q}
    BY <1>3, TakesEntries
  <2> QED
    BY <2>1 DEF Entries
<1>4. CASE Ends
  BY <1>4 DEF Ends, Entries, Queued
<1>5. CASE queue' = queue
  BY <1>5 DEF Cancelled
<1> QED
  BY <1>1, <1>2, <1>3, <1>4, <1>5 DEF Shape, Quiet, Answers

\* Every entry is awaited, or is to be cancelled.
LEMMA AllAwaitedStep ==
    TypeOK /\ SentOnce /\ RepliedOnce /\ LoopOK /\ AllAwaited /\ [Next]_vars => AllAwaited'
<1> SUFFICES ASSUME TypeOK, SentOnce, RepliedOnce, LoopOK, AllAwaited, [Next]_vars,
                    NEW r \in Entries'
             PROVE (Waiting(r) \/ r \in Cancelled \/ pc[r[1]] = "gone" \/ Closed)'
  BY DEF AllAwaited
<1>1. Shape /\ Onward
  BY StepShape, OnwardStep
<1>2. Closed => Closed'
  BY ClosedStep
<1>3. r \in Requests /\ (r \in Entries \/ Waiting(r)')
  BY <1>1, EntriesGrow
<1>4. CASE r \in Entries /\ Waiting(r)
  BY <1>1, <1>2, <1>3, <1>4, WaitEnds
<1>5. CASE r \in Cancelled
  BY <1>1, <1>5, CancelledStep
<1>6. CASE pc[r[1]] = "gone"
  BY <1>1, <1>3, <1>6 DEF Onward
<1> QED
  BY <1>2, <1>3, <1>4, <1>5, <1>6 DEF AllAwaited

\* The invariant of the calls and the manager holds initially.
LEMMA CallInvInit == Init => CallInv
<1> SUFFICES ASSUME Init PROVE CallInv
  OBVIOUS
<1>1. DOMAIN queue = {} /\ queue = <<>> /\ pending_requests = {}
  BY DEF Init
<1>2. Queued = {} /\ Cancelled = {} /\ Entries = {}
  BY <1>1 DEF Queued, Cancelled, Entries
<1>3. SentOnce /\ AllAwaited
  BY <1>1, <1>2 DEF SentOnce, AllAwaited
<1>4. RepliedOnce /\ WaitersAreKnown /\ LoopOK /\ NothingAfterDrain
  BY DEF Init, RepliedOnce, WaitersAreKnown, LoopOK, NothingAfterDrain
<1> QED
  BY <1>3, <1>4 DEF CallInv

\* Every step keeps it.
LEMMA CallInvStep == TypeOK /\ CallInv /\ [Next]_vars => CallInv'
BY SentOnceStep, RepliedOnceStep, WaitersStep, AllAwaitedStep, LoopOKStep, NothingAfterDrainStep
   DEF CallInv

\* The calls and the manager agree on who waits for what (Accounted): no call that waits
\* is unknown to the manager, no entry stays behind a timeout, and nothing comes through a
\* channel that was found drained, for any number of calls and any sizes.
THEOREM CallersAndManagerAgree == Spec => []Accounted
<1>1. CallInv => Accounted
  <2>1. LoopOK /\ AllAwaited => EntriesAreAwaited
    BY DEF LoopOK, AllAwaited, EntriesAreAwaited, Entries, Closed
  <2> QED
    BY <2>1 DEF CallInv, Accounted
<1> QED
  BY <1>1, TypeCorrect, CallInvInit, CallInvStep, PTL DEF Spec
=============================================================================
