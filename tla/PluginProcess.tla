--------------------------- MODULE PluginProcess ----------------------------
(***************************************************************************)
(* A plugin driver's process and the calls that go through it,             *)
(* PluginProcess in src-tauri/src/plugins/driver.rs.                       *)
(*                                                                         *)
(* Callers reserve a slot of a bounded channel and put a command in it;    *)
(* the manager task takes the commands, writes lines to the plugin's stdin *)
(* and hands the answers that it reads from stdout to whoever waits for    *)
(* them (pending_requests).  Between a caller's and the manager's steps    *)
(* anything can happen: a timeout, a caller that is aborted because its    *)
(* query was stopped, the plugin's end, the host that stops it.            *)
(*                                                                         *)
(* The plugin is external: it reads its stdin when it likes, answers in    *)
(* any order or not at all, and may exit.  A long answer reaches the host  *)
(* in two pieces.  The first call of all sends `initialize` before its own *)
(* request, so a request is a call and the stage that the call is in.      *)
(* Plugins without settings skip `initialize`: a shorter case of this one. *)
(*                                                                         *)
(* Every stop has a bound: terminate's is zero and for_plugin's (in        *)
(* shutdown_grace.rs) at least a second.                                   *)
(***************************************************************************)
EXTENDS Naturals, Sequences, FiniteSets

CONSTANTS
    Calls,           \* the calls made: call_detailed
    Capacity,        \* of the channel between the callers and the manager
    StdinRoom,       \* lines that the pipe to the plugin holds
    StdoutRoom,      \* pieces that the pipe from the plugin holds
    Limits,          \* whether a call has a timeout: for_plugin, read for every call
    NoRequest,
    MaxAborts        \* bound: callers that are aborted

ASSUME SizesAssumption ==
    /\ IsFiniteSet(Calls)
    /\ Capacity \in Nat \ {0} /\ StdinRoom \in Nat \ {0} /\ StdoutRoom \in Nat \ {0}
    /\ Limits \in (SUBSET BOOLEAN) \ {{}}
    /\ MaxAborts \in Nat

Requests == Calls \X {"initialize", "call"}

ASSUME NoRequestAssumption == NoRequest \notin Requests

VARIABLES
    pc,              \* how far each call is
    stage,           \* the request it is sending: `initialize` or its own
    limited,         \* whether its own request has a timeout
    replied,         \* something, or its sender's end, has come through the
                     \* oneshot channel that it waits on
    initialized,     \* the OnceCell: "empty", "busy" or "set"
    aborts,
    stopping,        \* "no", "closing", "waiting", "ended": how far stop() is
    dropped,         \* nobody holds the PluginProcess any longer
    manager,         \* "select", "writing", "killing", "done": the manager task
    writing,         \* the command whose line it writes
    shutting_down, channel_drained,
    pending_requests,
    line_buf,        \* the answer whose first piece the current read_line holds
    queue,           \* the channel's commands
    child,           \* "running", "exited", "killed": the plugin's process
    stdin, stdout,   \* the pipes
    working,         \* the requests that the plugin works on
    unfinished,      \* the answer of which it has written the first piece only
    told             \* auxiliary: an `initialize` has gone to the plugin

callerVars == <<pc, stage, limited, replied, initialized, aborts>>
hostVars == <<stopping, dropped>>
loopVars == <<shutting_down, channel_drained, line_buf>>
managerVars == <<manager, writing, loopVars, pending_requests>>
pluginVars == <<child, stdin, stdout, working, unfinished, told>>
vars == <<callerVars, hostVars, managerVars, queue, pluginVars>>

Request(c) == <<c, stage[c]>>

Command(type, r) == [type |-> type, request |-> r]

InFlight(c) == pc[c] \notin {"idle", "returned", "gone"}

accepting_calls == stopping = "no"

\* The manager has closed the channel, or its end has.
Closed == shutting_down \/ manager = "done"

\* A reserved slot is taken until its command is sent.
Reserved == {c \in Calls : pc[c] = "reserved"}

HasRoom == Len(queue) + Cardinality(Reserved) < Capacity

Init ==
    /\ pc = [c \in Calls |-> "idle"]
    /\ stage = [c \in Calls |-> "initialize"]
    /\ limited = [c \in Calls |-> TRUE]
    /\ replied = [c \in Calls |-> FALSE]
    /\ initialized = "empty"
    /\ aborts = 0
    /\ stopping = "no" /\ dropped = FALSE
    /\ manager = "select" /\ writing = NoRequest
    /\ shutting_down = FALSE /\ channel_drained = FALSE
    /\ line_buf = NoRequest
    /\ pending_requests = {}
    /\ queue = <<>>
    /\ child = "running"
    /\ stdin = <<>> /\ stdout = <<>>
    /\ working = {} /\ unfinished = NoRequest
    /\ told = FALSE
-----------------------------------------------------------------------------
(***************************************************************************)
(* A call.                                                                 *)
(***************************************************************************)

Goto(c, step) == pc' = [pc EXCEPT ![c] = step]

call_detailed(c) ==
    /\ pc[c] = "idle" /\ ~dropped
    /\ Goto(c, "starting")
    /\ UNCHANGED <<stage, limited, replied, initialized, aborts, hostVars, managerVars, queue, pluginVars>>

\* Begin the call's own request; its timeout is looked up now.
Proceed(c) ==
    /\ Goto(c, "sending")
    /\ stage' = [stage EXCEPT ![c] = "call"]
    /\ \E limit \in Limits : limited' = [limited EXCEPT ![c] = limit]
    /\ replied' = [replied EXCEPT ![c] = FALSE]
    /\ UNCHANGED aborts

\* A plausible bug: the flag is set when initialization begins.
get_or_init_early(c) ==
    /\ pc[c] = "starting"
    /\ \/ initialized = "set" /\ Proceed(c) /\ UNCHANGED initialized
       \/ /\ initialized = "empty"
          /\ initialized' = "set"
          /\ Goto(c, "sending")
          /\ UNCHANGED <<stage, limited, replied, aborts>>
    /\ UNCHANGED <<hostVars, managerVars, queue, pluginVars>>

\* get_or_init: one caller initializes, the others wait for it.
get_or_init(c) ==
    /\ pc[c] = "starting"
    /\ \/ initialized = "set" /\ Proceed(c) /\ UNCHANGED initialized
       \/ /\ initialized = "empty"
          /\ initialized' = "busy"
          /\ Goto(c, "sending")
          /\ UNCHANGED <<stage, limited, replied, aborts>>
    /\ UNCHANGED <<hostVars, managerVars, queue, pluginVars>>

\* The call is over; what only it could tell is forgotten.
Leave(c, how) ==
    /\ Goto(c, how)
    /\ stage' = [stage EXCEPT ![c] = "initialize"]
    /\ limited' = [limited EXCEPT ![c] = TRUE]
    /\ replied' = [replied EXCEPT ![c] = FALSE]

\* send_request returns.  However `initialize` ended, the cell is set and the
\* call goes on with its own request.
Return(c) ==
    IF stage[c] = "initialize"
    THEN initialized' = "set" /\ Proceed(c)
    ELSE Leave(c, "returned") /\ UNCHANGED <<initialized, aborts>>

\* The first look at accepting_calls.
send_request(c) ==
    /\ pc[c] = "sending"
    /\ IF accepting_calls
       THEN Goto(c, "reserving") /\ UNCHANGED <<stage, limited, replied, initialized, aborts>>
       ELSE Return(c)
    /\ UNCHANGED <<hostVars, managerVars, queue, pluginVars>>

\* reserve: a free slot, or an error once the channel is closed.
reserve(c) ==
    /\ pc[c] = "reserving"
    /\ \/ /\ ~Closed /\ HasRoom
          /\ Goto(c, "reserved")
          /\ UNCHANGED <<stage, limited, replied, initialized, aborts>>
       \/ Closed /\ Return(c)
    /\ UNCHANGED <<hostVars, managerVars, queue, pluginVars>>

\* The second look at accepting_calls; permit.send cannot fail, and what it sends
\* after the receiver is gone stays where nobody takes it.
permit_send(c) ==
    /\ pc[c] = "reserved"
    /\ IF accepting_calls
       THEN /\ Goto(c, "waiting")
            /\ queue' = Append(queue, Command("call", Request(c)))
            /\ UNCHANGED <<stage, limited, replied, initialized, aborts>>
       ELSE Return(c) /\ UNCHANGED queue
    /\ UNCHANGED <<hostVars, managerVars, pluginVars>>

TakeReply(c) ==
    /\ pc[c] = "waiting" /\ replied[c]
    /\ Return(c)
    /\ UNCHANGED <<hostVars, managerVars, queue, pluginVars>>

\* A plausible bug: initialization is waited for without end.
HasLimitOnlyOwn(c) == stage[c] = "call" /\ limited[c]

\* `initialize` always has a timeout.
HasLimit(c) == stage[c] = "initialize" \/ limited[c]

TimeOut(c) ==
    /\ pc[c] = "waiting" /\ HasLimit(c) /\ ~replied[c]
    /\ Goto(c, "cancelling")
    /\ UNCHANGED <<stage, limited, replied, initialized, aborts, hostVars, managerVars, queue, pluginVars>>

\* Before it returns, a call that timed out waits for room to say so.
SendCancel(c) ==
    /\ pc[c] = "cancelling"
    /\ \/ ~Closed /\ HasRoom /\ queue' = Append(queue, Command("cancel", Request(c)))
       \/ Closed /\ UNCHANGED queue
    /\ Return(c)
    /\ UNCHANGED <<hostVars, managerVars, pluginVars>>

\* The task that made the call is aborted where it waits, by a query that is
\* stopped.  An initialization that it had begun is another caller's to do.
Abort(c) ==
    /\ pc[c] \in {"starting", "reserving", "waiting", "cancelling"} /\ aborts < MaxAborts
    /\ Leave(c, "gone")
    /\ aborts' = aborts + 1
    /\ initialized' =
         IF stage[c] = "initialize" /\ pc[c] # "starting" THEN "empty" ELSE initialized
    /\ UNCHANGED <<hostVars, managerVars, queue, pluginVars>>
-----------------------------------------------------------------------------
(***************************************************************************)
(* The manager task.                                                       *)
(***************************************************************************)

\* The receivers of these requests are told; those who gave up are not there.
Replied(requests) ==
    /\ replied' = [c \in Calls |->
           replied[c] \/ (pc[c] = "waiting" /\ Request(c) \in requests)]
    /\ UNCHANGED <<pc, stage, limited, initialized, aborts>>

\* The loop's condition, looked at before every select!.
Drained == shutting_down /\ channel_drained /\ pending_requests = {}

Selecting == manager = "select" /\ ~Drained

\* A branch of select! other than the read is taken: the read_line that was under
\* way is dropped with what it has read (tokio: not cancellation safe).
ReadDropped == line_buf' = NoRequest

\* stop's signal, or its sender's end, closes the channel.
BeginShutdown ==
    /\ Selecting /\ ~shutting_down
    /\ stopping \in {"waiting", "ended"} \/ dropped
    /\ shutting_down' = TRUE
    /\ ReadDropped
    /\ UNCHANGED <<callerVars, hostVars, manager, writing, channel_drained, pending_requests,
                   queue, pluginVars>>

\* The loop ends: whoever still waits is told so, and the child is to be killed.
Break ==
    /\ manager' = "killing"
    /\ Replied(pending_requests)
    /\ pending_requests' = {}
    /\ ReadDropped
    /\ UNCHANGED <<hostVars, writing, shutting_down, channel_drained, queue, pluginVars>>

GraceElapsed == Selecting /\ shutting_down /\ Break

LoopEnds == manager = "select" /\ Drained /\ Break

Write(command) == manager' = "writing" /\ writing' = command

ReceiveCall ==
    LET command == Head(queue) IN
    /\ command.type = "call"
    /\ pending_requests' = pending_requests \cup {command.request}
    /\ Write(command)

\* A plausible bug: a cancelled request's entry stays.
ReceiveCancelKeeping ==
    LET command == Head(queue) IN
    /\ command.type = "cancel"
    /\ IF command.request \in pending_requests
       THEN Write(command)
       ELSE UNCHANGED <<manager, writing>>
    /\ UNCHANGED pending_requests

\* A request that has been answered meanwhile is not cancelled.
ReceiveCancel ==
    LET command == Head(queue) IN
    /\ command.type = "cancel"
    /\ pending_requests' = pending_requests \ {command.request}
    /\ IF command.request \in pending_requests
       THEN Write(command)
       ELSE UNCHANGED <<manager, writing>>

Receive ==
    /\ Selecting /\ ~channel_drained /\ queue # <<>>
    /\ ReceiveCall \/ ReceiveCancel
    /\ queue' = Tail(queue)
    /\ ReadDropped
    /\ UNCHANGED <<callerVars, hostVars, shutting_down, channel_drained, pluginVars>>

\* recv returns None: the channel is closed or has no sender, it is empty, and
\* no slot is reserved.
ReceiveNone ==
    /\ Selecting /\ ~channel_drained
    /\ queue = <<>> /\ Reserved = {}
    /\ \/ /\ shutting_down
          /\ channel_drained' = TRUE
          /\ ReadDropped
          /\ UNCHANGED <<callerVars, hostVars, manager, writing, shutting_down, pending_requests,
                         queue, pluginVars>>
       \/ ~shutting_down /\ dropped /\ Break

\* write_all to a pipe with room.
WriteLine ==
    /\ manager = "writing" /\ child = "running"
    /\ Len(stdin) < StdinRoom
    /\ stdin' = Append(stdin, writing)
    /\ told' = (told \/ writing.request[2] = "initialize")
    /\ manager' = "select" /\ writing' = NoRequest
    /\ UNCHANGED <<callerVars, hostVars, loopVars, pending_requests, queue,
                   child, stdout, working, unfinished>>

WriteFails ==
    /\ manager = "writing" /\ child # "running"
    /\ manager' = "select" /\ writing' = NoRequest
    /\ IF writing.type = "call"
       THEN /\ Replied(pending_requests \cap {writing.request})
            /\ pending_requests' = pending_requests \ {writing.request}
       ELSE UNCHANGED <<callerVars, pending_requests>>
    /\ UNCHANGED <<hostVars, loopVars, queue, pluginVars>>

\* read_line gets a piece without a newline, and goes on waiting.
ReadPiece ==
    /\ Selecting /\ stdout # <<>>
    /\ Head(stdout).part = "first"
    /\ stdout' = Tail(stdout)
    /\ line_buf' = Head(stdout).request
    /\ UNCHANGED <<callerVars, hostVars, manager, writing, shutting_down, channel_drained,
                   pending_requests, queue, child, stdin, working, unfinished, told>>

\* read_line has a line.  It is an answer if it is all of one.
Parsed(piece) == piece.part = "all" \/ line_buf = piece.request

ReadLine ==
    LET piece == Head(stdout) IN
    /\ Selecting /\ stdout # <<>>
    /\ piece.part \in {"all", "last"}
    /\ stdout' = Tail(stdout)
    /\ line_buf' = NoRequest
    /\ IF Parsed(piece)
       THEN /\ Replied(pending_requests \cap {piece.request})
            /\ pending_requests' = pending_requests \ {piece.request}
       ELSE UNCHANGED <<callerVars, pending_requests>>
    /\ UNCHANGED <<hostVars, manager, writing, shutting_down, channel_drained, queue,
                   child, stdin, working, unfinished, told>>

\* stdout ends: a line that was cut off parses as nothing, then the loop ends.
ReadEnd ==
    /\ Selecting /\ stdout = <<>> /\ child # "running"
    /\ \/ /\ line_buf # NoRequest
          /\ ReadDropped
          /\ UNCHANGED <<callerVars, hostVars, manager, writing, shutting_down, channel_drained,
                         pending_requests, queue, pluginVars>>
       \/ line_buf = NoRequest /\ Break

Queued == {queue[i].request : i \in {j \in DOMAIN queue : queue[j].type = "call"}}

\* The task's end drops the receiver and every command in the channel.
TaskEnds(requests) ==
    /\ manager' = "done" /\ writing' = NoRequest
    /\ Replied(requests)
    /\ queue' = <<>>
    /\ child' = "killed"
    /\ stdin' = <<>> /\ stdout' = <<>> /\ working' = {} /\ unfinished' = NoRequest
    /\ UNCHANGED <<hostVars, shutting_down, channel_drained, told>>

\* child.kill().
Kill ==
    /\ manager = "killing"
    /\ TaskEnds(Queued)
    /\ UNCHANGED <<line_buf, pending_requests>>
-----------------------------------------------------------------------------
(***************************************************************************)
(* The host stops the process, or lets go of it.                           *)
(***************************************************************************)

Stopping(step) ==
    /\ stopping' = step
    /\ UNCHANGED <<dropped, callerVars, managerVars, queue, pluginVars>>

\* stop, with a grace or without: no new calls from here on.
stop == stopping = "no" /\ ~dropped /\ Stopping("closing")

SignalShutdown == stopping = "closing" /\ Stopping("waiting")

Joined == stopping = "waiting" /\ manager = "done" /\ Stopping("ended")

\* A plausible bug: a write is waited for.
AbortTaskKillingOnly ==
    /\ stopping = "waiting" /\ manager = "killing"
    /\ TaskEnds(Queued \cup pending_requests)
    /\ pending_requests' = {}
    /\ ReadDropped

\* The task is not done in time, for its write or the kill does not end.
AbortTask ==
    /\ stopping = "waiting" /\ manager \in {"writing", "killing"}
    /\ TaskEnds(Queued \cup pending_requests)
    /\ pending_requests' = {}
    /\ ReadDropped

\* The registry and every caller have let go of the driver.
Drop ==
    /\ ~dropped /\ stopping \in {"no", "ended"}
    /\ \A c \in Calls : ~InFlight(c)
    /\ dropped' = TRUE
    /\ UNCHANGED <<stopping, callerVars, managerVars, queue, pluginVars>>
-----------------------------------------------------------------------------
(***************************************************************************)
(* The plugin.                                                             *)
(***************************************************************************)

\* A cancelled request may go on, or not.
PluginReads ==
    /\ child = "running" /\ stdin # <<>>
    /\ stdin' = Tail(stdin)
    /\ LET r == Head(stdin).request IN
       IF Head(stdin).type = "call" THEN working' = working \cup {r}
       ELSE working' \in {working, working \ {r}}
    /\ UNCHANGED <<callerVars, hostVars, managerVars, queue, child, stdout, unfinished, told>>

Piece(r, part) == [request |-> r, part |-> part]

PluginAnswers(r) ==
    /\ child = "running" /\ Len(stdout) < StdoutRoom
    /\ \/ /\ unfinished = NoRequest /\ r \in working
          /\ working' = working \ {r}
          /\ \/ stdout' = Append(stdout, Piece(r, "all")) /\ UNCHANGED unfinished
             \/ stdout' = Append(stdout, Piece(r, "first")) /\ unfinished' = r
       \/ /\ unfinished = r
          /\ stdout' = Append(stdout, Piece(r, "last"))
          /\ unfinished' = NoRequest
          /\ UNCHANGED working
    /\ UNCHANGED <<callerVars, hostVars, managerVars, queue, child, stdin, told>>

PluginExits ==
    /\ child = "running"
    /\ child' = "exited"
    /\ stdin' = <<>> /\ working' = {} /\ unfinished' = NoRequest
    /\ UNCHANGED <<callerVars, hostVars, managerVars, queue, stdout, told>>
-----------------------------------------------------------------------------
Caller(c) ==
    \/ call_detailed(c) \/ get_or_init(c) \/ send_request(c) \/ reserve(c) \/ permit_send(c)
    \/ TakeReply(c) \/ TimeOut(c) \/ SendCancel(c) \/ Abort(c)

Manager ==
    \/ BeginShutdown \/ GraceElapsed \/ LoopEnds \/ Receive \/ ReceiveNone
    \/ WriteLine \/ WriteFails \/ ReadPiece \/ ReadLine \/ ReadEnd \/ Kill

Host == stop \/ SignalShutdown \/ Joined \/ AbortTask \/ Drop

Plugin == PluginReads \/ PluginExits \/ \E r \in Requests : PluginAnswers(r)

Next == (\E c \in Calls : Caller(c)) \/ Manager \/ Host \/ Plugin

Spec == Init /\ [][Next]_vars

\* What a call does by itself once it has begun; one at a time is possible.
CallSteps(c) ==
    \/ get_or_init(c) \/ send_request(c) \/ reserve(c) \/ permit_send(c)
    \/ TakeReply(c) \/ TimeOut(c) \/ SendCancel(c)

(***************************************************************************)
(* The runtime keeps running the host's tasks and timers, and select!      *)
(* takes its ready branches in random order.  Nothing is assumed of the    *)
(* plugin, of its answers or of the user.                                  *)
(***************************************************************************)
Fairness ==
    /\ \A c \in Calls : WF_vars(CallSteps(c))
    /\ WF_vars(BeginShutdown) /\ WF_vars(GraceElapsed)
    /\ WF_vars(Receive \/ ReceiveNone) /\ WF_vars(ReadPiece \/ ReadLine \/ ReadEnd)
    /\ WF_vars(WriteLine \/ WriteFails) /\ WF_vars(LoopEnds \/ Kill)
    /\ WF_vars(SignalShutdown \/ Joined \/ AbortTask)

FairSpec == Spec /\ Fairness
-----------------------------------------------------------------------------
(***************************************************************************)
(* Properties.                                                             *)
(***************************************************************************)

\* A call that waits is known to the manager, or its answer is there.
WaitersAreKnown ==
    \A c \in Calls : pc[c] = "waiting" /\ ~replied[c] =>
        Request(c) \in pending_requests \cup Queued

Cancelled == {queue[i].request : i \in {j \in DOMAIN queue : queue[j].type = "cancel"}}

Waiting(r) == pc[r[1]] \in {"waiting", "cancelling"} /\ stage[r[1]] = r[2]

\* The manager keeps an entry only for a call that waits for it, or whose cancel
\* is on its way: pending_requests does not grow with timeouts.  An aborted call
\* leaves its entry behind, and so does a timeout while the channel is closed.
EntriesAreAwaited ==
    \A r \in pending_requests :
        Waiting(r) \/ r \in Cancelled \/ pc[r[1]] = "gone" \/ shutting_down

\* Nothing comes through a channel that was found drained.
NothingAfterDrain == channel_drained => Reserved = {} /\ (manager # "done" => queue = <<>>)

(***************************************************************************)
(* The calls and the manager agree on who waits for what, while timeouts,  *)
(* late answers, aborts and the shutdown overtake each other.              *)
(***************************************************************************)
Accounted == WaitersAreKnown /\ EntriesAreAwaited /\ NothingAfterDrain

(***************************************************************************)
(* The plugin sees no request before an `initialize`, however many first   *)
(* calls race, give up or are aborted.                                     *)
(***************************************************************************)
InitializeFirst ==
    \A r \in working \cup {stdin[i].request : i \in DOMAIN stdin} : r[2] = "call" => told

HasNoLimit(c) == stage[c] = "call" /\ ~limited[c]

(***************************************************************************)
(* As long as the plugin goes on reading its stdin, a call that has a      *)
(* timeout returns, whether the plugin answers, hangs or exits, and a      *)
(* process that everybody has let go of ends.  Each call is made once, so  *)
(* both are said of the end of a behaviour.                                *)
(***************************************************************************)
CallsReturn ==
    WF_vars(PluginReads) =>
        <>[](/\ \A c \in Calls : InFlight(c) => HasNoLimit(c)
             /\ dropped => child # "running")

(***************************************************************************)
(* A stop ends, with the child gone, whatever the plugin does and however  *)
(* many calls are on their way.                                            *)
(***************************************************************************)
StopEnds == <>[](stopping # "no" => stopping = "ended" /\ child # "running")
=============================================================================
