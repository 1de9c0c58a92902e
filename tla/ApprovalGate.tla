---------------------------- MODULE ApprovalGate ----------------------------
(***************************************************************************)
(* The approval gate of the MCP server.  run_query, in the MCP subprocess, *)
(* asks a human before it lets a statement through: it writes a pending    *)
(* file into the shared configuration directory and polls for a decision   *)
(* file, until one appears, the heartbeat file goes stale, or a deadline   *)
(* passes.  The approval hosts (the desktop application, the headless web  *)
(* server) refresh the heartbeat, hand the prompt to a user and write the  *)
(* decision file.  The subprocess and the hosts share nothing but the      *)
(* directory, so every file operation is a step of its own: fs::write is   *)
(* an open that truncates and a write, and a decision is consumed by two   *)
(* removals.                                                               *)
(*                                                                         *)
(* Time advances in units of the heartbeat interval.  Waiting is measured  *)
(* by a monotonic clock (Instant), the age of a file by the wall clock     *)
(* (mtime); only the second one runs while the machine is suspended.       *)
(***************************************************************************)
EXTENDS Naturals, FiniteSets

CONSTANTS
    Requests,      \* run_query calls, each with the approval id it would use
    Sessions,      \* browser sessions of the web host
    Connections,   \* saved connections
    Hosts,         \* the approval hosts of this installation
    Modes,         \* the values of mcp_approval_mode under consideration
    Kinds,         \* the kinds of statement under consideration
    Decisions,     \* the decisions under consideration
    NoOne,         \* no session
    Timeout,       \* mcp_approval_timeout_seconds
    StaleAfter,    \* STALE_AFTER
    CleanupAge,    \* CLEANUP_MAX_AGE_SECS
    MaxMisses,     \* consecutive failed heartbeat refreshes
    MaxStarts,     \* starts of a host, in all
    MaxSuspends,   \* suspensions of the machine
    MaxMoves,      \* what browser sessions do besides answering: load, connect, leave
    TimePasses     \* whether the clock advances at all

ASSUME GateAssumption ==
    /\ Hosts \subseteq {"desktop", "web"}
    /\ Modes \subseteq {"off", "writes_only", "all"}
    /\ Kinds \subseteq {"select", "write"}
    /\ Decisions \subseteq {"deny", "approve"} \cup Kinds
    /\ NoOne \notin Sessions
    /\ "desktop" \notin Sessions
    /\ NoOne \notin Requests \cup {"desktop"}
    /\ Hosts \cap Requests = {}
    /\ Modes # {} /\ Kinds # {} /\ Connections # {}
    /\ {Timeout, StaleAfter, CleanupAge, MaxMisses, MaxStarts, MaxSuspends,
        MaxMoves} \subseteq Nat
    /\ TimePasses \in BOOLEAN

\* A refresh is late by less than one interval, so a host that misses
\* MaxMisses of them in a row is still within STALE_AFTER when it succeeds.
ASSUME MissesAssumption == MaxMisses + 1 < StaleAfter

\* The comment of CLEANUP_MAX_AGE_SECS: at least as long as the longest timeout.
ASSUME CleanupAssumption == Timeout <= CleanupAge /\ 1 <= CleanupAge

VARIABLES
    pending,       \* [id].pending.json: absent, torn or whole
    decision,      \* [id].decision.json: absent, torn, or the decision in it
    pendingAge,    \* time since the pending file was last written
    decisionAge,   \* time since the decision file was last written
    beat,          \* time since tabularis.alive was last written
    up,            \* the hosts that run
    heard,         \* the hosts that have written the heartbeat since they started
    due,           \* who has not run since the clock last advanced
    misses,        \* consecutive refreshes a host failed to write
    starts,        \* starts of a host so far
    suspends,      \* suspensions so far
    call,          \* the run_query calls
    waited,        \* time since the call's deadline was set
    verdicts,      \* history: the decisions that entitled users took
    active,        \* web_active_connections
    owners,        \* web_approval_owners
    lifetime,      \* a session: live, between the halves of clear_session, ended
    onBus,         \* sessions the event bus knows
    moves,         \* moves of the browser sessions so far
    delivered,     \* the watcher's own map
    watcher,       \* where the watcher is in its loop
    notified,      \* sessions whose page is about to fetch the list
    listing,       \* list_pending_approvals in progress, one per session
    shown,         \* the approvals a page shows
    deciding       \* decide_pending_approval in progress, one per user

files == <<pending, decision, pendingAge, decisionAge>>
clock == <<beat, due, misses, suspends>>
hosts == <<up, heard, starts>>
calls == <<call, waited, verdicts>>
web   == <<active, owners, lifetime, onBus, moves>>
watch == <<delivered, watcher>>
pages == <<notified, listing, shown, deciding>>
vars  == <<files, clock, hosts, calls, web, watch, pages>>

Users == Sessions \cup {"desktop"}

\* What a query asks for, and the configuration run_query loaded for it.
Queries == [mode : Modes, readonly : BOOLEAN, kind : Kinds, conn : Connections]

AnyQuery == CHOOSE q \in Queries : TRUE

Waiting  == {"queueing", "writing", "polling", "checking", "taken"}
Finished == {"blocked", "ran", "denied", "unavailable", "timedout", "error",
             "failed", "crashed"}

\* Ages beyond every limit are not told apart.
Cap == (IF StaleAfter < CleanupAge THEN CleanupAge ELSE StaleAfter) + 1

Older(age) == IF age < Cap THEN age + 1 ELSE Cap

Oldest(age) == Cap

(***************************************************************************)
(* The directory.                                                          *)
(***************************************************************************)

\* heartbeat::is_alive.
Alive == beat <= StaleAfter

\* list_pending_in: the pending files that parse and have no decision file.
Listed == {r \in Requests : pending[r] = "whole" /\ decision[r] = "absent"}

RemovePending(r) ==
    /\ pending' = [pending EXCEPT ![r] = "absent"]
    /\ pendingAge' = [pendingAge EXCEPT ![r] = 0]

\* Removing the decision file leaves whoever has it open with a file that
\* nobody can find any more.
RemoveDecision(r) ==
    /\ decision' = [decision EXCEPT ![r] = "absent"]
    /\ decisionAge' = [decisionAge EXCEPT ![r] = 0]
    /\ deciding' = [u \in Users |->
           IF deciding[u].id = r /\ deciding[u].step = "write"
           THEN [deciding[u] EXCEPT !.linked = FALSE] ELSE deciding[u]]

(***************************************************************************)
(* run_query in the MCP subprocess.                                        *)
(***************************************************************************)

NeedsApproval(q) == q.mode = "all" \/ (q.mode = "writes_only" /\ q.kind # "select")

\* How the statement is executed: in a read-only transaction or not.
RunReadOnly(q) == q.readonly \/ (q.mode # "off" /\ ~NeedsApproval(q))

NotRun == [kind |-> "none", readonly |-> FALSE]

Run(q, kind) == [kind |-> kind, readonly |-> RunReadOnly(q)]

\* Read-only mode lets nothing through that is not a select.
Forbidden(q, kind) == q.readonly /\ kind # "select"

FirstPhase(q) ==
    IF Forbidden(q, q.kind) THEN "blocked"
    ELSE IF ~NeedsApproval(q) THEN "ran"
    ELSE IF Alive THEN "queueing" ELSE "unavailable"

Idle == [phase |-> "none", query |-> AnyQuery, verdict |-> "none", ran |-> NotRun]

\* The read-only check, the choice of whether approval is needed, and the
\* check that a host is there to give it.
RunQuery(r, q) ==
    /\ call[r].phase = "none"
    /\ call' = [call EXCEPT ![r] =
           [phase |-> FirstPhase(q), query |-> q, verdict |-> "none",
            ran |-> IF FirstPhase(q) = "ran" THEN Run(q, q.kind) ELSE NotRun]]
    /\ UNCHANGED <<files, clock, hosts, waited, verdicts, web, watch, pages>>

OpenPending(r) ==
    /\ call[r].phase = "queueing"
    /\ pending' = [pending EXCEPT ![r] = "torn"]
    /\ pendingAge' = [pendingAge EXCEPT ![r] = 0]
    /\ call' = [call EXCEPT ![r].phase = "writing"]
    /\ UNCHANGED <<decision, decisionAge, clock, hosts, waited, verdicts, web, watch, pages>>

\* The pending file is complete, and the deadline is set.
WritePending(r) ==
    /\ call[r].phase = "writing"
    /\ pending' = [pending EXCEPT ![r] = IF @ = "absent" THEN "absent" ELSE "whole"]
    /\ pendingAge' = [pendingAge EXCEPT ![r] = 0]
    /\ call' = [call EXCEPT ![r].phase = "polling"]
    /\ due' = due \ {r}
    /\ UNCHANGED <<decision, decisionAge, beat, misses, suspends, hosts, waited, verdicts,
                   web, watch, pages>>

\* "Failed to enqueue approval request": the file cannot be opened or written.
EnqueueFails(r) ==
    /\ call[r].phase \in {"queueing", "writing"}
    /\ call' = [call EXCEPT ![r].phase = "failed"]
    /\ due' = due \ {r}
    /\ UNCHANGED <<files, beat, misses, suspends, hosts, waited, verdicts, web, watch, pages>>

\* One round of poll_decision_with_liveness_in begins by reading the decision
\* file.  A file that does not parse ends the poll with an error.
ReadDecision(r) ==
    /\ call[r].phase = "polling"
    /\ IF decision[r] = "absent"
       THEN /\ call' = [call EXCEPT ![r].phase = "checking"]
            /\ UNCHANGED <<decision, decisionAge, due, deciding>>
       ELSE IF decision[r] = "torn"
       THEN /\ call' = [call EXCEPT ![r].phase = "error"]
            /\ due' = due \ {r}
            /\ UNCHANGED <<decision, decisionAge, deciding>>
       ELSE /\ call' = [call EXCEPT ![r] = [@ EXCEPT !.phase = "taken", !.verdict = decision[r]]]
            /\ RemoveDecision(r)
            /\ due' = due \ {r}
    /\ waited' = IF decision[r] = "absent" THEN waited ELSE [waited EXCEPT ![r] = 0]
    /\ UNCHANGED <<pending, pendingAge, beat, misses, suspends, hosts,
                   verdicts, web, watch, notified, listing, shown>>

\* The statement that an approval lets run: the edited one, if there is one.
\* (The second form takes an edited query for granted.)
EffectiveKindUnset(q, d) == d

EffectiveKind(q, d) == IF d \in Kinds THEN d ELSE q.kind

\* (An edited query is not what was asked about, so it is taken for a denial.)
PhaseAfterUnedited(q, d) == IF d = "approve" THEN "ran" ELSE "denied"

\* The phase a decision leads to; an edited query is classified again and the
\* read-only check repeated for it.
PhaseAfter(q, d) ==
    IF d = "deny" THEN "denied"
    ELSE IF d \in Kinds /\ Forbidden(q, d) THEN "blocked" ELSE "ran"

TakeDecision(r) ==
    LET q == call[r].query
        d == call[r].verdict
        phase == PhaseAfter(q, d) IN
    /\ call[r].phase = "taken"
    /\ RemovePending(r)
    /\ call' = [call EXCEPT ![r] =
           [@ EXCEPT !.phase = phase,
                     !.ran = IF phase = "ran" THEN Run(q, EffectiveKind(q, d)) ELSE NotRun]]
    /\ UNCHANGED <<decision, decisionAge, clock, hosts, waited, verdicts, web, watch, pages>>

\* (A poll without a deadline.)
CheckHostPatient(r) ==
    /\ call[r].phase = "checking"
    /\ IF Alive
       THEN /\ call' = [call EXCEPT ![r].phase = "polling"]
            /\ UNCHANGED <<pending, pendingAge, waited>>
       ELSE /\ call' = [call EXCEPT ![r].phase = "unavailable"]
            /\ RemovePending(r)
            /\ waited' = [waited EXCEPT ![r] = 0]
    /\ due' = due \ {r}
    /\ UNCHANGED <<decision, decisionAge, beat, misses, suspends, hosts, verdicts,
                   web, watch, pages>>

\* No decision: is a host still there, has the deadline passed?  Otherwise the
\* poll sleeps until the next round.
CheckHost(r) ==
    /\ call[r].phase = "checking"
    /\ IF Alive /\ waited[r] < Timeout
       THEN /\ call' = [call EXCEPT ![r].phase = "polling"]
            /\ UNCHANGED <<pending, pendingAge, waited>>
       ELSE /\ call' = [call EXCEPT ![r].phase = IF Alive THEN "timedout" ELSE "unavailable"]
            /\ RemovePending(r)
            /\ waited' = [waited EXCEPT ![r] = 0]
    /\ due' = due \ {r}
    /\ UNCHANGED <<decision, decisionAge, beat, misses, suspends, hosts, verdicts,
                   web, watch, pages>>

\* The MCP subprocess is killed, by the client that started it or otherwise.
McpCrash(r) ==
    /\ call[r].phase \in Waiting
    /\ call' = [call EXCEPT ![r].phase = "crashed"]
    /\ due' = due \ {r}
    /\ waited' = [waited EXCEPT ![r] = 0]
    /\ UNCHANGED <<files, beat, misses, suspends, hosts, verdicts, web, watch, pages>>

(***************************************************************************)
(* Ownership of an approval among the sessions of the web host.            *)
(***************************************************************************)

\* authorized_sessions_for_pending.
Authorized(r) == {s \in Sessions : call[r].query.conn \in active[s]}

\* claim_pending_for_session reads the authorized sessions under one lock and
\* the owners under another: auth is what the first one saw.
CanClaim(s, r, auth) == s \in auth /\ owners[r] \notin auth \ {s}

Claim(s, r) == owners' = [owners EXCEPT ![r] = s]

\* release_pending_owner.
Release(s, r) == owners' = [owners EXCEPT ![r] = IF @ = s THEN NoOne ELSE @]

Move == moves < MaxMoves /\ moves' = moves + 1

\* register_active_connection and disconnect_connection.  A request that was
\* admitted before its session ended is still carried out afterwards.
Register(s, c) ==
    /\ Move
    /\ "web" \in up /\ c \notin active[s]
    /\ active' = [active EXCEPT ![s] = @ \cup {c}]
    /\ UNCHANGED <<files, clock, hosts, calls, owners, lifetime, onBus, watch, pages>>

Disconnect(s, c) ==
    /\ Move
    /\ c \in active[s]
    /\ active' = [active EXCEPT ![s] = @ \ {c}]
    /\ UNCHANGED <<files, clock, hosts, calls, owners, lifetime, onBus, watch, pages>>

\* The end of a session: its connections go first, then what it owns.
ClearSession(s) ==
    /\ Move
    /\ "web" \in up /\ lifetime[s] = "live"
    /\ active' = [active EXCEPT ![s] = {}]
    /\ lifetime' = [lifetime EXCEPT ![s] = "clearing"]
    /\ onBus' = onBus \ {s}
    /\ shown' = [shown EXCEPT ![s] = {}]
    /\ notified' = notified \ {s}
    /\ UNCHANGED <<files, clock, hosts, calls, owners, watch, listing, deciding>>

ClearOwners(s) ==
    /\ lifetime[s] = "clearing"
    /\ owners' = [r \in Requests |-> IF owners[r] = s THEN NoOne ELSE owners[r]]
    /\ lifetime' = [lifetime EXCEPT ![s] = "ended"]
    /\ UNCHANGED <<files, clock, hosts, calls, active, onBus, moves, watch, pages>>

\* The page of a session loads: it fetches the list, and its event transport
\* connects; when no connection is left the bus forgets the session in time.
LoadPage(s) ==
    /\ Move
    /\ "web" \in up /\ s \notin onBus /\ lifetime[s] = "live"
    /\ onBus' = onBus \cup {s}
    /\ notified' = notified \cup {s}
    /\ shown' = [shown EXCEPT ![s] = {}]
    /\ UNCHANGED <<files, clock, hosts, calls, active, owners, lifetime, watch,
                   listing, deciding>>

LeaveBus(s) ==
    /\ Move
    /\ s \in onBus
    /\ onBus' = onBus \ {s}
    /\ UNCHANGED <<files, clock, hosts, calls, active, owners, lifetime, watch, pages>>

(***************************************************************************)
(* spawn_headless: the watcher of the web host.                            *)
(***************************************************************************)

Asleep == [step |-> "sleep", todo |-> {}, id |-> NoOne, left |-> {}, auth |-> {}, to |-> NoOne]

\* A round lists the pending approvals and forgets the deliveries of others.
WatchPoll ==
    /\ "web" \in up /\ watcher.step = "sleep"
    /\ delivered' = [r \in Requests |-> IF r \in Listed THEN delivered[r] ELSE NoOne]
    /\ watcher' = IF Listed = {} THEN Asleep ELSE [Asleep EXCEPT !.step = "next", !.todo = Listed]
    /\ UNCHANGED <<files, clock, hosts, calls, web, pages>>

\* The watcher turns to the next approval; nothing is left when the round ends.
NextApproval(todo) ==
    IF todo = {} THEN Asleep ELSE [Asleep EXCEPT !.step = "next", !.todo = todo]

\* (A delivery is taken to last for ever.)
WatchNextOnce(r) ==
    /\ watcher.step = "next" /\ r \in watcher.todo
    /\ watcher' = IF delivered[r] # NoOne
                  THEN NextApproval(watcher.todo \ {r})
                  ELSE [watcher EXCEPT !.step = "release", !.id = r,
                           !.todo = @ \ {r}, !.left = Authorized(r)]
    /\ UNCHANGED <<files, clock, hosts, calls, web, delivered, pages>>

\* An approval whose recipient is still authorized needs nothing.
WatchNext(r) ==
    /\ watcher.step = "next" /\ r \in watcher.todo
    /\ watcher' = IF delivered[r] \in Authorized(r)
                  THEN NextApproval(watcher.todo \ {r})
                  ELSE [watcher EXCEPT !.step = "release", !.id = r,
                           !.todo = @ \ {r}, !.left = Authorized(r)]
    /\ UNCHANGED <<files, clock, hosts, calls, web, delivered, pages>>

\* It tries the authorized sessions one after the other.
TryNext == IF watcher.left = {} THEN NextApproval(watcher.todo)
           ELSE [watcher EXCEPT !.step = "authorize"]

\* Who had the prompt and has lost the connection gives its claim back.
WatchRelease ==
    LET r == watcher.id IN
    /\ watcher.step = "release"
    /\ IF delivered[r] = NoOne THEN UNCHANGED owners ELSE Release(delivered[r], r)
    /\ delivered' = [delivered EXCEPT ![r] = NoOne]
    /\ watcher' = TryNext
    /\ UNCHANGED <<files, clock, hosts, calls, active, lifetime, onBus, moves, pages>>

WatchAuthorize(s) ==
    /\ watcher.step = "authorize" /\ s \in watcher.left
    /\ watcher' = [watcher EXCEPT !.step = "claim", !.to = s, !.left = @ \ {s},
                                  !.auth = Authorized(watcher.id)]
    /\ UNCHANGED <<files, clock, hosts, calls, web, delivered, pages>>

WatchClaim ==
    LET r == watcher.id
        s == watcher.to IN
    /\ watcher.step = "claim"
    /\ IF CanClaim(s, r, watcher.auth)
       THEN Claim(s, r) /\ watcher' = [watcher EXCEPT !.step = "emit"]
       ELSE UNCHANGED owners /\ watcher' = TryNext
    /\ UNCHANGED <<files, clock, hosts, calls, active, lifetime, onBus, moves, delivered, pages>>

\* The prompt is on its way to the page; a session that the bus does not know
\* gives its claim back.
WatchEmit ==
    LET r == watcher.id
        s == watcher.to IN
    /\ watcher.step = "emit"
    /\ IF s \in onBus
       THEN /\ delivered' = [delivered EXCEPT ![r] = s]
            /\ notified' = notified \cup {s}
            /\ watcher' = NextApproval(watcher.todo)
            /\ UNCHANGED owners
       ELSE /\ Release(s, r)
            /\ watcher' = TryNext
            /\ UNCHANGED <<delivered, notified>>
    /\ UNCHANGED <<files, clock, hosts, calls, active, lifetime, onBus, moves,
                   listing, shown, deciding>>

(***************************************************************************)
(* list_pending_approvals and the page that shows its result.              *)
(***************************************************************************)

NoList == [step |-> "idle", todo |-> {}, found |-> {}, id |-> NoOne, auth |-> {}]

\* The page of the desktop application gets everything, when it loads and on
\* every change of a pending file that parses.
RefetchDesktop ==
    /\ "desktop" \in up
    /\ shown["desktop"] # Listed
    /\ shown' = [shown EXCEPT !["desktop"] = Listed]
    /\ UNCHANGED <<files, clock, hosts, calls, web, watch, notified, listing, deciding>>

\* A browser session gets the approvals that it can claim.
Refetch(s) ==
    /\ "web" \in up
    /\ s \in notified /\ listing[s].step = "idle"
    /\ notified' = notified \ {s}
    /\ listing' = [listing EXCEPT ![s] = [NoList EXCEPT !.step = "next", !.todo = Listed]]
    /\ UNCHANGED <<files, clock, hosts, calls, web, watch, shown, deciding>>

ListAuthorize(s, r) ==
    /\ listing[s].step = "next" /\ r \in listing[s].todo
    /\ listing' = [listing EXCEPT ![s] =
           [@ EXCEPT !.step = "claim", !.id = r, !.todo = listing[s].todo \ {r},
                     !.auth = Authorized(r)]]
    /\ UNCHANGED <<files, clock, hosts, calls, web, watch, notified, shown, deciding>>

ListClaim(s) ==
    LET l == listing[s] IN
    /\ l.step = "claim"
    /\ IF CanClaim(s, l.id, l.auth)
       THEN /\ Claim(s, l.id)
            /\ listing' = [listing EXCEPT ![s] = [NoList EXCEPT !.step = "next",
                               !.todo = l.todo, !.found = l.found \cup {l.id}]]
       ELSE /\ listing' = [listing EXCEPT ![s] = [NoList EXCEPT !.step = "next",
                               !.todo = l.todo, !.found = l.found]]
            /\ UNCHANGED owners
    /\ UNCHANGED <<files, clock, hosts, calls, active, lifetime, onBus, moves, watch,
                   notified, shown, deciding>>

ListDone(s) ==
    /\ listing[s].step = "next" /\ listing[s].todo = {}
    /\ shown' = [shown EXCEPT ![s] = IF lifetime[s] = "live" THEN listing[s].found ELSE {}]
    /\ listing' = [listing EXCEPT ![s] = NoList]
    /\ UNCHANGED <<files, clock, hosts, calls, web, watch, notified, deciding>>

(***************************************************************************)
(* decide_pending_approval, for a session of the web host and for the      *)
(* desktop application, which claims nothing.                              *)
(***************************************************************************)

NoDecision == [step |-> "idle", id |-> NoOne, verdict |-> "none", auth |-> {}, linked |-> FALSE]

\* (An answer that is written without a claim.)
DecideUnclaimed(u, r, d) ==
    /\ r \in shown[u] /\ deciding[u].step = "idle"
    /\ pending[r] = "whole"
    /\ deciding' = [deciding EXCEPT ![u] =
           [NoDecision EXCEPT !.step = "open", !.id = r, !.verdict = d]]
    /\ verdicts' = IF u = "desktop" THEN [verdicts EXCEPT ![r] = @ \cup {d}] ELSE verdicts
    /\ UNCHANGED <<files, clock, hosts, call, waited, web, watch, notified, listing, shown>>

\* A user answers the prompt; the handler reads the pending file.
Decide(u, r, d) ==
    /\ r \in shown[u] /\ deciding[u].step = "idle"
    /\ pending[r] = "whole"
    /\ deciding' = [deciding EXCEPT ![u] =
           [NoDecision EXCEPT !.step = IF u = "desktop" THEN "open" ELSE "authorize",
                              !.id = r, !.verdict = d]]
    /\ verdicts' = IF u = "desktop" THEN [verdicts EXCEPT ![r] = @ \cup {d}] ELSE verdicts
    /\ UNCHANGED <<files, clock, hosts, call, waited, web, watch, notified, listing, shown>>

\* An answer is refused: the page fetches the list again.
Refused(u) ==
    IF u = "desktop"
    THEN shown' = [shown EXCEPT ![u] = Listed] /\ UNCHANGED notified
    ELSE notified' = notified \cup ({u} \cap onBus) /\ UNCHANGED shown

DecideMissing(u, r) ==
    /\ r \in shown[u] /\ deciding[u].step = "idle"
    /\ pending[r] # "whole"
    /\ Refused(u)
    /\ UNCHANGED <<files, clock, hosts, calls, web, watch, listing, deciding>>

DecideAuthorize(s) ==
    /\ deciding[s].step = "authorize"
    /\ deciding' = [deciding EXCEPT ![s] =
           [@ EXCEPT !.step = "claim", !.auth = Authorized(deciding[s].id)]]
    /\ UNCHANGED <<files, clock, hosts, calls, web, watch, notified, listing, shown>>

DecideClaim(s) ==
    LET r == deciding[s].id IN
    /\ deciding[s].step = "claim"
    /\ IF CanClaim(s, r, deciding[s].auth)
       THEN /\ Claim(s, r)
            /\ deciding' = [deciding EXCEPT ![s] = [@ EXCEPT !.step = "open", !.auth = {}]]
            /\ verdicts' = [verdicts EXCEPT ![r] = @ \cup {deciding[s].verdict}]
            /\ UNCHANGED <<notified, shown>>
       ELSE /\ deciding' = [deciding EXCEPT ![s] = NoDecision]
            /\ Refused(s)
            /\ UNCHANGED <<owners, verdicts>>
    /\ UNCHANGED <<files, clock, hosts, call, waited, active, lifetime, onBus, moves, watch, listing>>

OpenDecision(u) ==
    LET r == deciding[u].id IN
    /\ deciding[u].step = "open"
    /\ decision' = [decision EXCEPT ![r] = "torn"]
    /\ decisionAge' = [decisionAge EXCEPT ![r] = 0]
    /\ deciding' = [deciding EXCEPT ![u] = [@ EXCEPT !.step = "write", !.linked = TRUE]]
    /\ UNCHANGED <<pending, pendingAge, clock, hosts, calls, web, watch, notified, listing, shown>>

\* Another user may have written since the file was opened: what is longer in
\* the older content stays behind the newer one, which then does not parse.
WriteDecision(u) ==
    LET r == deciding[u].id
        d == deciding[u].verdict IN
    /\ deciding[u].step = "write"
    /\ IF deciding[u].linked
       THEN /\ \E content \in {d} \cup (IF decision[r] \in {d, "torn"} THEN {} ELSE {"torn"}) :
                  decision' = [decision EXCEPT ![r] = content]
            /\ decisionAge' = [decisionAge EXCEPT ![r] = 0]
       ELSE UNCHANGED <<decision, decisionAge>>
    /\ deciding' = [deciding EXCEPT ![u] = [@ EXCEPT !.step = "forget", !.linked = FALSE]]
    /\ UNCHANGED <<pending, pendingAge, clock, hosts, calls, web, watch, notified, listing, shown>>

\* Whoever owns the approval by now loses it; the page drops the prompt.
DecideDone(u) ==
    LET r == deciding[u].id IN
    /\ deciding[u].step = "forget"
    /\ owners' = IF u = "desktop" THEN owners ELSE [owners EXCEPT ![r] = NoOne]
    /\ deciding' = [deciding EXCEPT ![u] = NoDecision]
    /\ shown' = [shown EXCEPT ![u] = @ \ {r}]
    /\ UNCHANGED <<files, clock, hosts, calls, active, lifetime, onBus, moves, watch, notified, listing>>

(***************************************************************************)
(* The hosts, the heartbeat, the cleanup and time.                         *)
(***************************************************************************)

\* spawn_in writes the heartbeat at once; if that fails it is only logged, and
\* the task tries again after an interval.
StartHost(h) ==
    /\ h \notin up /\ starts < MaxStarts
    /\ up' = up \cup {h}
    /\ heard' = heard \cup {h}
    /\ starts' = starts + 1
    /\ beat' = 0
    /\ misses' = [misses EXCEPT ![h] = 0]
    /\ UNCHANGED <<files, due, suspends, calls, web, watch, pages>>

StartHostUnheard(h) ==
    /\ h \notin up /\ starts < MaxStarts /\ 0 < MaxMisses
    /\ up' = up \cup {h}
    /\ starts' = starts + 1
    /\ misses' = [misses EXCEPT ![h] = 1]
    /\ UNCHANGED <<files, beat, due, suspends, heard, calls, web, watch, pages>>

\* (A host that removes the heartbeat file on its way out.)
StopHostClearing(h) ==
    LET gone == IF h = "web" THEN Sessions ELSE {"desktop"} IN
    /\ h \in up
    /\ up' = up \ {h}
    /\ heard' = heard \ {h}
    /\ due' = due \ {h}
    /\ deciding' = [u \in Users |-> IF u \in gone THEN NoDecision ELSE deciding[u]]
    /\ shown' = [u \in Users |-> IF u \in gone THEN {} ELSE shown[u]]
    /\ IF h = "web"
       THEN /\ active' = [s \in Sessions |-> {}]
            /\ owners' = [r \in Requests |-> NoOne]
            /\ lifetime' = [s \in Sessions |-> "live"]
            /\ onBus' = {}
            /\ UNCHANGED moves
            /\ delivered' = [r \in Requests |-> NoOne]
            /\ watcher' = Asleep
            /\ notified' = {}
            /\ listing' = [s \in Sessions |-> NoList]
       ELSE UNCHANGED <<web, watch, notified, listing>>
    /\ beat' = Cap
    /\ UNCHANGED <<files, misses, starts, suspends, calls>>

\* A host that stops, in order or not, leaves the heartbeat file alone; what it
\* keeps in memory is gone, and so are the requests it was handling.
StopHost(h) ==
    LET gone == IF h = "web" THEN Sessions ELSE {"desktop"} IN
    /\ h \in up
    /\ up' = up \ {h}
    /\ heard' = heard \ {h}
    /\ due' = due \ {h}
    /\ deciding' = [u \in Users |-> IF u \in gone THEN NoDecision ELSE deciding[u]]
    /\ shown' = [u \in Users |-> IF u \in gone THEN {} ELSE shown[u]]
    /\ IF h = "web"
       THEN /\ active' = [s \in Sessions |-> {}]
            /\ owners' = [r \in Requests |-> NoOne]
            /\ lifetime' = [s \in Sessions |-> "live"]
            /\ onBus' = {}
            /\ UNCHANGED moves
            /\ delivered' = [r \in Requests |-> NoOne]
            /\ watcher' = Asleep
            /\ notified' = {}
            /\ listing' = [s \in Sessions |-> NoList]
       ELSE UNCHANGED <<web, watch, notified, listing>>
    /\ UNCHANGED <<files, beat, misses, starts, suspends, calls>>

\* One turn of the heartbeat task; a refresh that fails is only logged.
Refresh(h) ==
    /\ h \in due \cap up
    /\ beat' = 0
    /\ heard' = heard \cup {h}
    /\ due' = due \ {h}
    /\ misses' = [misses EXCEPT ![h] = 0]
    /\ UNCHANGED <<files, suspends, up, starts, calls, web, watch, pages>>

RefreshFails(h) ==
    /\ h \in due \cap up /\ misses[h] < MaxMisses
    /\ due' = due \ {h}
    /\ misses' = [misses EXCEPT ![h] = @ + 1]
    /\ UNCHANGED <<files, beat, suspends, hosts, calls, web, watch, pages>>

\* (A cleanup that removes a file at the limit, and one that looks at pending
\* files only.)
CleanupPendingEarly(r) ==
    /\ up # {} /\ pending[r] # "absent" /\ pendingAge[r] >= CleanupAge
    /\ RemovePending(r)
    /\ UNCHANGED <<decision, decisionAge, clock, hosts, calls, web, watch, pages>>

CleanupDecisionOfPending(r) ==
    /\ up # {} /\ pending[r] # "absent" /\ decision[r] # "absent" /\ decisionAge[r] > CleanupAge
    /\ RemoveDecision(r)
    /\ UNCHANGED <<pending, pendingAge, clock, hosts, calls, web, watch,
                   notified, listing, shown>>

\* cleanup_expired_in, one file of the directory after the other.
CleanupPending(r) ==
    /\ up # {} /\ pending[r] # "absent" /\ pendingAge[r] > CleanupAge
    /\ RemovePending(r)
    /\ UNCHANGED <<decision, decisionAge, clock, hosts, calls, web, watch, pages>>

CleanupDecision(r) ==
    /\ up # {} /\ decision[r] # "absent" /\ decisionAge[r] > CleanupAge
    /\ RemoveDecision(r)
    /\ UNCHANGED <<pending, pendingAge, clock, hosts, calls, web, watch,
                   notified, listing, shown>>

\* The files that are there grow older.
FilesAge(Aged(_)) ==
    /\ pendingAge' = [r \in Requests |-> IF pending[r] = "absent" THEN 0 ELSE Aged(pendingAge[r])]
    /\ decisionAge' = [r \in Requests |-> IF decision[r] = "absent" THEN 0 ELSE Aged(decisionAge[r])]

\* Time passes; the heartbeat tasks run this often, and nobody is stuck for this
\* long in the middle of a write or between two rounds of a poll.
Tick ==
    /\ TimePasses /\ due = {}
    /\ due' = up \cup {r \in Requests : call[r].phase \in {"writing", "polling", "checking"}}
    /\ beat' = Older(beat)
    /\ FilesAge(Older)
    /\ waited' = [r \in Requests |->
           IF call[r].phase \in {"polling", "checking"} /\ waited[r] < Timeout
           THEN waited[r] + 1 ELSE waited[r]]
    /\ UNCHANGED <<pending, decision, misses, suspends, hosts, call, verdicts, web, watch, pages>>

\* The machine sleeps for a long time: files age, nobody waits any longer.
Suspend ==
    /\ suspends < MaxSuspends
    /\ suspends' = suspends + 1
    /\ beat' = Cap
    /\ FilesAge(Oldest)
    /\ UNCHANGED <<pending, decision, due, misses, hosts, calls, web, watch, pages>>

Init ==
    /\ pending = [r \in Requests |-> "absent"]
    /\ decision = [r \in Requests |-> "absent"]
    /\ pendingAge = [r \in Requests |-> 0]
    /\ decisionAge = [r \in Requests |-> 0]
    /\ beat = Cap /\ due = {} /\ suspends = 0
    /\ misses = [h \in Hosts |-> 0]
    /\ up = {} /\ heard = {} /\ starts = 0
    /\ call = [r \in Requests |-> Idle]
    /\ waited = [r \in Requests |-> 0]
    /\ verdicts = [r \in Requests |-> {}]
    /\ active = [s \in Sessions |-> {}]
    /\ owners = [r \in Requests |-> NoOne]
    /\ lifetime = [s \in Sessions |-> "live"]
    /\ onBus = {} /\ moves = 0
    /\ delivered = [r \in Requests |-> NoOne]
    /\ watcher = Asleep
    /\ notified = {}
    /\ listing = [s \in Sessions |-> NoList]
    /\ shown = [u \in Users |-> {}]
    /\ deciding = [u \in Users |-> NoDecision]

Poll(r) == ReadDecision(r) \/ TakeDecision(r) \/ CheckHost(r)

Watch ==
    \/ WatchPoll \/ WatchRelease \/ WatchClaim \/ WatchEmit
    \/ \E r \in Requests : WatchNext(r)
    \/ \E s \in Sessions : WatchAuthorize(s)

Listing(s) == ListClaim(s) \/ ListDone(s) \/ \E r \in Requests : ListAuthorize(s, r)

Deciding(u) == OpenDecision(u) \/ WriteDecision(u) \/ DecideDone(u)

Claiming(s) == DecideAuthorize(s) \/ DecideClaim(s)

Cleanup(r) == CleanupPending(r) \/ CleanupDecision(r)

Next ==
    \/ \E r \in Requests, q \in Queries : RunQuery(r, q)
    \/ \E r \in Requests : \/ OpenPending(r) \/ WritePending(r) \/ EnqueueFails(r)
                           \/ Poll(r) \/ McpCrash(r) \/ Cleanup(r)
    \/ \E s \in Sessions, c \in Connections : Register(s, c) \/ Disconnect(s, c)
    \/ \E s \in Sessions : \/ ClearSession(s) \/ ClearOwners(s) \/ LoadPage(s) \/ LeaveBus(s)
                           \/ Refetch(s) \/ Listing(s) \/ Claiming(s)
    \/ Watch
    \/ RefetchDesktop
    \/ \E u \in Users, r \in Requests : DecideMissing(u, r) \/ \E d \in Decisions : Decide(u, r, d)
    \/ \E u \in Users : Deciding(u)
    \/ \E h \in Hosts : \/ StartHost(h) \/ StartHostUnheard(h) \/ StopHost(h)
                        \/ Refresh(h) \/ RefreshFails(h)
    \/ Tick \/ Suspend

Spec == Init /\ [][Next]_vars

(***************************************************************************)
(* Correctness.                                                            *)
(***************************************************************************)

FilesOK ==
    /\ pending \in [Requests -> {"absent", "torn", "whole"}]
    /\ decision \in [Requests -> {"absent", "torn"} \cup Decisions]
    /\ pendingAge \in [Requests -> 0 .. Cap]
    /\ decisionAge \in [Requests -> 0 .. Cap]

ClockOK ==
    /\ beat \in 0 .. Cap
    /\ due \subseteq Hosts \cup Requests
    /\ misses \in [Hosts -> 0 .. MaxMisses]
    /\ suspends \in 0 .. MaxSuspends
    /\ up \subseteq Hosts /\ heard \subseteq up
    /\ starts \in 0 .. MaxStarts

Runs == [kind : {"none"} \cup Kinds, readonly : BOOLEAN]

Calls == [phase : {"none"} \cup Waiting \cup Finished, query : Queries,
          verdict : {"none"} \cup Decisions, ran : Runs]

CallsOK ==
    /\ call \in [Requests -> Calls]
    /\ waited \in [Requests -> 0 .. Timeout]
    /\ verdicts \in [Requests -> SUBSET Decisions]

WebOK ==
    /\ active \in [Sessions -> SUBSET Connections]
    /\ owners \in [Requests -> Sessions \cup {NoOne}]
    /\ lifetime \in [Sessions -> {"live", "clearing", "ended"}]
    /\ onBus \subseteq Sessions
    /\ moves \in 0 .. MaxMoves

Rounds == [step : {"sleep", "next", "release", "authorize", "claim", "emit"},
           todo : SUBSET Requests, id : Requests \cup {NoOne},
           left : SUBSET Sessions, auth : SUBSET Sessions, to : Sessions \cup {NoOne}]

OnDuty(w) ==
    /\ w.step \in {"release", "authorize", "claim", "emit"} => w.id \in Requests
    /\ w.step \in {"claim", "emit"} => w.to \in Sessions

WatchOK ==
    /\ delivered \in [Requests -> Sessions \cup {NoOne}]
    /\ watcher \in {w \in Rounds : OnDuty(w)}

Lists == [step : {"idle", "next", "claim"}, todo : SUBSET Requests, found : SUBSET Requests,
          id : Requests \cup {NoOne}, auth : SUBSET Sessions]

Answers == [step : {"idle", "authorize", "claim", "open", "write", "forget"},
            id : Requests \cup {NoOne}, verdict : {"none"} \cup Decisions,
            auth : SUBSET Sessions, linked : BOOLEAN]

\* A handler that is at work is at work on an approval.
AtWork(l) == l.step # "claim" \/ l.id \in Requests

Answering(a) == a.step = "idle" \/ (a.id \in Requests /\ a.verdict \in Decisions)

PagesOK ==
    /\ notified \subseteq Sessions
    /\ listing \in [Sessions -> {l \in Lists : AtWork(l)}]
    /\ shown \in [Users -> SUBSET Requests]
    /\ deciding \in [Users -> {a \in Answers : Answering(a)}]

\* The variables keep their types.
TypeOK == FilesOK /\ ClockOK /\ CallsOK /\ WebOK /\ WatchOK /\ PagesOK

\* A decision that lets a statement of this kind run.
Permits(d, q, kind) == d # "deny" /\ kind = EffectiveKind(q, d)

\* Nothing runs that nobody permitted.  Whatever run_query executes on a
\* read-only connection is a select in a read-only transaction, an edited
\* query included; and with the gate on, a statement that no entitled user
\* approved in that very form is a select in a read-only transaction too.
NothingUnapproved ==
    \A r \in Requests : call[r].phase = "ran" =>
        LET q == call[r].query
            run == call[r].ran
            safe == run.kind = "select" /\ run.readonly IN
        /\ q.readonly => safe
        /\ q.mode # "off" => safe \/ \E d \in verdicts[r] : Permits(d, q, run.kind)

\* What Consent knows of a call.
Stage(r) ==
    IF call[r].phase = "none" THEN "unasked"
    ELSE IF call[r].phase = "taken" THEN "answered"
    ELSE IF call[r].phase \in Waiting THEN "waiting"
    ELSE IF call[r].phase \in {"blocked", "ran", "denied"} THEN "over" ELSE "abandoned"

Asking(q) == [mode |-> q.mode, readonly |-> q.readonly, kind |-> q.kind]

Promise == INSTANCE Consent WITH
    stage   <- [r \in Requests |-> Stage(r)],
    query   <- [r \in Requests |-> Asking(call[r].query)],
    granted <- verdicts,
    verdict <- [r \in Requests |-> call[r].verdict],
    ran     <- [r \in Requests |-> call[r].ran]

\* The files, the polls and the hosts together keep what the gate promises: one
\* answer that an entitled user has given is taken, once, and carried out as it
\* says; a call that gives up, is refused or fails on the way has run nothing;
\* and nobody is asked about what runs without being asked about.
KeepsItsPromise == Promise!Spec

\* The machine has not been suspended so far.  The ages of files are wall-clock
\* time and go on during a suspension, which no timer of the code measures.
Awake == suspends = 0

\* The heartbeat file is never stale while a host runs that has written it once,
\* whichever of them started, stopped or missed a refresh: no call is refused,
\* and no poll given up, for want of a host that is there.
RunningHostIsAlive == Awake /\ heard # {} => Alive

\* The pending file of a call that still polls is never cleaned up: as long as
\* the call can be answered, users can see the prompt and answer it.
PromptStaysWhilePolled ==
    Awake => \A r \in Requests :
                 call[r].phase \in {"polling", "checking"} => pending[r] = "whole"

\* Somebody can always be told: fairness is that of tasks and timers that the
\* code keeps running.  Users need not answer and pages need not load.
Fairness ==
    /\ \A r \in Requests : /\ WF_vars(OpenPending(r) \/ WritePending(r) \/ EnqueueFails(r))
                            /\ WF_vars(Poll(r))
                            /\ WF_vars(CleanupPending(r)) /\ WF_vars(CleanupDecision(r))
    /\ WF_vars(Watch)
    /\ \A s \in Sessions : /\ WF_vars(Refetch(s)) /\ WF_vars(Listing(s))
                            /\ WF_vars(Claiming(s)) /\ WF_vars(ClearOwners(s))
    /\ \A u \in Users : WF_vars(Deciding(u))
    /\ \A h \in Hosts : WF_vars(Refresh(h) \/ RefreshFails(h))
    /\ WF_vars(Tick)

LiveSpec == Spec /\ Fairness

\* Every call that asks for approval ends: whatever happens to the hosts, to
\* the users and to the files, the MCP client gets an answer.
CallsSettle ==
    \A r \in Requests : call[r].phase \in Waiting ~> call[r].phase \in Finished

\* A prompt does not stay with a session that has given the connection up: as
\* long as some session that the bus knows has it open, the watcher hands the
\* prompt to one that is authorized.
PromptFindsItsUser ==
    \A r \in Requests :
        (call[r].phase = "polling" /\ \E s \in Sessions : s \in onBus \cap Authorized(r))
        ~> \/ delivered[r] \in Authorized(r)
           \/ call[r].phase \in Finished
           \/ onBus \cap Authorized(r) = {}
           \/ decision[r] # "absent"

\* What a finished call leaves in the directory, because it crashed, ended in
\* an error or was answered too late, goes in time while some host runs.
LeftoversCleared ==
    \A r \in Requests :
        (call[r].phase \in Finished /\ (pending[r] # "absent" \/ decision[r] # "absent"))
        ~> ((pending[r] = "absent" /\ decision[r] = "absent") \/ up = {})
=============================================================================
