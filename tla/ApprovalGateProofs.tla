------------------------- MODULE ApprovalGateProofs -------------------------
(***************************************************************************)
(* Proofs about the approval gate: its invariants, and that it implements  *)
(* Consent.                                                                *)
(***************************************************************************)
EXTENDS ApprovalGate, TLAPS

\* The bounds of the model, as the provers need them.
LEMMA Bounds ==
    /\ Timeout \in Nat /\ StaleAfter \in Nat /\ CleanupAge \in Nat
    /\ MaxMisses \in Nat /\ MaxStarts \in Nat /\ MaxSuspends \in Nat /\ MaxMoves \in Nat
    /\ Cap \in Nat /\ StaleAfter < Cap /\ CleanupAge < Cap
BY GateAssumption DEF Cap

\* An age stays within the cap when it grows.
LEMMA OlderTyped == ASSUME NEW a \in 0 .. Cap PROVE Older(a) \in 0 .. Cap /\ Older(a) <= a + 1
BY Bounds DEF Older

\* The watcher can always turn to another approval, and try another session.
LEMMA NextApprovalTyped ==
    ASSUME NEW todo \in SUBSET Requests
    PROVE NextApproval(todo) \in Rounds /\ OnDuty(NextApproval(todo))
BY DEF NextApproval, Asleep, Rounds, OnDuty

LEMMA TryNextTyped ==
    ASSUME WatchOK, watcher.step \in {"release", "claim", "emit"}
    PROVE TryNext \in Rounds /\ OnDuty(TryNext)
<1>1. watcher \in Rounds /\ OnDuty(watcher)
  BY DEF WatchOK
<1>2. NextApproval(watcher.todo) \in Rounds /\ OnDuty(NextApproval(watcher.todo))
  BY <1>1, NextApprovalTyped DEF Rounds
<1>3. /\ [watcher EXCEPT !.step = "authorize"] \in Rounds
      /\ OnDuty([watcher EXCEPT !.step = "authorize"])
  BY <1>1 DEF Rounds, OnDuty
<1> QED
  BY <1>2, <1>3 DEF TryNext

\* Whoever writes a decision that is removed meanwhile goes on writing.
LEMMA RemoveDecisionTyped ==
    ASSUME PagesOK, NEW r \in Requests, RemoveDecision(r)
    PROVE deciding' \in [Users -> {a \in Answers : Answering(a)}]
BY ZenonT(60) DEF PagesOK, RemoveDecision, Answers, Answering

\* The files keep their types.
LEMMA FilesStep == TypeOK /\ [Next]_vars => FilesOK'
<1> SUFFICES ASSUME TypeOK, [Next]_vars PROVE FilesOK'
  OBVIOUS
<1>1. ASSUME NEW r \in Requests, OpenPending(r) PROVE FilesOK'
  BY <1>1, Bounds
  DEF OpenPending, clock, hosts, web, watch, pages, TypeOK, FilesOK
<1>2. ASSUME NEW r \in Requests, WritePending(r) PROVE FilesOK'
  BY <1>2, Bounds
  DEF WritePending, hosts, web, watch, pages, TypeOK, FilesOK
<1>3. ASSUME NEW r \in Requests, ReadDecision(r) PROVE FilesOK'
  <2>1. /\ UNCHANGED <<pending, pendingAge>>
        /\ \/ UNCHANGED <<decision, decisionAge>>
           \/ /\ decision' = [decision EXCEPT ![r] = "absent"]
              /\ decisionAge' = [decisionAge EXCEPT ![r] = 0]
    BY <1>3 DEF ReadDecision, RemoveDecision
  <2> QED
    BY <2>1, Bounds DEF TypeOK, FilesOK
<1>4. ASSUME NEW r \in Requests, TakeDecision(r) PROVE FilesOK'
  BY <1>4, Bounds
  DEF TakeDecision, RemovePending, clock, hosts, web, watch, pages, TypeOK, FilesOK
<1>5. ASSUME NEW r \in Requests, CheckHost(r) PROVE FilesOK'
  BY <1>5, Bounds
  DEF CheckHost, RemovePending, hosts, web, watch, pages, TypeOK, FilesOK
<1>6. ASSUME NEW r \in Requests, CleanupPending(r) PROVE FilesOK'
  BY <1>6, Bounds
  DEF CleanupPending, RemovePending, clock, hosts, calls, web, watch, pages, TypeOK,
      FilesOK
<1>7. ASSUME NEW r \in Requests, CleanupDecision(r) PROVE FilesOK'
  BY <1>7, Bounds
  DEF CleanupDecision, RemoveDecision, clock, hosts, calls, web, watch, TypeOK, FilesOK
<1>8. CASE Tick
  BY <1>8, OlderTyped, Bounds
  DEF Tick, FilesAge, hosts, web, watch, pages, TypeOK, FilesOK
<1>9. CASE Suspend
  BY <1>9, Bounds
  DEF Suspend, FilesAge, hosts, calls, web, watch, pages, TypeOK, FilesOK, Oldest
<1>10. ASSUME NEW u \in Users, OpenDecision(u) PROVE FilesOK'
  <2>1. /\ UNCHANGED <<pending, pendingAge>>
        /\ decision' = [decision EXCEPT ![deciding[u].id] = "torn"]
        /\ decisionAge' = [decisionAge EXCEPT ![deciding[u].id] = 0]
    BY <1>10 DEF OpenDecision
  <2>2. decision' \in [Requests -> {"absent", "torn"} \cup Decisions]
    BY <2>1 DEF TypeOK, FilesOK
  <2>3. decisionAge' \in [Requests -> 0 .. Cap]
    <3>1. 0 \in 0 .. Cap
      BY Bounds
    <3> HIDE DEF Cap
    <3> QED
      BY <2>1, <3>1 DEF TypeOK, FilesOK
  <2> QED
    BY <2>1, <2>2, <2>3 DEF TypeOK, FilesOK
<1>11. ASSUME NEW u \in Users, WriteDecision(u) PROVE FilesOK'
  BY <1>11, Bounds
  DEF WriteDecision, clock, hosts, calls, web, watch, TypeOK, FilesOK, PagesOK,
      Answering
<1>12. CASE UNCHANGED <<pending, decision, pendingAge, decisionAge>>
  BY <1>12 DEF TypeOK, FilesOK
<1> QED
  BY ZenonT(60), <1>1, <1>2, <1>3, <1>4, <1>5, <1>6, <1>7, <1>8, <1>9, <1>10, <1>11, <1>12
  DEF Next, vars, Poll, Watch, Listing, Deciding, Claiming, Cleanup, files, clock,
      hosts, calls, web, watch, pages, Claim, Move, Refused, Release, RunQuery,
      EnqueueFails, McpCrash, WatchNext, Register, Disconnect, ClearSession,
      ClearOwners, LoadPage, LeaveBus, Refetch, ListClaim, ListDone, DecideAuthorize,
      DecideClaim, WatchAuthorize, ListAuthorize, WatchPoll, WatchRelease, WatchClaim,
      WatchEmit, RefetchDesktop, DecideMissing, Decide, DecideDone, StartHost,
      StartHostUnheard, StopHost, Refresh, RefreshFails

\* The clock, the heartbeat and the hosts keep their types.
LEMMA ClockStep == TypeOK /\ [Next]_vars => ClockOK'
<1> SUFFICES ASSUME TypeOK, [Next]_vars PROVE ClockOK'
  OBVIOUS
<1>1. ASSUME NEW r \in Requests, WritePending(r) PROVE ClockOK'
  BY <1>1, Bounds
  DEF WritePending, hosts, web, watch, pages, TypeOK, ClockOK
<1>2. ASSUME NEW r \in Requests, EnqueueFails(r) PROVE ClockOK'
  BY <1>2, Bounds
  DEF EnqueueFails, files, hosts, web, watch, pages, TypeOK, ClockOK
<1>3. ASSUME NEW r \in Requests, ReadDecision(r) PROVE ClockOK'
  BY <1>3, Bounds
  DEF ReadDecision, RemoveDecision, hosts, web, watch, TypeOK, ClockOK
<1>4. ASSUME NEW r \in Requests, CheckHost(r) PROVE ClockOK'
  BY <1>4, Bounds
  DEF CheckHost, RemovePending, hosts, web, watch, pages, TypeOK, ClockOK
<1>5. ASSUME NEW r \in Requests, McpCrash(r) PROVE ClockOK'
  BY <1>5, Bounds
  DEF McpCrash, files, hosts, web, watch, pages, TypeOK, ClockOK
<1>6. CASE Tick
  BY <1>6, OlderTyped, Bounds
  DEF Tick, FilesAge, hosts, web, watch, pages, TypeOK, ClockOK
<1>7. CASE Suspend
  BY <1>7, Bounds
  DEF Suspend, FilesAge, hosts, calls, web, watch, pages, TypeOK, ClockOK
<1>8. ASSUME NEW h \in Hosts, StartHost(h) PROVE ClockOK'
  BY <1>8, Bounds
  DEF StartHost, files, calls, web, watch, pages, TypeOK, ClockOK
<1>9. ASSUME NEW h \in Hosts, StartHostUnheard(h) PROVE ClockOK'
  BY <1>9, Bounds
  DEF StartHostUnheard, files, calls, web, watch, pages, TypeOK, ClockOK
<1>10. ASSUME NEW h \in Hosts, StopHost(h) PROVE ClockOK'
  BY <1>10, Bounds
  DEF StopHost, files, calls, web, watch, TypeOK, ClockOK
<1>11. ASSUME NEW h \in Hosts, Refresh(h) PROVE ClockOK'
  BY <1>11, Bounds
  DEF Refresh, files, calls, web, watch, pages, TypeOK, ClockOK
<1>12. ASSUME NEW h \in Hosts, RefreshFails(h) PROVE ClockOK'
  BY <1>12, Bounds
  DEF RefreshFails, files, hosts, calls, web, watch, pages, TypeOK, ClockOK
<1>13. CASE UNCHANGED <<beat, due, misses, suspends, up, heard, starts>>
  BY <1>13 DEF TypeOK, ClockOK
<1> QED
  BY ZenonT(60), <1>1, <1>2, <1>3, <1>4, <1>5, <1>6, <1>7, <1>8, <1>9, <1>10, <1>11, <1>12, <1>13
  DEF Next, vars, Poll, Watch, Listing, Deciding, Claiming, Cleanup, files, clock,
      hosts, calls, web, watch, pages, Claim, Move, Refused, Release, RemoveDecision,
      RemovePending, RunQuery, OpenPending, TakeDecision, CleanupPending,
      CleanupDecision, WatchNext, Register, Disconnect, ClearSession, ClearOwners,
      LoadPage, LeaveBus, Refetch, ListClaim, ListDone, DecideAuthorize, DecideClaim,
      WatchAuthorize, ListAuthorize, WatchPoll, WatchRelease, WatchClaim, WatchEmit,
      RefetchDesktop, DecideMissing, Decide, OpenDecision, WriteDecision, DecideDone

\* The state of the web host keeps its types.
LEMMA WebStep == TypeOK /\ [Next]_vars => WebOK'
<1> SUFFICES ASSUME TypeOK, [Next]_vars PROVE WebOK'
  OBVIOUS
<1>1. ASSUME NEW s \in Sessions, NEW c \in Connections, Register(s, c) PROVE WebOK'
  BY <1>1, Bounds
  DEF Register, Move, files, clock, hosts, calls, web, watch, pages, TypeOK, WebOK
<1>2. ASSUME NEW s \in Sessions, NEW c \in Connections, Disconnect(s, c) PROVE WebOK'
  BY <1>2, Bounds
  DEF Disconnect, Move, files, clock, hosts, calls, watch, pages, TypeOK, WebOK
<1>3. ASSUME NEW s \in Sessions, ClearSession(s) PROVE WebOK'
  BY <1>3, Bounds
  DEF ClearSession, Move, files, clock, hosts, calls, web, watch, TypeOK, WebOK
<1>4. ASSUME NEW s \in Sessions, ClearOwners(s) PROVE WebOK'
  BY <1>4, Bounds
  DEF ClearOwners, files, clock, hosts, calls, watch, pages, TypeOK, WebOK
<1>5. ASSUME NEW s \in Sessions, LoadPage(s) PROVE WebOK'
  BY <1>5, Bounds
  DEF LoadPage, Move, files, clock, hosts, calls, web, watch, TypeOK, WebOK
<1>6. ASSUME NEW s \in Sessions, LeaveBus(s) PROVE WebOK'
  BY <1>6, Bounds
  DEF LeaveBus, Move, files, clock, hosts, calls, watch, pages, TypeOK, WebOK
<1>7. ASSUME NEW s \in Sessions, ListClaim(s) PROVE WebOK'
  BY <1>7, Bounds
  DEF ListClaim, Claim, files, clock, hosts, calls, watch, TypeOK, WebOK
<1>8. ASSUME NEW s \in Sessions, DecideClaim(s) PROVE WebOK'
  BY <1>8, Bounds
  DEF DecideClaim, Claim, Refused, files, clock, hosts, watch, TypeOK, WebOK
<1>9. CASE WatchRelease
  <2>1. /\ UNCHANGED <<active, lifetime, onBus, moves>>
        /\ \/ UNCHANGED owners
           \/ owners' = [owners EXCEPT ![watcher.id] =
                            IF @ = delivered[watcher.id] THEN NoOne ELSE @]
    BY <1>9 DEF WatchRelease, Release
  <2> QED
    BY <2>1 DEF TypeOK, WebOK
<1>10. CASE WatchClaim
  <2>1. watcher.to \in Sessions
    BY <1>10 DEF WatchClaim, TypeOK, WatchOK, OnDuty
  <2>2. /\ UNCHANGED <<active, lifetime, onBus, moves>>
        /\ UNCHANGED owners \/ owners' = [owners EXCEPT ![watcher.id] = watcher.to]
    BY <1>10 DEF WatchClaim, Claim
  <2> QED
    BY <2>1, <2>2 DEF TypeOK, WebOK
<1>11. CASE WatchEmit
  BY <1>11, Bounds
  DEF WatchEmit, Release, files, clock, hosts, calls, TypeOK, WebOK
<1>12. ASSUME NEW u \in Users, DecideDone(u) PROVE WebOK'
  BY <1>12, Bounds
  DEF DecideDone, files, clock, hosts, calls, watch, TypeOK, WebOK
<1>13. ASSUME NEW h \in Hosts, StopHost(h) PROVE WebOK'
  BY <1>13, Bounds
  DEF StopHost, files, calls, web, watch, TypeOK, WebOK
<1>14. CASE UNCHANGED <<active, owners, lifetime, onBus, moves>>
  BY <1>14 DEF TypeOK, WebOK
<1> QED
  BY ZenonT(60), <1>1, <1>2, <1>3, <1>4, <1>5, <1>6, <1>7, <1>8, <1>9, <1>10, <1>11, <1>12, <1>13,
     <1>14
  DEF Next, vars, Poll, Watch, Listing, Deciding, Claiming, Cleanup, files, clock,
      hosts, calls, web, watch, pages, FilesAge, Refused, RemoveDecision,
      RemovePending, RunQuery, OpenPending, WritePending, EnqueueFails, ReadDecision,
      TakeDecision, CheckHost, McpCrash, CleanupPending, CleanupDecision, WatchNext,
      Refetch, ListDone, DecideAuthorize, WatchAuthorize, ListAuthorize, WatchPoll,
      RefetchDesktop, Tick, Suspend, DecideMissing, Decide, OpenDecision,
      WriteDecision, StartHost, StartHostUnheard, Refresh, RefreshFails

\* The state of the watcher keeps its types.
LEMMA WatchStep == TypeOK /\ [Next]_vars => WatchOK'
<1> SUFFICES ASSUME TypeOK, [Next]_vars PROVE WatchOK'
  OBVIOUS
<1>1. ASSUME NEW r \in Requests, WatchNext(r) PROVE WatchOK'
  <2>1. watcher \in Rounds
    BY DEF TypeOK, WatchOK
  <2>2. NextApproval(watcher.todo \ {r}) \in {w \in Rounds : OnDuty(w)}
    BY <2>1, NextApprovalTyped DEF Rounds
  <2>3. [watcher EXCEPT !.step = "release", !.id = r, !.todo = @ \ {r}, !.left = Authorized(r)]
            \in {w \in Rounds : OnDuty(w)}
    BY <2>1 DEF Rounds, OnDuty, Authorized
  <2> QED
    BY <1>1, <2>2, <2>3 DEF WatchNext, TypeOK, WatchOK
<1>2. ASSUME NEW s \in Sessions, WatchAuthorize(s) PROVE WatchOK'
  BY <1>2
  DEF WatchAuthorize, files, clock, hosts, calls, web, pages, TypeOK, WatchOK, Rounds,
      OnDuty, Authorized
<1>3. CASE WatchPoll
  <2>1. Asleep \in {w \in Rounds : OnDuty(w)}
    BY DEF Asleep, Rounds, OnDuty
  <2>2. [Asleep EXCEPT !.step = "next", !.todo = Listed] \in {w \in Rounds : OnDuty(w)}
    BY DEF Asleep, Rounds, OnDuty, Listed
  <2> QED
    BY <1>3, <2>1, <2>2 DEF WatchPoll, TypeOK, WatchOK
<1>4. CASE WatchRelease
  <2>1. watcher' \in {w \in Rounds : OnDuty(w)}
    BY <1>4, TryNextTyped DEF WatchRelease, TypeOK
  <2> QED
    BY <1>4, <2>1 DEF WatchRelease, TypeOK, WatchOK
<1>5. CASE WatchClaim
  <2>1. TryNext \in {w \in Rounds : OnDuty(w)}
    BY <1>5, TryNextTyped DEF WatchClaim, TypeOK
  <2>2. [watcher EXCEPT !.step = "emit"] \in {w \in Rounds : OnDuty(w)}
    BY <1>5 DEF WatchClaim, TypeOK, WatchOK, Rounds, OnDuty
  <2> QED
    BY <1>5, <2>1, <2>2 DEF WatchClaim, TypeOK, WatchOK
<1>6. CASE WatchEmit
  <2>1. watcher \in Rounds /\ OnDuty(watcher)
    BY DEF TypeOK, WatchOK
  <2>2. NextApproval(watcher.todo) \in {w \in Rounds : OnDuty(w)}
    BY <2>1, NextApprovalTyped DEF Rounds
  <2>3. TryNext \in {w \in Rounds : OnDuty(w)}
    BY <1>6, TryNextTyped DEF WatchEmit, TypeOK
  <2>4. watcher' \in {w \in Rounds : OnDuty(w)}
    BY <1>6, <2>2, <2>3 DEF WatchEmit
  <2>5. /\ watcher.to \in Sessions
        /\ UNCHANGED delivered \/ delivered' = [delivered EXCEPT ![watcher.id] = watcher.to]
    BY <1>6, <2>1 DEF WatchEmit, OnDuty
  <2> QED
    BY <2>4, <2>5 DEF TypeOK, WatchOK
<1>7. ASSUME NEW h \in Hosts, StopHost(h) PROVE WatchOK'
  BY <1>7
  DEF StopHost, files, calls, web, watch, TypeOK, WatchOK, Rounds, OnDuty, Asleep
<1>8. CASE UNCHANGED <<delivered, watcher>>
  BY <1>8 DEF TypeOK, WatchOK
<1> QED
  BY ZenonT(60), <1>1, <1>2, <1>3, <1>4, <1>5, <1>6, <1>7, <1>8
  DEF Next, vars, Poll, Watch, Listing, Deciding, Claiming, Cleanup, files, clock,
      hosts, calls, web, watch, pages, Claim, FilesAge, Move, Refused, RemoveDecision,
      RemovePending, RunQuery, OpenPending, WritePending, EnqueueFails, ReadDecision,
      TakeDecision, CheckHost, McpCrash, CleanupPending, CleanupDecision, Register,
      Disconnect, ClearSession, ClearOwners, LoadPage, LeaveBus, Refetch, ListClaim,
      ListDone, DecideAuthorize, DecideClaim, ListAuthorize, RefetchDesktop, Tick,
      Suspend, DecideMissing, Decide, OpenDecision, WriteDecision, DecideDone,
      StartHost, StartHostUnheard, Refresh, RefreshFails

\* The calls keep their types.
LEMMA CallsStep == TypeOK /\ [Next]_vars => CallsOK'
<1> SUFFICES ASSUME TypeOK, [Next]_vars PROVE CallsOK'
  OBVIOUS
<1>1. ASSUME NEW r \in Requests, NEW q \in Queries, RunQuery(r, q) PROVE CallsOK'
  BY <1>1, Bounds
  DEF RunQuery, files, clock, hosts, web, watch, pages, TypeOK, CallsOK, Calls,
      Waiting, Finished, FirstPhase, Runs, NotRun, Run, Queries, RunReadOnly,
      NeedsApproval
<1>2. ASSUME NEW r \in Requests, OpenPending(r) PROVE CallsOK'
  BY <1>2, Bounds
  DEF OpenPending, clock, hosts, web, watch, pages, TypeOK, CallsOK, Calls, Waiting,
      Finished
<1>3. ASSUME NEW r \in Requests, WritePending(r) PROVE CallsOK'
  BY <1>3, Bounds
  DEF WritePending, hosts, web, watch, pages, TypeOK, CallsOK, Calls, Waiting, Finished
<1>4. ASSUME NEW r \in Requests, EnqueueFails(r) PROVE CallsOK'
  BY <1>4, Bounds
  DEF EnqueueFails, files, hosts, web, watch, pages, TypeOK, CallsOK, Calls, Waiting,
      Finished
<1>5. ASSUME NEW r \in Requests, ReadDecision(r) PROVE CallsOK'
  <2>1. call[r] \in Calls
    BY DEF TypeOK, CallsOK
  <2>2. /\ [call[r] EXCEPT !.phase = "checking"] \in Calls
        /\ [call[r] EXCEPT !.phase = "error"] \in Calls
    BY <2>1 DEF Calls, Waiting, Finished
  <2>3. decision[r] \in Decisions =>
            [call[r] EXCEPT !.phase = "taken", !.verdict = decision[r]] \in Calls
    BY <2>1 DEF Calls, Waiting
  <2>4. decision[r] \in {"absent", "torn"} \cup Decisions
    BY DEF TypeOK, FilesOK
  <2>5. call' \in [Requests -> Calls]
    BY <1>5, <2>2, <2>3, <2>4 DEF ReadDecision, TypeOK, CallsOK
  <2>6. UNCHANGED verdicts /\ (UNCHANGED waited \/ waited' = [waited EXCEPT ![r] = 0])
    BY <1>5 DEF ReadDecision
  <2> QED
    BY <2>5, <2>6, Bounds DEF TypeOK, CallsOK
<1>6. ASSUME NEW r \in Requests, TakeDecision(r) PROVE CallsOK'
  <2> DEFINE q == call[r].query
             d == call[r].verdict
             phase == PhaseAfter(q, d)
             ran == IF phase = "ran" THEN Run(q, EffectiveKind(q, d)) ELSE NotRun
  <2>1. call[r] \in Calls
    BY DEF TypeOK, CallsOK
  <2>2. q \in Queries
    BY <2>1 DEF Calls
  <2>3. phase \in Finished
    BY DEF PhaseAfter, Finished
  <2>4. EffectiveKind(q, d) \in Kinds
    BY <2>2 DEF EffectiveKind, Queries
  <2>5. RunReadOnly(q) \in BOOLEAN
    BY <2>2 DEF RunReadOnly, NeedsApproval, Queries
  <2>6. ran \in Runs
    BY <2>4, <2>5 DEF Runs, Run, NotRun
  <2>7. [call[r] EXCEPT !.phase = phase, !.ran = ran] \in Calls
    <3> HIDE DEF phase, ran
    <3> QED BY <2>1, <2>3, <2>6 DEF Calls
  <2> QED
    BY <1>6, <2>7 DEF TakeDecision, TypeOK, CallsOK
<1>7. ASSUME NEW r \in Requests, CheckHost(r) PROVE CallsOK'
  BY <1>7, Bounds
  DEF CheckHost, RemovePending, hosts, web, watch, pages, TypeOK, CallsOK, Calls,
      Waiting, Finished
<1>8. ASSUME NEW r \in Requests, McpCrash(r) PROVE CallsOK'
  BY <1>8, Bounds
  DEF McpCrash, files, hosts, web, watch, pages, TypeOK, CallsOK, Calls, Waiting,
      Finished
<1>9. ASSUME NEW s \in Sessions, DecideClaim(s) PROVE CallsOK'
  BY <1>9, Bounds
  DEF DecideClaim, Claim, Refused, files, clock, hosts, watch, TypeOK, CallsOK,
      PagesOK, Answering, Users
<1>10. CASE Tick
  BY <1>10, Bounds
  DEF Tick, FilesAge, hosts, web, watch, pages, TypeOK, CallsOK
<1>11. ASSUME NEW u \in Users, NEW r \in Requests, NEW d \in Decisions, Decide(u, r, d) PROVE CallsOK'
  BY <1>11, Bounds
  DEF Decide, files, clock, hosts, web, watch, TypeOK, CallsOK
<1>12. CASE UNCHANGED <<call, waited, verdicts>>
  BY <1>12 DEF TypeOK, CallsOK
<1> QED
  BY ZenonT(60), <1>1, <1>2, <1>3, <1>4, <1>5, <1>6, <1>7, <1>8, <1>9, <1>10, <1>11, <1>12
  DEF Next, vars, Poll, Watch, Listing, Deciding, Claiming, Cleanup, files, clock,
      hosts, calls, web, watch, pages, Claim, FilesAge, Move, Refused, Release,
      RemoveDecision, RemovePending, CleanupPending, CleanupDecision, WatchNext,
      Register, Disconnect, ClearSession, ClearOwners, LoadPage, LeaveBus, Refetch,
      ListClaim, ListDone, DecideAuthorize, WatchAuthorize, ListAuthorize, WatchPoll,
      WatchRelease, WatchClaim, WatchEmit, RefetchDesktop, Suspend, DecideMissing,
      OpenDecision, WriteDecision, DecideDone, StartHost, StartHostUnheard, StopHost,
      Refresh, RefreshFails

\* The pages and the handlers at work for them keep their types.
LEMMA PagesStep == TypeOK /\ [Next]_vars => PagesOK'
<1> SUFFICES ASSUME TypeOK, [Next]_vars PROVE PagesOK'
  OBVIOUS
<1>1. ASSUME NEW r \in Requests, ReadDecision(r) PROVE PagesOK'
  <2>1. UNCHANGED <<notified, listing, shown>> /\ (UNCHANGED deciding \/ RemoveDecision(r))
    BY <1>1 DEF ReadDecision
  <2> QED
    BY <2>1, RemoveDecisionTyped DEF TypeOK, PagesOK
<1>2. ASSUME NEW r \in Requests, CleanupDecision(r) PROVE PagesOK'
  BY <1>2, RemoveDecisionTyped
  DEF CleanupDecision, RemoveDecision, clock, hosts, calls, web, watch, TypeOK, PagesOK
<1>3. ASSUME NEW s \in Sessions, ClearSession(s) PROVE PagesOK'
  BY <1>3
  DEF ClearSession, Move, files, clock, hosts, calls, web, watch, TypeOK, PagesOK
<1>4. ASSUME NEW s \in Sessions, LoadPage(s) PROVE PagesOK'
  BY <1>4
  DEF LoadPage, Move, files, clock, hosts, calls, web, watch, TypeOK, PagesOK
<1>5. ASSUME NEW s \in Sessions, Refetch(s) PROVE PagesOK'
  BY <1>5
  DEF Refetch, files, clock, hosts, calls, web, watch, TypeOK, PagesOK, Lists, AtWork,
      NoList, Listed
<1>6. ASSUME NEW s \in Sessions, ListClaim(s) PROVE PagesOK'
  <2> DEFINE l == listing[s]
             next(found) == [NoList EXCEPT !.step = "next", !.todo = l.todo, !.found = found]
  <2>1. l \in Lists /\ AtWork(l) /\ l.id \in Requests
    BY <1>6 DEF ListClaim, TypeOK, PagesOK, AtWork
  <2>2. \A found \in SUBSET Requests : next(found) \in {k \in Lists : AtWork(k)}
    BY <2>1 DEF NoList, Lists, AtWork
  <2>3. l.found \in SUBSET Requests /\ l.found \cup {l.id} \in SUBSET Requests
    BY <2>1 DEF Lists
  <2>4. /\ UNCHANGED <<notified, shown, deciding>>
        /\ \/ listing' = [listing EXCEPT ![s] = next(l.found)]
           \/ listing' = [listing EXCEPT ![s] = next(l.found \cup {l.id})]
    BY <1>6 DEF ListClaim
  <2> HIDE DEF l, next
  <2> QED
    BY <2>2, <2>3, <2>4 DEF TypeOK, PagesOK
<1>7. ASSUME NEW s \in Sessions, ListDone(s) PROVE PagesOK'
  BY <1>7
  DEF ListDone, files, clock, hosts, calls, web, watch, TypeOK, PagesOK, Lists, AtWork,
      NoList, Users
<1>8. ASSUME NEW s \in Sessions, DecideAuthorize(s) PROVE PagesOK'
  BY ZenonT(60), <1>8
  DEF DecideAuthorize, files, clock, hosts, calls, web, watch, TypeOK, PagesOK,
      Answers, Answering, Users, Authorized
<1>9. ASSUME NEW s \in Sessions, DecideClaim(s) PROVE PagesOK'
  <2>1. deciding[s] \in Answers /\ Answering(deciding[s])
    BY DEF TypeOK, PagesOK, Users
  <2>2. [deciding[s] EXCEPT !.step = "open", !.auth = {}] \in {a \in Answers : Answering(a)}
    BY <1>9, <2>1 DEF DecideClaim, Answers, Answering
  <2>3. NoDecision \in {a \in Answers : Answering(a)}
    BY DEF NoDecision, Answers, Answering
  <2>4. deciding' \in [Users -> {a \in Answers : Answering(a)}]
    BY <1>9, <2>2, <2>3 DEF DecideClaim, TypeOK, PagesOK
  <2>5. UNCHANGED listing
    BY <1>9 DEF DecideClaim
  <2>6. UNCHANGED <<notified, shown>> \/ Refused(s)
    BY <1>9 DEF DecideClaim
  <2>7. shown' \in [Users -> SUBSET Requests] /\ notified' \subseteq Sessions
    BY <2>6 DEF Refused, Listed, TypeOK, PagesOK
  <2> QED
    BY <2>4, <2>5, <2>7 DEF TypeOK, PagesOK
<1>10. ASSUME NEW s \in Sessions, NEW r \in Requests, ListAuthorize(s, r) PROVE PagesOK'
  <2>1. listing[s] \in Lists
    BY DEF TypeOK, PagesOK
  <2>2. [listing[s] EXCEPT !.step = "claim", !.id = r, !.todo = listing[s].todo \ {r},
                             !.auth = Authorized(r)]
            \in {l \in Lists : AtWork(l)}
    BY <2>1 DEF Lists, AtWork, Authorized
  <2>3. listing' \in [Sessions -> {l \in Lists : AtWork(l)}]
    BY <1>10, <2>2 DEF ListAuthorize, TypeOK, PagesOK
  <2>4. UNCHANGED <<notified, shown, deciding>>
    BY <1>10 DEF ListAuthorize
  <2> QED
    BY <2>3, <2>4 DEF TypeOK, PagesOK
<1>11. CASE WatchEmit
  BY <1>11
  DEF WatchEmit, Release, files, clock, hosts, calls, TypeOK, PagesOK, WatchOK, OnDuty
<1>12. CASE RefetchDesktop
  BY <1>12
  DEF RefetchDesktop, files, clock, hosts, calls, web, watch, TypeOK, PagesOK, Users,
      Listed
<1>13. ASSUME NEW u \in Users, NEW r \in Requests, DecideMissing(u, r) PROVE PagesOK'
  BY <1>13
  DEF DecideMissing, Refused, files, clock, hosts, calls, web, watch, TypeOK, PagesOK,
      Users, Listed
<1>14. ASSUME NEW u \in Users, NEW r \in Requests, NEW d \in Decisions, Decide(u, r, d) PROVE PagesOK'
  BY <1>14
  DEF Decide, files, clock, hosts, web, watch, TypeOK, PagesOK, Answers, Answering,
      Users, NoDecision
<1>15. ASSUME NEW u \in Users, OpenDecision(u) PROVE PagesOK'
  BY <1>15
  DEF OpenDecision, clock, hosts, calls, web, watch, TypeOK, PagesOK, Answers,
      Answering
<1>16. ASSUME NEW u \in Users, WriteDecision(u) PROVE PagesOK'
  BY <1>16
  DEF WriteDecision, clock, hosts, calls, web, watch, TypeOK, PagesOK, Answers,
      Answering
<1>17. ASSUME NEW u \in Users, DecideDone(u) PROVE PagesOK'
  BY <1>17
  DEF DecideDone, files, clock, hosts, calls, watch, TypeOK, PagesOK, Answers,
      Answering, NoDecision
<1>18. ASSUME NEW h \in Hosts, StopHost(h) PROVE PagesOK'
  BY <1>18
  DEF StopHost, files, calls, web, watch, TypeOK, PagesOK, Answers, Answering, Users,
      NoDecision, Lists, AtWork, NoList
<1>19. CASE UNCHANGED <<notified, listing, shown, deciding>>
  BY <1>19 DEF TypeOK, PagesOK
<1> QED
  BY ZenonT(60), <1>1, <1>2, <1>3, <1>4, <1>5, <1>6, <1>7, <1>8, <1>9, <1>10, <1>11, <1>12, <1>13,
     <1>14, <1>15, <1>16, <1>17, <1>18, <1>19
  DEF Next, vars, Poll, Watch, Listing, Deciding, Claiming, Cleanup, files, clock,
      hosts, calls, web, watch, pages, Claim, FilesAge, Move, Release, RemovePending,
      RunQuery, OpenPending, WritePending, EnqueueFails, TakeDecision, CheckHost,
      McpCrash, CleanupPending, WatchNext, Register, Disconnect, ClearOwners, LeaveBus,
      WatchAuthorize, WatchPoll, WatchRelease, WatchClaim, Tick, Suspend, StartHost,
      StartHostUnheard, Refresh, RefreshFails

\* Every query is one that a call may carry, whether or not it has begun.
LEMMA AnyQueryTyped == AnyQuery \in Queries
<1>1. PICK m \in Modes, k \in Kinds, c \in Connections : TRUE
  BY GateAssumption
<1>2. [mode |-> m, readonly |-> FALSE, kind |-> k, conn |-> c] \in Queries
  BY DEF Queries
<1> QED
  BY <1>2 DEF AnyQuery

\* The types hold when nothing has happened yet.
LEMMA InitTyped == Init => TypeOK
<1> SUFFICES ASSUME Init PROVE TypeOK
  OBVIOUS
<1>1. FilesOK /\ ClockOK
  BY Bounds DEF Init, FilesOK, ClockOK
<1>2. Idle \in Calls
  BY AnyQueryTyped DEF Idle, Calls, Runs, NotRun
<1>3. CallsOK
  BY <1>2, Bounds DEF Init, CallsOK
<1>4. WebOK
  BY Bounds DEF Init, WebOK
<1>5. WatchOK
  BY DEF Init, WatchOK, Asleep, Rounds, OnDuty
<1>6. PagesOK
  BY DEF Init, PagesOK, NoList, Lists, AtWork, NoDecision, Answers, Answering
<1> QED
  BY <1>1, <1>3, <1>4, <1>5, <1>6 DEF TypeOK

\* Type correctness, for every number of calls, sessions and connections, and
\* for every timeout: in particular a handler that goes on after a lock or a file
\* operation still knows the approval it works on.
THEOREM GateTyped == Spec => []TypeOK
<1>1. TypeOK /\ [Next]_vars => TypeOK'
  BY FilesStep, ClockStep, CallsStep, WebStep, WatchStep, PagesStep DEF TypeOK
<1> QED
  BY <1>1, InitTyped, PTL DEF Spec

(***************************************************************************)
(* Consent.                                                                *)
(***************************************************************************)

\* A call that waits for a decision is one that needs it, and one that
\* read-only mode would have let through.
Asked ==
    \A r \in Requests : call[r].phase \in Waiting =>
        NeedsApproval(call[r].query) /\ ~Forbidden(call[r].query, call[r].query.kind)

\* A decision of an entitled user is behind every answer that is being written,
\* every decision file that parses, and every decision that a call has taken.
Backed ==
    /\ \A u \in Users : deciding[u].step \in {"open", "write", "forget"} =>
           deciding[u].verdict \in verdicts[deciding[u].id]
    /\ \A r \in Requests : decision[r] \in Decisions => decision[r] \in verdicts[r]
    /\ \A r \in Requests : call[r].phase = "taken" =>
           call[r].verdict \in verdicts[r] \cap Decisions

\* What the provers need to know of decisions and kinds.
LEMMA DecisionsApart ==
    /\ "absent" \notin Decisions /\ "torn" \notin Decisions
    /\ \A d \in Decisions : d \in Kinds \/ d = "deny" \/ d = "approve"
    /\ \A d \in Decisions : d = "deny" => d \notin Kinds
BY GateAssumption

\* How a statement is executed.
LEMMA RunIs ==
    ASSUME NEW q, NEW kind
    PROVE Run(q, kind).kind = kind /\ (RunReadOnly(q) => Run(q, kind).readonly)
BY Zenon DEF Run

\* What becomes of a call that begins.
LEMMA RunQueryCall ==
    ASSUME TypeOK, NEW r \in Requests, NEW q \in Queries, RunQuery(r, q)
    PROVE /\ \A o \in Requests \ {r} : call'[o] = call[o]
          /\ call'[r].query = q /\ call'[r].phase = FirstPhase(q)
          /\ FirstPhase(q) = "ran" => call'[r].ran = Run(q, q.kind)
          /\ FirstPhase(q) \in {"blocked", "ran", "queueing", "unavailable"}
BY DEF RunQuery, TypeOK, CallsOK, Calls, FirstPhase

\* What becomes of a call that reads the decision file.
LEMMA ReadDecisionCall ==
    ASSUME TypeOK, NEW r \in Requests, ReadDecision(r)
    PROVE /\ call[r].phase = "polling"
          /\ \A o \in Requests \ {r} : call'[o] = call[o]
          /\ call'[r].query = call[r].query /\ call'[r].ran = call[r].ran
          /\ call'[r].phase \in {"checking", "error", "taken"}
          /\ (call'[r].phase = "checking") <=> (decision[r] = "absent")
          /\ call'[r].phase = "taken" =>
                 call'[r].verdict = decision[r] /\ decision[r] \in Decisions
<1>1. call \in [Requests -> Calls] /\ call[r].phase = "polling"
  BY DEF TypeOK, CallsOK, ReadDecision
<1>2. decision[r] \in {"absent", "torn"} \cup Decisions
  BY DEF TypeOK, FilesOK
<1>3. CASE decision[r] = "absent"
  BY <1>1, <1>3 DEF ReadDecision, Calls
<1>4. CASE decision[r] = "torn"
  BY <1>1, <1>4 DEF ReadDecision, Calls
<1>5. CASE decision[r] \in Decisions
  <2>1. call' = [call EXCEPT ![r] = [@ EXCEPT !.phase = "taken", !.verdict = decision[r]]]
    BY <1>5, DecisionsApart DEF ReadDecision
  <2> QED
    BY <1>1, <1>5, <2>1, DecisionsApart DEF Calls
<1> QED
  BY <1>2, <1>3, <1>4, <1>5

\* What becomes of a call that has taken a decision.
LEMMA TakeDecisionCall ==
    ASSUME TypeOK, NEW r \in Requests, TakeDecision(r)
    PROVE LET q == call[r].query
              d == call[r].verdict IN
          /\ call[r].phase = "taken"
          /\ \A o \in Requests \ {r} : call'[o] = call[o]
          /\ call'[r].query = q /\ call'[r].phase = PhaseAfter(q, d)
          /\ PhaseAfter(q, d) = "ran" => call'[r].ran = Run(q, EffectiveKind(q, d))
          /\ PhaseAfter(q, d) \in {"denied", "blocked", "ran"}
<1> DEFINE q == call[r].query
           d == call[r].verdict
<1>1. call \in [Requests -> Calls] /\ call[r].phase = "taken"
  BY DEF TypeOK, CallsOK, TakeDecision
<1>2. PhaseAfter(q, d) \in {"denied", "blocked", "ran"}
  BY DEF PhaseAfter
<1>3. call' = [call EXCEPT ![r] = [@ EXCEPT !.phase = PhaseAfter(q, d),
                   !.ran = IF PhaseAfter(q, d) = "ran" THEN Run(q, EffectiveKind(q, d)) ELSE NotRun]]
  BY DEF TakeDecision
<1> QED
  BY <1>1, <1>2, <1>3 DEF Calls

\* No step lets a call wait that need not, or must not.
LEMMA AskedStep == TypeOK /\ Asked /\ [Next]_vars => Asked'
<1> SUFFICES ASSUME TypeOK /\ Asked, [Next]_vars PROVE Asked'
  OBVIOUS
<1>1. ASSUME NEW r \in Requests, NEW q \in Queries, RunQuery(r, q) PROVE Asked'
  BY <1>1
  DEF RunQuery, files, clock, hosts, web, watch, pages, TypeOK, CallsOK, Calls,
      Waiting, Asked, FirstPhase, Waiting, CallsOK, Calls
<1>2. ASSUME NEW r \in Requests, OpenPending(r) PROVE Asked'
  BY <1>2
  DEF OpenPending, clock, hosts, web, watch, pages, TypeOK, CallsOK, Calls, Waiting,
      Asked
<1>3. ASSUME NEW r \in Requests, WritePending(r) PROVE Asked'
  BY <1>3
  DEF WritePending, hosts, web, watch, pages, TypeOK, CallsOK, Calls, Waiting, Asked
<1>4. ASSUME NEW r \in Requests, EnqueueFails(r) PROVE Asked'
  BY <1>4
  DEF EnqueueFails, files, hosts, web, watch, pages, TypeOK, CallsOK, Calls, Waiting,
      Asked
<1>5. ASSUME NEW r \in Requests, ReadDecision(r) PROVE Asked'
  BY <1>5, ReadDecisionCall DEF Waiting, Asked
<1>6. ASSUME NEW r \in Requests, TakeDecision(r) PROVE Asked'
  <2>1. PhaseAfter(call[r].query, call[r].verdict) \notin Waiting
    BY DEF PhaseAfter, Waiting
  <2> QED
    BY <1>6, <2>1 DEF TakeDecision, TypeOK, CallsOK, Calls, Asked
<1>7. ASSUME NEW r \in Requests, CheckHost(r) PROVE Asked'
  BY <1>7
  DEF CheckHost, RemovePending, hosts, web, watch, pages, TypeOK, CallsOK, Calls,
      Waiting, Asked
<1>8. ASSUME NEW r \in Requests, McpCrash(r) PROVE Asked'
  BY <1>8
  DEF McpCrash, files, hosts, web, watch, pages, TypeOK, CallsOK, Calls, Waiting, Asked
<1>9. CASE UNCHANGED <<call>>
  BY <1>9 DEF TypeOK, CallsOK, Calls, Waiting, Asked
<1> QED
  BY ZenonT(60), <1>1, <1>2, <1>3, <1>4, <1>5, <1>6, <1>7, <1>8, <1>9
  DEF Next, vars, Poll, Watch, Listing, Deciding, Claiming, Cleanup, files, clock,
      hosts, calls, web, watch, pages, Claim, FilesAge, Move, Refused, Release,
      RemoveDecision, RemovePending, CleanupPending, CleanupDecision, WatchNext,
      Register, Disconnect, ClearSession, ClearOwners, LoadPage, LeaveBus, Refetch,
      ListClaim, ListDone, DecideAuthorize, DecideClaim, WatchAuthorize, ListAuthorize,
      WatchPoll, WatchRelease, WatchClaim, WatchEmit, RefetchDesktop, Tick, Suspend,
      DecideMissing, Decide, OpenDecision, WriteDecision, DecideDone, StartHost,
      StartHostUnheard, StopHost, Refresh, RefreshFails

\* No step writes, finds or takes an answer that no entitled user gave.
LEMMA BackedStep == TypeOK /\ Backed /\ [Next]_vars => Backed'
<1> SUFFICES ASSUME TypeOK /\ Backed, [Next]_vars PROVE Backed'
  OBVIOUS
<1>1. ASSUME NEW r \in Requests, NEW q \in Queries, RunQuery(r, q) PROVE Backed'
  BY <1>1, RunQueryCall DEF RunQuery, files, pages, Backed
<1>2. ASSUME NEW r \in Requests, OpenPending(r) PROVE Backed'
  BY <1>2, DecisionsApart
  DEF OpenPending, clock, hosts, web, watch, pages, TypeOK, FilesOK, CallsOK, Calls,
      PagesOK, Answers, Answering, Backed
<1>3. ASSUME NEW r \in Requests, WritePending(r) PROVE Backed'
  BY <1>3, DecisionsApart
  DEF WritePending, hosts, web, watch, pages, TypeOK, FilesOK, CallsOK, Calls, PagesOK,
      Answers, Answering, Backed
<1>4. ASSUME NEW r \in Requests, EnqueueFails(r) PROVE Backed'
  BY <1>4, DecisionsApart
  DEF EnqueueFails, files, hosts, web, watch, pages, TypeOK, FilesOK, CallsOK, Calls,
      PagesOK, Answers, Answering, Backed
<1>5. ASSUME NEW r \in Requests, ReadDecision(r) PROVE Backed'
  <2>1. \A o \in Requests : decision'[o] = decision[o] \/ decision'[o] = "absent"
    BY <1>5 DEF ReadDecision, RemoveDecision, TypeOK, FilesOK
  <2>2. ASSUME NEW u \in Users
        PROVE /\ deciding'[u].step = deciding[u].step /\ deciding'[u].id = deciding[u].id
              /\ deciding'[u].verdict = deciding[u].verdict
    BY <1>5 DEF ReadDecision, RemoveDecision, TypeOK, PagesOK, Answers
  <2>3. UNCHANGED verdicts
    BY <1>5 DEF ReadDecision
  <2> QED
    BY <1>5, <2>1, <2>2, <2>3, ReadDecisionCall, DecisionsApart DEF Backed
<1>6. ASSUME NEW r \in Requests, TakeDecision(r) PROVE Backed'
  BY <1>6, DecisionsApart
  DEF TakeDecision, RemovePending, clock, hosts, web, watch, pages, TypeOK, FilesOK,
      CallsOK, Calls, PagesOK, Answers, Answering, Backed
<1>7. ASSUME NEW r \in Requests, CheckHost(r) PROVE Backed'
  BY <1>7, DecisionsApart
  DEF CheckHost, RemovePending, hosts, web, watch, pages, TypeOK, FilesOK, CallsOK,
      Calls, PagesOK, Answers, Answering, Backed
<1>8. ASSUME NEW r \in Requests, McpCrash(r) PROVE Backed'
  BY <1>8, DecisionsApart
  DEF McpCrash, files, hosts, web, watch, pages, TypeOK, FilesOK, CallsOK, Calls,
      PagesOK, Answers, Answering, Backed
<1>9. ASSUME NEW r \in Requests, CleanupDecision(r) PROVE Backed'
  BY <1>9, DecisionsApart
  DEF CleanupDecision, RemoveDecision, clock, hosts, calls, web, watch, TypeOK,
      FilesOK, CallsOK, Calls, PagesOK, Answers, Answering, Backed
<1>10. ASSUME NEW s \in Sessions, DecideAuthorize(s) PROVE Backed'
  BY <1>10, DecisionsApart
  DEF DecideAuthorize, files, clock, hosts, calls, web, watch, TypeOK, FilesOK,
      CallsOK, Calls, PagesOK, Answers, Answering, Backed
<1>11. ASSUME NEW s \in Sessions, DecideClaim(s) PROVE Backed'
  <2>1. UNCHANGED <<call, decision>>
    BY <1>11 DEF DecideClaim, files
  <2>2. \A o \in Requests : verdicts[o] \subseteq verdicts'[o]
    BY <1>11 DEF DecideClaim, TypeOK, CallsOK
  <2>3. deciding[s] \in Answers /\ Answering(deciding[s]) /\ deciding[s].step = "claim"
    BY <1>11 DEF DecideClaim, TypeOK, PagesOK, Users
  <2>4. \A u \in Users \ {s} : deciding'[u] = deciding[u]
    BY <1>11 DEF DecideClaim, TypeOK, PagesOK
  <2>5. deciding'[s].step \in {"open", "write", "forget"} =>
            deciding'[s].verdict \in verdicts'[deciding'[s].id]
    <3>1. CASE CanClaim(s, deciding[s].id, deciding[s].auth)
      <4>1. deciding'[s] = [deciding[s] EXCEPT !.step = "open", !.auth = {}]
        BY <1>11, <3>1 DEF DecideClaim, TypeOK, PagesOK, Users
      <4>2. deciding[s].verdict \in verdicts'[deciding[s].id]
        BY <1>11, <2>3, <3>1 DEF DecideClaim, TypeOK, CallsOK, Answering
      <4> QED
        BY <2>3, <4>1, <4>2 DEF Answers
    <3>2. CASE ~CanClaim(s, deciding[s].id, deciding[s].auth)
      BY <1>11, <3>2 DEF DecideClaim, NoDecision, TypeOK, PagesOK, Users
    <3> QED
      BY <3>1, <3>2
  <2>6. \A u \in Users : deciding[u].step \in {"open", "write", "forget"} => deciding[u].id \in Requests
    BY DEF TypeOK, PagesOK, Answering
  <2> QED
    BY <2>1, <2>2, <2>4, <2>5, <2>6 DEF Backed
<1>12. ASSUME NEW u \in Users, NEW r \in Requests, NEW d \in Decisions, Decide(u, r, d) PROVE Backed'
  BY <1>12, DecisionsApart
  DEF Decide, files, clock, hosts, web, watch, TypeOK, FilesOK, CallsOK, Calls,
      PagesOK, Answers, Answering, Backed
<1>13. ASSUME NEW u \in Users, OpenDecision(u) PROVE Backed'
  BY <1>13, DecisionsApart
  DEF OpenDecision, clock, hosts, calls, web, watch, TypeOK, FilesOK, CallsOK, Calls,
      PagesOK, Answers, Answering, Backed
<1>14. ASSUME NEW u \in Users, WriteDecision(u) PROVE Backed'
  BY <1>14, DecisionsApart
  DEF WriteDecision, clock, hosts, calls, web, watch, TypeOK, FilesOK, CallsOK, Calls,
      PagesOK, Answers, Answering, Backed
<1>15. ASSUME NEW u \in Users, DecideDone(u) PROVE Backed'
  <2>1. \A v \in Users : deciding'[v] = deciding[v] \/ deciding'[v].step = "idle"
    BY <1>15 DEF DecideDone, NoDecision, TypeOK, PagesOK
  <2> QED
    BY <1>15, <2>1 DEF DecideDone, files, calls, Backed
<1>16. ASSUME NEW h \in Hosts, StopHost(h) PROVE Backed'
  <2>1. \A v \in Users : deciding'[v] = deciding[v] \/ deciding'[v].step = "idle"
    BY <1>16 DEF StopHost, NoDecision
  <2> QED
    BY <1>16, <2>1 DEF StopHost, files, calls, Backed
<1>17. CASE UNCHANGED <<call, decision, verdicts, deciding>>
  BY <1>17 DEF TypeOK, FilesOK, CallsOK, Calls, PagesOK, Answers, Answering, Backed
<1> QED
  BY ZenonT(60), <1>1, <1>2, <1>3, <1>4, <1>5, <1>6, <1>7, <1>8, <1>9, <1>10, <1>11, <1>12, <1>13,
     <1>14, <1>15, <1>16, <1>17
  DEF Next, vars, Poll, Watch, Listing, Deciding, Claiming, Cleanup, files, clock,
      hosts, calls, web, watch, pages, Claim, FilesAge, Move, Refused, Release,
      RemovePending, CleanupPending, WatchNext, Register, Disconnect, ClearSession,
      ClearOwners, LoadPage, LeaveBus, Refetch, ListClaim, ListDone, WatchAuthorize,
      ListAuthorize, WatchPoll, WatchRelease, WatchClaim, WatchEmit, RefetchDesktop,
      Tick, Suspend, DecideMissing, StartHost, StartHostUnheard, Refresh, RefreshFails

\* No step lets a statement run that nobody permitted.
LEMMA UnapprovedStep ==
    TypeOK /\ Asked /\ Backed /\ NothingUnapproved /\ [Next]_vars => NothingUnapproved'
<1> SUFFICES ASSUME TypeOK /\ Asked /\ Backed /\ NothingUnapproved, [Next]_vars PROVE NothingUnapproved'
  OBVIOUS
<1>1. ASSUME NEW r \in Requests, NEW q \in Queries, RunQuery(r, q) PROVE NothingUnapproved'
  <2> DEFINE new == call'[r]
  <2>1. UNCHANGED verdicts
    BY <1>1 DEF RunQuery
  <2>2. CASE FirstPhase(q) # "ran"
    BY <1>1, <2>1, <2>2, RunQueryCall DEF NothingUnapproved
  <2>3. CASE FirstPhase(q) = "ran"
    <3>1. ~Forbidden(q, q.kind) /\ ~NeedsApproval(q)
      BY <2>3 DEF FirstPhase
    <3>2. new.query = q /\ new.ran = Run(q, q.kind)
      BY <1>1, <2>3, RunQueryCall
    <3>3. /\ q.readonly => q.kind = "select" /\ RunReadOnly(q)
          /\ q.mode # "off" => q.kind = "select" /\ RunReadOnly(q)
      BY <3>1, GateAssumption DEF Forbidden, NeedsApproval, RunReadOnly, Queries
    <3> QED
      BY <1>1, <2>1, <3>2, <3>3, RunQueryCall, RunIs DEF NothingUnapproved
  <2> QED
    BY <2>2, <2>3
<1>2. ASSUME NEW r \in Requests, OpenPending(r) PROVE NothingUnapproved'
  BY <1>2, DecisionsApart
  DEF OpenPending, clock, hosts, web, watch, pages, TypeOK, CallsOK, Calls,
      NothingUnapproved
<1>3. ASSUME NEW r \in Requests, WritePending(r) PROVE NothingUnapproved'
  BY <1>3, DecisionsApart
  DEF WritePending, hosts, web, watch, pages, TypeOK, CallsOK, Calls, NothingUnapproved
<1>4. ASSUME NEW r \in Requests, EnqueueFails(r) PROVE NothingUnapproved'
  BY <1>4, DecisionsApart
  DEF EnqueueFails, files, hosts, web, watch, pages, TypeOK, CallsOK, Calls,
      NothingUnapproved
<1>5. ASSUME NEW r \in Requests, ReadDecision(r) PROVE NothingUnapproved'
  <2>1. UNCHANGED verdicts
    BY <1>5 DEF ReadDecision
  <2> QED
    BY <1>5, <2>1, ReadDecisionCall DEF NothingUnapproved
<1>6. ASSUME NEW r \in Requests, TakeDecision(r) PROVE NothingUnapproved'
  <2> DEFINE q == call[r].query
             d == call[r].verdict
             new == call'[r]
  <2>1. UNCHANGED verdicts
    BY <1>6 DEF TakeDecision
  <2>2. CASE PhaseAfter(q, d) # "ran"
    BY <1>6, <2>1, <2>2, TakeDecisionCall DEF NothingUnapproved
  <2>3. CASE PhaseAfter(q, d) = "ran"
    <3>1. /\ d \in verdicts[r] /\ d \in Decisions
          /\ ~Forbidden(q, q.kind)
      BY <1>6, TakeDecisionCall DEF Asked, Backed, Waiting
    <3>2. d # "deny" /\ (d \in Kinds => ~Forbidden(q, d))
      BY <2>3 DEF PhaseAfter
    <3>3. new.query = q /\ new.ran = Run(q, EffectiveKind(q, d))
      BY <1>6, <2>3, TakeDecisionCall
    <3>4. q.readonly => EffectiveKind(q, d) = "select" /\ RunReadOnly(q)
      BY <3>1, <3>2 DEF EffectiveKind, Forbidden, RunReadOnly
    <3>5. Permits(d, q, EffectiveKind(q, d))
      BY <3>2 DEF Permits
    <3> QED
      BY <1>6, <2>1, <3>1, <3>3, <3>4, <3>5, TakeDecisionCall, RunIs DEF NothingUnapproved
  <2> QED
    BY <2>2, <2>3
<1>7. ASSUME NEW r \in Requests, CheckHost(r) PROVE NothingUnapproved'
  BY <1>7, DecisionsApart
  DEF CheckHost, RemovePending, hosts, web, watch, pages, TypeOK, CallsOK, Calls,
      NothingUnapproved
<1>8. ASSUME NEW r \in Requests, McpCrash(r) PROVE NothingUnapproved'
  BY <1>8, DecisionsApart
  DEF McpCrash, files, hosts, web, watch, pages, TypeOK, CallsOK, Calls,
      NothingUnapproved
<1>9. ASSUME NEW s \in Sessions, DecideClaim(s) PROVE NothingUnapproved'
  BY <1>9, DecisionsApart
  DEF DecideClaim, Claim, Refused, files, clock, hosts, watch, TypeOK, CallsOK, Calls,
      NothingUnapproved
<1>10. ASSUME NEW u \in Users, NEW r \in Requests, NEW d \in Decisions, Decide(u, r, d) PROVE NothingUnapproved'
  BY <1>10, DecisionsApart
  DEF Decide, files, clock, hosts, web, watch, TypeOK, CallsOK, Calls,
      NothingUnapproved
<1>11. CASE UNCHANGED <<call, verdicts>>
  BY <1>11 DEF TypeOK, CallsOK, Calls, NothingUnapproved
<1> QED
  BY ZenonT(60), <1>1, <1>2, <1>3, <1>4, <1>5, <1>6, <1>7, <1>8, <1>9, <1>10, <1>11
  DEF Next, vars, Poll, Watch, Listing, Deciding, Claiming, Cleanup, files, clock,
      hosts, calls, web, watch, pages, Claim, FilesAge, Move, Refused, Release,
      RemoveDecision, RemovePending, CleanupPending, CleanupDecision, WatchNext,
      Register, Disconnect, ClearSession, ClearOwners, LoadPage, LeaveBus, Refetch,
      ListClaim, ListDone, DecideAuthorize, WatchAuthorize, ListAuthorize, WatchPoll,
      WatchRelease, WatchClaim, WatchEmit, RefetchDesktop, Tick, Suspend,
      DecideMissing, OpenDecision, WriteDecision, DecideDone, StartHost,
      StartHostUnheard, StopHost, Refresh, RefreshFails

\* Nothing runs that nobody permitted, whatever the order in which users answer,
\* answers are overwritten, files are torn, and calls end: an answer counts
\* only for the call it was given to, and an edited query is checked again.
THEOREM ConsentHolds == Spec => []NothingUnapproved
<1>1. Init => Asked /\ Backed /\ NothingUnapproved
  BY DecisionsApart DEF Init, Idle, NoDecision, Asked, Backed, NothingUnapproved, Waiting
<1>2. TypeOK /\ (Asked /\ Backed /\ NothingUnapproved) /\ [Next]_vars
          => (Asked /\ Backed /\ NothingUnapproved)'
  BY AskedStep, BackedStep, UnapprovedStep
<1> QED
  BY <1>1, <1>2, GateTyped, PTL DEF Spec

(***************************************************************************)
(* The heartbeat.                                                          *)
(***************************************************************************)

\* The heartbeat is not older than the refreshes that a running host has
\* missed, and the one that is due.
Beating == \A h \in heard : beat <= misses[h] + (IF h \in due THEN 1 ELSE 0)

\* Nothing makes up for a suspension.
LEMMA AwakeStep == TypeOK /\ ~Awake /\ [Next]_vars => ~Awake'
<1> SUFFICES ASSUME TypeOK /\ ~Awake, [Next]_vars PROVE ~Awake'
  OBVIOUS
<1>1. CASE Suspend
  BY <1>1
  DEF Suspend, FilesAge, hosts, calls, web, watch, pages, Awake, TypeOK, ClockOK
<1>2. CASE UNCHANGED <<suspends>>
  BY <1>2 DEF Awake, TypeOK, ClockOK
<1> QED
  BY ZenonT(60), <1>1, <1>2
  DEF Next, vars, Poll, Watch, Listing, Deciding, Claiming, Cleanup, files, clock,
      hosts, calls, web, watch, pages, Claim, FilesAge, Move, Refused, Release,
      RemoveDecision, RemovePending, RunQuery, OpenPending, WritePending, EnqueueFails,
      ReadDecision, TakeDecision, CheckHost, McpCrash, CleanupPending, CleanupDecision,
      WatchNext, Register, Disconnect, ClearSession, ClearOwners, LoadPage, LeaveBus,
      Refetch, ListClaim, ListDone, DecideAuthorize, DecideClaim, WatchAuthorize,
      ListAuthorize, WatchPoll, WatchRelease, WatchClaim, WatchEmit, RefetchDesktop,
      Tick, DecideMissing, Decide, OpenDecision, WriteDecision, DecideDone, StartHost,
      StartHostUnheard, StopHost, Refresh, RefreshFails

\* No step lets the heartbeat of a running host grow too old.
LEMMA BeatingStep == TypeOK /\ Beating /\ Awake' /\ [Next]_vars => Beating'
<1> SUFFICES ASSUME TypeOK /\ Beating /\ Awake', [Next]_vars PROVE Beating'
  OBVIOUS
<1>1. ASSUME NEW r \in Requests, WritePending(r) PROVE Beating'
  BY <1>1, Bounds, GateAssumption
  DEF WritePending, hosts, web, watch, pages, TypeOK, ClockOK, Beating
<1>2. ASSUME NEW r \in Requests, EnqueueFails(r) PROVE Beating'
  BY <1>2, Bounds, GateAssumption
  DEF EnqueueFails, files, hosts, web, watch, pages, TypeOK, ClockOK, Beating
<1>3. ASSUME NEW r \in Requests, ReadDecision(r) PROVE Beating'
  BY <1>3, Bounds, GateAssumption
  DEF ReadDecision, RemoveDecision, hosts, web, watch, TypeOK, ClockOK, Beating
<1>4. ASSUME NEW r \in Requests, CheckHost(r) PROVE Beating'
  BY <1>4, Bounds, GateAssumption
  DEF CheckHost, RemovePending, hosts, web, watch, pages, TypeOK, ClockOK, Beating
<1>5. ASSUME NEW r \in Requests, McpCrash(r) PROVE Beating'
  BY <1>5, Bounds, GateAssumption
  DEF McpCrash, files, hosts, web, watch, pages, TypeOK, ClockOK, Beating
<1>6. CASE Tick
  <2>1. beat' <= beat + 1 /\ due = {} /\ up \subseteq due' /\ UNCHANGED <<misses, heard>>
    BY <1>6, OlderTyped DEF Tick, hosts, TypeOK, ClockOK
  <2>2. ASSUME NEW h \in heard PROVE beat' <= misses[h] + 1
    <3>1. beat <= misses[h]
      BY <2>1, Bounds DEF Beating, TypeOK, ClockOK
    <3> QED
      BY <1>6, <2>1, <3>1, Bounds, OlderTyped DEF Tick, TypeOK, ClockOK
  <2> QED
    BY <2>1, <2>2 DEF Beating, TypeOK, ClockOK
<1>7. CASE Suspend
  BY <1>7 DEF Suspend, Awake, TypeOK, ClockOK
<1>8. ASSUME NEW h \in Hosts, StartHost(h) PROVE Beating'
  BY <1>8, Bounds, GateAssumption
  DEF StartHost, files, calls, web, watch, pages, TypeOK, ClockOK, Beating
<1>9. ASSUME NEW h \in Hosts, StartHostUnheard(h) PROVE Beating'
  BY <1>9, Bounds, GateAssumption
  DEF StartHostUnheard, files, calls, web, watch, pages, TypeOK, ClockOK, Beating
<1>10. ASSUME NEW h \in Hosts, StopHost(h) PROVE Beating'
  BY <1>10, Bounds, GateAssumption
  DEF StopHost, files, calls, web, watch, TypeOK, ClockOK, Beating
<1>11. ASSUME NEW h \in Hosts, Refresh(h) PROVE Beating'
  BY <1>11, Bounds, GateAssumption
  DEF Refresh, files, calls, web, watch, pages, TypeOK, ClockOK, Beating
<1>12. ASSUME NEW h \in Hosts, RefreshFails(h) PROVE Beating'
  BY <1>12, Bounds, GateAssumption
  DEF RefreshFails, files, hosts, calls, web, watch, pages, TypeOK, ClockOK, Beating
<1>13. CASE UNCHANGED <<beat, due, misses, up, heard>>
  BY <1>13 DEF TypeOK, ClockOK, Beating
<1> QED
  BY ZenonT(60), <1>1, <1>2, <1>3, <1>4, <1>5, <1>6, <1>7, <1>8, <1>9, <1>10, <1>11, <1>12, <1>13
  DEF Next, vars, Poll, Watch, Listing, Deciding, Claiming, Cleanup, files, clock,
      hosts, calls, web, watch, pages, Claim, Move, Refused, Release, RemoveDecision,
      RemovePending, RunQuery, OpenPending, TakeDecision, CleanupPending,
      CleanupDecision, WatchNext, Register, Disconnect, ClearSession, ClearOwners,
      LoadPage, LeaveBus, Refetch, ListClaim, ListDone, DecideAuthorize, DecideClaim,
      WatchAuthorize, ListAuthorize, WatchPoll, WatchRelease, WatchClaim, WatchEmit,
      RefetchDesktop, DecideMissing, Decide, OpenDecision, WriteDecision, DecideDone

\* Until the machine is suspended, the heartbeat file is never stale as long
\* as a host runs that has written it, for any number of hosts, starts and
\* stops, and for as many missed refreshes as MissesAssumption allows.
THEOREM HeartbeatHolds == Spec => []RunningHostIsAlive
<1>1. Init => (Awake => Beating)
  BY DEF Init, Beating
<1>2. TypeOK /\ (Awake => Beating) /\ [Next]_vars => (Awake => Beating)'
  BY BeatingStep, AwakeStep
<1>3. TypeOK /\ (Awake => Beating) => RunningHostIsAlive
  <2> SUFFICES ASSUME TypeOK, Beating, NEW h \in heard PROVE Alive
    BY DEF RunningHostIsAlive
  <2>1. misses[h] \in 0 .. MaxMisses /\ beat \in 0 .. Cap
    BY DEF TypeOK, ClockOK
  <2>2. beat <= misses[h] + 1
    BY <2>1, Bounds DEF Beating
  <2> QED
    BY <2>1, <2>2, Bounds, MissesAssumption DEF Alive
<1> QED
  BY <1>1, <1>2, <1>3, GateTyped, PTL DEF Spec

(***************************************************************************)
(* The prompt.                                                             *)
(***************************************************************************)

\* A pending file is as old as the call that polls has waited; while the call
\* has not yet seen the time that has passed, it may have reached its deadline.
Prompted ==
    \A r \in Requests :
        /\ r \in due => call[r].phase \in {"writing", "polling", "checking"}
        /\ call[r].phase = "writing" =>
               /\ pending[r] = "torn"
               /\ pendingAge[r] <= (IF r \in due THEN 1 ELSE 0)
        /\ call[r].phase \in {"polling", "checking"} =>
               /\ pending[r] = "whole"
               /\ pendingAge[r] <= CleanupAge
               /\ waited[r] < Timeout => pendingAge[r] <= waited[r]
               /\ r \notin due => pendingAge[r] <= waited[r]
               /\ r \notin due /\ waited[r] = Timeout => pendingAge[r] = 0

\* No step removes, or lets grow too old, a pending file that is polled for.
LEMMA PromptedStep == TypeOK /\ Prompted /\ Awake' /\ [Next]_vars => Prompted'
<1> SUFFICES ASSUME TypeOK /\ Prompted /\ Awake', [Next]_vars PROVE Prompted'
  OBVIOUS
<1>1. ASSUME NEW r \in Requests, NEW q \in Queries, RunQuery(r, q) PROVE Prompted'
  <2>1. UNCHANGED <<pending, pendingAge, due, waited>> /\ call[r].phase = "none"
    BY <1>1 DEF RunQuery, files, clock
  <2> QED
    BY <1>1, <2>1, RunQueryCall DEF Prompted
<1>2. ASSUME NEW r \in Requests, OpenPending(r) PROVE Prompted'
  BY <1>2, Bounds, CleanupAssumption
  DEF OpenPending, clock, hosts, web, watch, pages, TypeOK, FilesOK, ClockOK, CallsOK,
      Calls, Prompted
<1>3. ASSUME NEW r \in Requests, WritePending(r) PROVE Prompted'
  BY <1>3, Bounds, CleanupAssumption
  DEF WritePending, hosts, web, watch, pages, TypeOK, FilesOK, ClockOK, CallsOK, Calls,
      Prompted
<1>4. ASSUME NEW r \in Requests, EnqueueFails(r) PROVE Prompted'
  BY <1>4, Bounds, CleanupAssumption
  DEF EnqueueFails, files, hosts, web, watch, pages, TypeOK, FilesOK, ClockOK, CallsOK,
      Calls, Prompted
<1>5. ASSUME NEW r \in Requests, ReadDecision(r) PROVE Prompted'
  <2>1. UNCHANGED <<pending, pendingAge>> /\ due' \subseteq due /\ due \subseteq due' \cup {r}
    BY <1>5 DEF ReadDecision
  <2>2. call'[r].phase = "checking" => due' = due
    BY <1>5, ReadDecisionCall DEF ReadDecision
  <2>3. call'[r].phase # "checking" => r \notin due'
    BY <1>5, ReadDecisionCall DEF ReadDecision
  <2>4. /\ \A o \in Requests \ {r} : waited'[o] = waited[o]
        /\ call'[r].phase = "checking" => waited'[r] = waited[r]
    BY <1>5, ReadDecisionCall, DecisionsApart DEF ReadDecision, TypeOK, CallsOK, Calls
  <2> QED
    BY <1>5, <2>1, <2>2, <2>3, <2>4, ReadDecisionCall DEF Prompted
<1>6. ASSUME NEW r \in Requests, TakeDecision(r) PROVE Prompted'
  <2>1. /\ UNCHANGED <<due, waited>>
        /\ \A o \in Requests \ {r} : pending'[o] = pending[o] /\ pendingAge'[o] = pendingAge[o]
    BY <1>6 DEF TakeDecision, RemovePending, clock, TypeOK, FilesOK
  <2> QED
    BY <1>6, <2>1, TakeDecisionCall DEF Prompted
<1>7. ASSUME NEW r \in Requests, CheckHost(r) PROVE Prompted'
  BY <1>7, Bounds, CleanupAssumption
  DEF CheckHost, RemovePending, hosts, web, watch, pages, TypeOK, FilesOK, ClockOK,
      CallsOK, Calls, Prompted
<1>8. ASSUME NEW r \in Requests, McpCrash(r) PROVE Prompted'
  BY <1>8, Bounds, CleanupAssumption
  DEF McpCrash, files, hosts, web, watch, pages, TypeOK, FilesOK, ClockOK, CallsOK,
      Calls, Prompted
<1>9. ASSUME NEW r \in Requests, CleanupPending(r) PROVE Prompted'
  <2>1. /\ UNCHANGED <<due, waited, call>> /\ pendingAge[r] > CleanupAge
        /\ \A o \in Requests \ {r} : pending'[o] = pending[o] /\ pendingAge'[o] = pendingAge[o]
    BY <1>9 DEF CleanupPending, RemovePending, clock, calls, TypeOK, FilesOK
  <2>2. call[r].phase \notin {"writing", "polling", "checking"}
    <3>1. pendingAge[r] \in Nat /\ ~(pendingAge[r] <= CleanupAge) /\ ~(pendingAge[r] <= 1)
      BY <2>1, Bounds, CleanupAssumption DEF TypeOK, FilesOK
    <3> QED
      BY <3>1 DEF Prompted
  <2> QED
    BY <2>1, <2>2 DEF Prompted
<1>10. CASE Tick
  <2>1. due = {} /\ UNCHANGED <<pending, call>>
    BY <1>10 DEF Tick
  <2>2. ASSUME NEW o \in Requests
        PROVE /\ o \in due' <=> call[o].phase \in {"writing", "polling", "checking"}
              /\ pending[o] # "absent" => pendingAge'[o] = Older(pendingAge[o])
              /\ call[o].phase \in {"polling", "checking"} =>
                     waited'[o] = IF waited[o] < Timeout THEN waited[o] + 1 ELSE waited[o]
    BY <1>10, GateAssumption DEF Tick, FilesAge, TypeOK, ClockOK
  <2>3. ASSUME NEW o \in Requests
        PROVE /\ pendingAge[o] \in 0 .. Cap /\ waited[o] \in 0 .. Timeout
              /\ Older(pendingAge[o]) <= pendingAge[o] + 1 /\ Older(pendingAge[o]) \in 0 .. Cap
    BY OlderTyped DEF TypeOK, FilesOK, CallsOK
  <2>4. ASSUME NEW o \in Requests, call[o].phase = "writing"
        PROVE pending[o] = "torn" /\ pendingAge'[o] <= 1
    BY <2>1, <2>2, <2>3, <2>4, Bounds DEF Prompted
  <2>5. ASSUME NEW o \in Requests, call[o].phase \in {"polling", "checking"}
        PROVE /\ pending[o] = "whole" /\ pendingAge'[o] <= CleanupAge
              /\ waited'[o] < Timeout => pendingAge'[o] <= waited'[o]
    <3>1. /\ pending[o] = "whole" /\ pendingAge[o] <= waited[o]
          /\ waited[o] = Timeout => pendingAge[o] = 0
      BY <2>1, <2>5 DEF Prompted
    <3>2. pendingAge'[o] <= pendingAge[o] + 1
      BY <2>2, <2>3, <3>1
    <3> QED
      BY <2>2, <2>3, <2>5, <3>1, <3>2, Bounds, CleanupAssumption
  <2> QED
    BY <2>1, <2>2, <2>4, <2>5 DEF Prompted
<1>11. CASE Suspend
  BY <1>11 DEF Suspend, Awake, TypeOK, ClockOK
<1>12. ASSUME NEW h \in Hosts, StopHost(h) PROVE Prompted'
  BY <1>12, GateAssumption
  DEF StopHost, files, calls, web, watch, TypeOK, FilesOK, ClockOK, CallsOK, Calls,
      Prompted
<1>13. ASSUME NEW h \in Hosts, Refresh(h) PROVE Prompted'
  BY <1>13, GateAssumption
  DEF Refresh, files, calls, web, watch, pages, TypeOK, FilesOK, ClockOK, CallsOK,
      Calls, Prompted
<1>14. ASSUME NEW h \in Hosts, RefreshFails(h) PROVE Prompted'
  BY <1>14, GateAssumption
  DEF RefreshFails, files, hosts, calls, web, watch, pages, TypeOK, FilesOK, ClockOK,
      CallsOK, Calls, Prompted
<1>15. CASE UNCHANGED <<pending, pendingAge, due, call, waited>>
  BY <1>15 DEF TypeOK, FilesOK, ClockOK, CallsOK, Calls, Prompted
<1> QED
  BY ZenonT(60), <1>1, <1>2, <1>3, <1>4, <1>5, <1>6, <1>7, <1>8, <1>9, <1>10, <1>11, <1>12, <1>13,
     <1>14, <1>15
  DEF Next, vars, Poll, Watch, Listing, Deciding, Claiming, Cleanup, files, clock,
      hosts, calls, web, watch, pages, Claim, Move, Refused, Release, RemoveDecision,
      CleanupDecision, WatchNext, Register, Disconnect, ClearSession, ClearOwners,
      LoadPage, LeaveBus, Refetch, ListClaim, ListDone, DecideAuthorize, DecideClaim,
      WatchAuthorize, ListAuthorize, WatchPoll, WatchRelease, WatchClaim, WatchEmit,
      RefetchDesktop, DecideMissing, Decide, OpenDecision, WriteDecision, DecideDone,
      StartHost, StartHostUnheard

\* Until the machine is suspended, a prompt is never cleaned up under a call
\* that still polls: the deadline of every call comes before the age at which
\* files are removed, whoever removes them and whenever.
THEOREM PromptHolds == Spec => []PromptStaysWhilePolled
<1>1. Init => (Awake => Prompted)
  BY DEF Init, Idle, Prompted
<1>2. TypeOK /\ (Awake => Prompted) /\ [Next]_vars => (Awake => Prompted)'
  BY PromptedStep, AwakeStep
<1>3. (Awake => Prompted) => PromptStaysWhilePolled
  BY DEF Prompted, PromptStaysWhilePolled
<1> QED
  BY <1>1, <1>2, <1>3, GateTyped, PTL DEF Spec
-----------------------------------------------------------------------------
(***************************************************************************)
(* The approval gate implements Consent, for every number of calls, users  *)
(* and connections.                                                        *)
(***************************************************************************)
\* The variables of Consent, as the gate has them.
stages  == [r \in Requests |-> Stage(r)]
wanted  == [r \in Requests |-> Asking(call[r].query)]
taken   == [r \in Requests |-> call[r].verdict]
outcome == [r \in Requests |-> call[r].ran]

\* The call has begun, and had to ask.
Asks(r) == call[r].phase # "none" /\ NeedsApproval(call[r].query)

\* A prompt, and an answer on its way, belong to a call that had to ask.
Prompting ==
    /\ \A r \in Requests : pending[r] # "absent" => Asks(r)
    /\ \A u \in Users : deciding[u].step # "idle" => Asks(deciding[u].id)

\* A call has neither a verdict nor a result before it gets one.
Fresh ==
    \A r \in Requests :
        /\ call[r].phase = "none" => call[r].verdict = "none"
        /\ call[r].phase \in {"none"} \cup Waiting => call[r].ran = NotRun

\* What a step that changes one call changes for Consent.
LEMMA CallChanges ==
    ASSUME NEW r \in Requests, \A o \in Requests \ {r} : call'[o] = call[o]
    PROVE /\ stages' = [stages EXCEPT ![r] = Stage(r)']
          /\ wanted' = [wanted EXCEPT ![r] = Asking(call'[r].query)]
          /\ taken' = [taken EXCEPT ![r] = call'[r].verdict]
          /\ outcome' = [outcome EXCEPT ![r] = call'[r].ran]
<1>1. \A o \in Requests \ {r} : Stage(o)' = Stage(o)
  BY DEF Stage
<1>2. stages' = [stages EXCEPT ![r] = Stage(r)']
  BY <1>1 DEF stages
<1> QED
  BY <1>2 DEF wanted, taken, outcome

\* Consent forbids and asks about what the gate forbids and asks about.
LEMMA SameRules ==
    ASSUME NEW q \in Queries
    PROVE /\ Asking(q) \in Promise!Queries
          /\ Asking(q).mode = q.mode /\ Asking(q).readonly = q.readonly
          /\ Asking(q).kind = q.kind
          /\ Promise!MustAsk(Asking(q)) <=> NeedsApproval(q)
          /\ \A kind : Promise!Forbidden(Asking(q), kind) <=> Forbidden(q, kind)
<1>1. /\ q.mode \in Modes /\ q.readonly \in BOOLEAN /\ q.kind \in Kinds
  BY DEF Queries
<1> QED
  BY <1>1 DEF Asking, Promise!Queries, Promise!MustAsk, Promise!Forbidden, NeedsApproval,
     Forbidden

\* A step of the gate that Consent does not see.
LEMMA Unseen ==
    ASSUME UNCHANGED <<call, verdicts>>
    PROVE UNCHANGED Promise!vars
BY DEF Promise!vars, Stage, Asking

\* The initial states agree.
LEMMA PromiseInit == Init => Promise!Init
<1> SUFFICES ASSUME Init PROVE Promise!Init
  OBVIOUS
<1>1. \A r \in Requests : Asking(call[r].query) \in Promise!Queries
  BY AnyQueryTyped, SameRules DEF Init, Idle
<1>2. \A r \in Requests : Stage(r) = "unasked"
  BY DEF Init, Idle, Stage
<1> QED
  BY <1>1, <1>2 DEF Promise!Init, Promise!Nothing, Init, Idle, NotRun

\* A call that begins.
LEMMA CallsAsPromised ==
    ASSUME TypeOK, Fresh, NEW r \in Requests, NEW q \in Queries, RunQuery(r, q)
    PROVE Promise!Call(r)
<1> DEFINE a == Asking(q)
<1>1. call[r].phase = "none" /\ call[r].verdict = "none" /\ call[r].ran = NotRun
  BY DEF RunQuery, Fresh
<1>2. call' = [call EXCEPT ![r] = [phase |-> FirstPhase(q), query |-> q, verdict |-> "none",
                  ran |-> IF FirstPhase(q) = "ran" THEN Run(q, q.kind) ELSE NotRun]]
  BY DEF RunQuery
<1>3. /\ call'[r].phase = FirstPhase(q) /\ call'[r].query = q /\ call'[r].verdict = "none"
      /\ call'[r].ran = IF FirstPhase(q) = "ran" THEN Run(q, q.kind) ELSE NotRun
      /\ \A o \in Requests \ {r} : call'[o] = call[o]
  BY <1>2 DEF TypeOK, CallsOK
<1>4. /\ stages' = [stages EXCEPT ![r] = Stage(r)']
      /\ wanted' = [wanted EXCEPT ![r] = a]
      /\ taken' = taken
      /\ outcome' = [outcome EXCEPT ![r] = call'[r].ran]
  <2>1. /\ stages' = [stages EXCEPT ![r] = Stage(r)']
        /\ wanted' = [wanted EXCEPT ![r] = Asking(call'[r].query)]
        /\ taken' = [taken EXCEPT ![r] = call'[r].verdict]
        /\ outcome' = [outcome EXCEPT ![r] = call'[r].ran]
    BY <1>3, CallChanges
  <2>2. [taken EXCEPT ![r] = call'[r].verdict] = taken
    BY <1>1, <1>3 DEF taken
  <2> QED
    BY <1>3, <2>1, <2>2
<1>5. stages[r] = "unasked" /\ outcome[r] = NotRun
  BY <1>1 DEF stages, Stage, outcome
<1>6. UNCHANGED verdicts
  BY DEF RunQuery
<1>7. a \in Promise!Queries
  BY SameRules
<1>8. \/ /\ Promise!Forbidden(a, a.kind)
         /\ stages' = [stages EXCEPT ![r] = "over"]
         /\ UNCHANGED outcome
      \/ /\ stages' = [stages EXCEPT ![r] = "over"]
         /\ \E run \in Promise!Runs : Promise!Unasked(a, run)
                                      /\ outcome' = [outcome EXCEPT ![r] = run]
      \/ /\ Promise!MustAsk(a) /\ ~Promise!Forbidden(a, a.kind)
         /\ stages' \in {[stages EXCEPT ![r] = "waiting"], [stages EXCEPT ![r] = "abandoned"]}
         /\ UNCHANGED outcome
  <2>1. CASE Forbidden(q, q.kind)
    <3>1. FirstPhase(q) = "blocked" /\ Stage(r)' = "over"
      BY <1>3, <2>1 DEF FirstPhase, Stage, Waiting
    <3>2. UNCHANGED outcome
      BY <1>3, <1>4, <1>5, <3>1 DEF outcome
    <3> QED
      BY <1>4, <2>1, <3>1, <3>2, SameRules
  <2>2. CASE ~Forbidden(q, q.kind) /\ ~NeedsApproval(q)
    <3>1. FirstPhase(q) = "ran" /\ Stage(r)' = "over"
      BY <1>3, <2>2 DEF FirstPhase, Stage, Waiting
    <3>2. outcome' = [outcome EXCEPT ![r] = Run(q, q.kind)]
      BY <1>3, <1>4, <3>1
    <3>3. Run(q, q.kind) \in Promise!Runs /\ Promise!Unasked(a, Run(q, q.kind))
      <4>1. q.kind \in Kinds /\ q.readonly \in BOOLEAN /\ q.mode \in {"off", "writes_only", "all"}
        BY GateAssumption DEF Queries
      <4>2. RunReadOnly(q) \in BOOLEAN
        BY <4>1 DEF RunReadOnly, NeedsApproval
      <4>3. Run(q, q.kind) = [kind |-> q.kind, readonly |-> RunReadOnly(q)]
        BY DEF Run
      <4>4. /\ q.readonly => q.kind = "select" /\ RunReadOnly(q)
            /\ q.mode # "off" => q.kind = "select" /\ RunReadOnly(q)
        BY <2>2, <4>1 DEF Forbidden, NeedsApproval, RunReadOnly
      <4> QED
        BY <2>2, <4>1, <4>2, <4>3, <4>4, SameRules
        DEF Promise!Runs, Promise!Unasked, Promise!Respected
    <3> QED
      BY <1>4, <3>1, <3>2, <3>3
  <2>3. CASE ~Forbidden(q, q.kind) /\ NeedsApproval(q)
    <3>1. FirstPhase(q) \in {"queueing", "unavailable"} /\ Stage(r)' \in {"waiting", "abandoned"}
      BY <1>3, <2>3 DEF FirstPhase, Stage, Waiting
    <3>2. UNCHANGED outcome
      BY <1>3, <1>4, <1>5, <3>1 DEF outcome
    <3> QED
      BY <1>4, <2>3, <3>1, <3>2, SameRules
  <2> QED
    BY <2>1, <2>2, <2>3
<1> HIDE DEF a
<1> QED
  BY <1>4, <1>5, <1>6, <1>7, <1>8 DEF Promise!Call, stages, wanted, taken, outcome

\* A call that takes an answer.
LEMMA TakesAsPromised ==
    ASSUME TypeOK, Backed, NEW r \in Requests, ReadDecision(r)
    PROVE Promise!Take(r) \/ Promise!GiveUp(r) \/ UNCHANGED Promise!vars
<1>1. /\ call[r].phase = "polling"
      /\ \A o \in Requests \ {r} : call'[o] = call[o]
      /\ call'[r].query = call[r].query /\ call'[r].ran = call[r].ran
      /\ call'[r].phase \in {"checking", "error", "taken"}
      /\ call'[r].phase = "taken" =>
             call'[r].verdict = decision[r] /\ decision[r] \in Decisions
  BY ReadDecisionCall
<1>2. call'[r].phase # "taken" => call'[r].verdict = call[r].verdict
  <2>1. call \in [Requests -> Calls]
    BY DEF TypeOK, CallsOK
  <2>2. decision[r] \in Decisions => call'[r].phase = "taken"
    <3>1. ASSUME decision[r] \in Decisions
          PROVE call' = [call EXCEPT ![r] = [@ EXCEPT !.phase = "taken", !.verdict = decision[r]]]
      BY <3>1, DecisionsApart DEF ReadDecision
    <3> QED
      BY <2>1, <3>1 DEF Calls
  <2>3. decision[r] \in {"absent", "torn"} \cup Decisions
    BY DEF TypeOK, FilesOK
  <2> QED
    BY <2>1, <2>2, <2>3 DEF ReadDecision, Calls
<1>3. UNCHANGED verdicts
  BY DEF ReadDecision
<1>4. /\ stages' = [stages EXCEPT ![r] = Stage(r)']
      /\ wanted' = wanted
      /\ taken' = [taken EXCEPT ![r] = call'[r].verdict]
      /\ outcome' = outcome
  BY <1>1, CallChanges DEF wanted, outcome
<1>5. stages[r] = "waiting"
  BY <1>1 DEF stages, Stage, Waiting
<1>6. CASE call'[r].phase = "checking"
  <2>1. Stage(r)' = "waiting"
    BY <1>6 DEF Stage, Waiting
  <2> QED
    BY <1>2, <1>3, <1>4, <1>5, <1>6, <2>1 DEF Promise!vars, stages, wanted, taken, outcome
<1>7. CASE call'[r].phase = "error"
  <2>1. Stage(r)' = "abandoned"
    BY <1>7 DEF Stage, Waiting
  <2> QED
    BY <1>2, <1>3, <1>4, <1>5, <1>7, <2>1 DEF Promise!GiveUp, stages, wanted, taken, outcome
<1>8. CASE call'[r].phase = "taken"
  <2>1. Stage(r)' = "answered"
    BY <1>8 DEF Stage
  <2>2. decision[r] \in verdicts[r]
    BY <1>1, <1>8 DEF Backed
  <2> QED
    BY <1>1, <1>3, <1>4, <1>5, <1>8, <2>1, <2>2 DEF Promise!Take, stages, wanted, taken, outcome
<1> QED
  BY <1>1, <1>6, <1>7, <1>8

\* A call that carries its answer out.
LEMMA ActsAsPromised ==
    ASSUME TypeOK, Asked, Backed, Fresh, NEW r \in Requests, TakeDecision(r)
    PROVE Promise!Act(r)
<1> DEFINE q == call[r].query
           d == call[r].verdict
           run == Run(q, EffectiveKind(q, d))
<1>1. /\ call[r].phase = "taken" /\ call[r].ran = NotRun
      /\ \A o \in Requests \ {r} : call'[o] = call[o]
      /\ call'[r].query = q /\ call'[r].phase = PhaseAfter(q, d)
      /\ PhaseAfter(q, d) = "ran" => call'[r].ran = run
      /\ PhaseAfter(q, d) \in {"denied", "blocked", "ran"}
  BY TakeDecisionCall DEF Fresh, Waiting
<1>2. call'[r].verdict = d /\ (PhaseAfter(q, d) # "ran" => call'[r].ran = NotRun)
  BY DEF TakeDecision, TypeOK, CallsOK, Calls
<1>3. UNCHANGED verdicts
  BY DEF TakeDecision
<1>4. /\ stages' = [stages EXCEPT ![r] = Stage(r)']
      /\ wanted' = wanted /\ taken' = taken
      /\ outcome' = [outcome EXCEPT ![r] = call'[r].ran]
  BY <1>1, <1>2, CallChanges DEF wanted, taken
<1>5. stages[r] = "answered" /\ Stage(r)' = "over"
  BY <1>1 DEF stages, Stage, Waiting
<1>6. /\ q \in Queries /\ d \in Decisions
      /\ ~Forbidden(q, q.kind)
  BY <1>1 DEF TypeOK, CallsOK, Calls, Asked, Backed, Waiting
<1>7. outcome[r] = NotRun /\ taken[r] = d /\ wanted[r] = Asking(q)
  BY <1>1 DEF outcome, taken, wanted
<1>8. CASE PhaseAfter(q, d) # "ran"
  <2>1. d = "deny" \/ (d \in Kinds /\ Forbidden(q, d))
    BY <1>8 DEF PhaseAfter
  <2>2. outcome' = outcome
    BY <1>2, <1>4, <1>7, <1>8 DEF outcome
  <2>3. taken[r] = "deny" \/ (taken[r] \in Kinds /\ Promise!Forbidden(wanted[r], taken[r]))
    BY <1>6, <1>7, <2>1, SameRules
  <2> HIDE DEF q, d, run
  <2> QED
    BY <1>3, <1>4, <1>5, <2>2, <2>3 DEF Promise!Act, stages, wanted, taken, outcome
<1>9. CASE PhaseAfter(q, d) = "ran"
  <2>1. d # "deny" /\ (d \in Kinds => ~Forbidden(q, d))
    BY <1>9 DEF PhaseAfter
  <2>2. /\ q.kind \in Kinds /\ q.readonly \in BOOLEAN
        /\ "approve" \notin Kinds /\ (d # "approve" => d \in Kinds)
    BY <1>6, <2>1, GateAssumption DEF Queries
  <2>3. EffectiveKind(q, d) = (IF d = "approve" THEN q.kind ELSE d)
    BY <2>2 DEF EffectiveKind
  <2>4. RunReadOnly(q) \in BOOLEAN /\ (q.readonly => RunReadOnly(q))
    BY <2>2 DEF RunReadOnly, NeedsApproval
  <2>5. run = [kind |-> EffectiveKind(q, d), readonly |-> RunReadOnly(q)]
    BY DEF Run
  <2>6. q.readonly => EffectiveKind(q, d) = "select"
    BY <1>6, <2>1, <2>2, <2>3 DEF Forbidden
  <2>7. run \in Promise!Runs /\ Promise!Permitted(wanted[r], taken[r], run)
    BY <1>6, <1>7, <2>1, <2>2, <2>3, <2>4, <2>5, <2>6, SameRules
    DEF Promise!Runs, Promise!Permitted, Promise!Respected
  <2>8. outcome' = [outcome EXCEPT ![r] = run]
    BY <1>1, <1>4, <1>9
  <2> HIDE DEF q, d, run
  <2> QED
    BY <1>3, <1>4, <1>5, <2>7, <2>8 DEF Promise!Act, stages, wanted, taken, outcome
<1> QED
  BY <1>8, <1>9

\* A call that goes on waiting, or waits no longer.
LEMMA WaitsAsPromised ==
    ASSUME NEW r \in Requests, UNCHANGED verdicts, call[r].phase \in Waiting,
           \A o \in Requests \ {r} : call'[o] = call[o],
           call'[r].query = call[r].query, call'[r].verdict = call[r].verdict,
           call'[r].ran = call[r].ran,
           \/ Stage(r)' = "abandoned"
           \/ Stage(r)' = Stage(r)
    PROVE Promise!GiveUp(r) \/ UNCHANGED Promise!vars
<1>1. /\ stages' = [stages EXCEPT ![r] = Stage(r)']
      /\ wanted' = wanted /\ taken' = taken /\ outcome' = outcome
  BY CallChanges DEF wanted, taken, outcome
<1>2. stages[r] \in {"waiting", "answered"} /\ stages[r] = Stage(r)
  BY DEF stages, Stage, Waiting
<1>3. CASE Stage(r)' = "abandoned"
  BY <1>1, <1>2, <1>3 DEF Promise!GiveUp, stages, wanted, taken, outcome
<1>4. CASE Stage(r)' = Stage(r)
  <2>1. stages' = stages
    BY <1>1, <1>2, <1>4 DEF stages
  <2> QED
    BY <1>1, <2>1 DEF Promise!vars, stages, wanted, taken, outcome
<1> QED
  BY <1>3, <1>4

\* The steps of a waiting call that take no answer.
LEMMA WaitingSteps ==
    ASSUME TypeOK, NEW r \in Requests,
           OpenPending(r) \/ WritePending(r) \/ EnqueueFails(r) \/ CheckHost(r) \/ McpCrash(r)
    PROVE Promise!GiveUp(r) \/ UNCHANGED Promise!vars
<1>1. call \in [Requests -> Calls]
  BY DEF TypeOK, CallsOK
<1>2. UNCHANGED verdicts
  BY DEF OpenPending, WritePending, EnqueueFails, CheckHost, McpCrash
<1>3. PICK phase \in {"writing", "polling", "failed", "unavailable", "timedout", "crashed"} :
          /\ call' = [call EXCEPT ![r].phase = phase]
          /\ call[r].phase \in Waiting
          /\ phase \in {"writing", "polling"} => call[r].phase \in {"queueing", "writing", "checking"}
  BY DEF OpenPending, WritePending, EnqueueFails, CheckHost, McpCrash, Waiting
<1>4. /\ \A o \in Requests \ {r} : call'[o] = call[o]
      /\ call'[r].query = call[r].query /\ call'[r].verdict = call[r].verdict
      /\ call'[r].ran = call[r].ran /\ call'[r].phase = phase
  BY <1>1, <1>3 DEF Calls
<1>5. Stage(r)' = "abandoned" \/ Stage(r)' = Stage(r)
  BY <1>3, <1>4 DEF Stage, Waiting
<1> QED
  BY <1>2, <1>3, <1>4, <1>5, WaitsAsPromised

\* A user answers a call that had to ask.
LEMMA GrantsAsPromised ==
    ASSUME TypeOK, NEW r \in Requests, NEW d \in Decisions, UNCHANGED call,
           verdicts' = [verdicts EXCEPT ![r] = @ \cup {d}],
           call[r].phase # "none", NeedsApproval(call[r].query)
    PROVE Promise!Grant(r)
<1>1. call[r].query \in Queries
  BY DEF TypeOK, CallsOK, Calls
<1>2. Promise!MustAsk(wanted[r]) /\ stages[r] # "unasked"
  BY <1>1, SameRules DEF wanted, stages, Stage
<1>3. UNCHANGED <<stages, wanted, taken, outcome>>
  BY DEF stages, Stage, wanted, taken, outcome
<1> QED
  BY <1>2, <1>3 DEF Promise!Grant, stages, wanted, taken, outcome

\* No step gives a call a verdict or a result too early.
LEMMA FreshStep == TypeOK /\ Fresh /\ [Next]_vars => Fresh'
<1> SUFFICES ASSUME TypeOK /\ Fresh, [Next]_vars PROVE Fresh'
  OBVIOUS
<1>1. ASSUME NEW r \in Requests, NEW q \in Queries, RunQuery(r, q) PROVE Fresh'
  BY <1>1 DEF RunQuery, FirstPhase, TypeOK, CallsOK, Calls, Waiting, Fresh
<1>2. ASSUME NEW r \in Requests,
             OpenPending(r) \/ WritePending(r) \/ EnqueueFails(r) \/ CheckHost(r) \/ McpCrash(r)
      PROVE Fresh'
  BY <1>2 DEF OpenPending, WritePending, EnqueueFails, CheckHost, McpCrash, TypeOK, CallsOK,
     Calls, Waiting, Fresh
<1>3. ASSUME NEW r \in Requests, ReadDecision(r) PROVE Fresh'
  BY <1>3, ReadDecisionCall DEF Waiting, Fresh
<1>4. ASSUME NEW r \in Requests, TakeDecision(r) PROVE Fresh'
  BY <1>4, TakeDecisionCall DEF Waiting, Fresh
<1>5. CASE UNCHANGED call
  BY <1>5 DEF Fresh
<1> QED
  BY <1>1, <1>2, <1>3, <1>4, <1>5
  DEF Next, vars, Poll, Watch, Listing, Deciding, Claiming, Cleanup, calls, CleanupPending,
      CleanupDecision, WatchNext, Register, Disconnect, ClearSession, ClearOwners, LoadPage,
      LeaveBus, Refetch, ListClaim, ListDone, DecideAuthorize, DecideClaim, WatchAuthorize,
      ListAuthorize, WatchPoll, WatchRelease, WatchClaim, WatchEmit, RefetchDesktop, Tick,
      Suspend, DecideMissing, Decide, OpenDecision, WriteDecision, DecideDone, StartHost,
      StartHostUnheard, StopHost, Refresh, RefreshFails

\* A call that had to ask stays one.
LEMMA AsksOn == TypeOK /\ [Next]_vars => \A o \in Requests : Asks(o) => Asks(o)'
<1> SUFFICES ASSUME TypeOK, [Next]_vars, NEW o \in Requests, Asks(o) PROVE Asks(o)'
  OBVIOUS
<1>1. ASSUME NEW r \in Requests, NEW q \in Queries, RunQuery(r, q) PROVE Asks(o)'
  BY <1>1, RunQueryCall DEF RunQuery, Asks
<1>2. ASSUME NEW r \in Requests,
             OpenPending(r) \/ WritePending(r) \/ EnqueueFails(r) \/ CheckHost(r) \/ McpCrash(r)
      PROVE Asks(o)'
  BY <1>2 DEF OpenPending, WritePending, EnqueueFails, CheckHost, McpCrash, TypeOK, CallsOK,
     Calls, Asks
<1>3. ASSUME NEW r \in Requests, ReadDecision(r) PROVE Asks(o)'
  BY <1>3, ReadDecisionCall DEF Asks
<1>4. ASSUME NEW r \in Requests, TakeDecision(r) PROVE Asks(o)'
  BY <1>4, TakeDecisionCall DEF Asks
<1>5. CASE UNCHANGED call
  BY <1>5 DEF Asks
<1> QED
  BY <1>1, <1>2, <1>3, <1>4, <1>5
  DEF Next, vars, Poll, Watch, Listing, Deciding, Claiming, Cleanup, files, calls, pages,
      CleanupPending, CleanupDecision, WatchNext, Register, Disconnect, ClearSession, ClearOwners,
      LoadPage, LeaveBus, Refetch, ListClaim, ListDone, DecideAuthorize, DecideClaim,
      WatchAuthorize, ListAuthorize, WatchPoll, WatchRelease, WatchClaim, WatchEmit,
      RefetchDesktop, Tick, Suspend, DecideMissing, Decide, OpenDecision, WriteDecision,
      DecideDone, StartHost, StartHostUnheard, StopHost, Refresh, RefreshFails

\* No step prompts for a call that did not ask, or answers one.
LEMMA PromptingStep == TypeOK /\ Asked /\ Prompting /\ [Next]_vars => Prompting'
<1> SUFFICES ASSUME TypeOK, Asked, Prompting, [Next]_vars PROVE Prompting'
  OBVIOUS
<1>1. \A o \in Requests : Asks(o) => Asks(o)'
  BY AsksOn
<1>2. \A u \in Users : deciding[u].step # "idle" => deciding[u].id \in Requests
  BY DEF TypeOK, PagesOK, Answering
<1>3. \/ \E r \in Requests : OpenPending(r)
      \/ \A o \in Requests : pending'[o] # "absent" => pending[o] # "absent"
  BY ZenonT(60) DEF RunQuery, OpenPending, WritePending, EnqueueFails, ReadDecision, TakeDecision,
      CheckHost, McpCrash, RemovePending, TypeOK, FilesOK, Next, vars, Poll, Watch,
      Listing, Deciding, Claiming, Cleanup, files, calls, pages, CleanupPending,
      CleanupDecision, WatchNext, Register, Disconnect, ClearSession, ClearOwners,
      LoadPage, LeaveBus, Refetch, ListClaim, ListDone, DecideAuthorize, DecideClaim,
      WatchAuthorize, ListAuthorize, WatchPoll, WatchRelease, WatchClaim, WatchEmit,
      RefetchDesktop, Tick, Suspend, DecideMissing, Decide, OpenDecision, WriteDecision,
      DecideDone, StartHost, StartHostUnheard, StopHost, Refresh, RefreshFails
<1>4. \A o \in Requests : pending'[o] # "absent" => Asks(o)'
  <2>1. ASSUME NEW r \in Requests, OpenPending(r)
        PROVE Asks(r) /\ \A o \in Requests \ {r} : pending'[o] = pending[o]
    BY <2>1 DEF OpenPending, Asked, Asks, Waiting, TypeOK, FilesOK
  <2> QED
    BY <1>1, <1>3, <2>1 DEF Prompting
<1> DEFINE Kept == \A v \in Users : deciding'[v].step # "idle" =>
               deciding[v].step # "idle" /\ deciding'[v].id = deciding[v].id
<1>5. (\E u \in Users, r \in Requests, d \in Decisions : Decide(u, r, d)) \/ Kept
  <2>1. deciding \in [Users -> Answers] /\ Sessions \subseteq Users
    BY DEF TypeOK, PagesOK, Users
  <2>2. ASSUME NEW r \in Requests, RemoveDecision(r) PROVE Kept
    BY <2>1, <2>2 DEF RemoveDecision, Answers
  <2> DEFINE Goes(u, a) == /\ deciding' = [deciding EXCEPT ![u] = a]
                           /\ \/ a.step = "idle"
                              \/ deciding[u].step # "idle" /\ a.id = deciding[u].id
  <2>a. ASSUME NEW u \in Users, NEW a, Goes(u, a) PROVE Kept
    BY <2>1, <2>a
  <2>3. ASSUME NEW s \in Sessions, DecideAuthorize(s) \/ DecideClaim(s) PROVE Kept
    <3>1. deciding[s] \in Answers /\ s \in Users
      BY <2>1
    <3>2. DecideAuthorize(s) => Goes(s, [deciding[s] EXCEPT !.step = "claim", !.auth = Authorized(deciding[s].id)])
      BY <2>1, <3>1 DEF DecideAuthorize, Answers
    <3>3. DecideClaim(s) => Goes(s, [deciding[s] EXCEPT !.step = "open", !.auth = {}])
                            \/ Goes(s, NoDecision)
      BY <2>1, <3>1 DEF DecideClaim, NoDecision, Answers
    <3> HIDE DEF Goes, Kept
    <3> QED
      BY <2>3, <2>a, <3>1, <3>2, <3>3
  <2>4. ASSUME NEW u \in Users, OpenDecision(u) \/ WriteDecision(u) \/ DecideDone(u) PROVE Kept
    <3>1. deciding[u] \in Answers
      BY <2>1
    <3>2. OpenDecision(u) => Goes(u, [deciding[u] EXCEPT !.step = "write", !.linked = TRUE])
      BY <2>1, <3>1 DEF OpenDecision, Answers
    <3>3. WriteDecision(u) => Goes(u, [deciding[u] EXCEPT !.step = "forget", !.linked = FALSE])
      BY <2>1, <3>1 DEF WriteDecision, Answers
    <3>4. DecideDone(u) => Goes(u, NoDecision)
      BY <2>1 DEF DecideDone, NoDecision
    <3> HIDE DEF Goes, Kept
    <3> QED
      BY <2>4, <2>a, <3>2, <3>3, <3>4
  <2>5. ASSUME NEW h \in Hosts, StopHost(h) PROVE Kept
    BY <2>1, <2>5 DEF StopHost, NoDecision
  <2>6. CASE UNCHANGED deciding
    BY <2>6
  <2> HIDE DEF Kept, Goes
  <2> QED
    BY <2>2, <2>3, <2>4, <2>5, <2>6
    DEF RunQuery, OpenPending, WritePending, EnqueueFails, ReadDecision, TakeDecision, CheckHost,
      McpCrash, Next, vars, Poll, Watch, Listing, Deciding, Claiming, Cleanup, files, calls, pages,
      CleanupPending, CleanupDecision, WatchNext, Register, Disconnect, ClearSession, ClearOwners,
      LoadPage, LeaveBus, Refetch, ListClaim, ListDone, WatchAuthorize, ListAuthorize, WatchPoll,
      WatchRelease, WatchClaim, WatchEmit, RefetchDesktop, Tick, Suspend, DecideMissing, StartHost,
      StartHostUnheard, Refresh, RefreshFails
<1>6. ASSUME NEW u \in Users, NEW r \in Requests, NEW d \in Decisions, Decide(u, r, d)
      PROVE /\ Asks(r) /\ deciding'[u].id = r
            /\ \A v \in Users \ {u} : deciding'[v] = deciding[v]
  BY <1>6 DEF Decide, NoDecision, Prompting, TypeOK, PagesOK
<1>7. \A v \in Users : (deciding[v].step # "idle" => Asks(deciding[v].id))'
  <2> SUFFICES ASSUME NEW v \in Users, deciding'[v].step # "idle"
               PROVE \E o \in Requests : deciding'[v].id = o /\ Asks(o)
    BY <1>1 DEF Asks
  <2> QED
    BY <1>2, <1>5, <1>6 DEF Prompting
<1> QED
  BY <1>4, <1>7 DEF Prompting

\* Every step of the gate is a step of Consent, or one that it does not see.
LEMMA PromiseStep ==
    TypeOK /\ Asked /\ Backed /\ Fresh /\ Prompting /\ [Next]_vars
        => [Promise!Next]_(Promise!vars)
<1> SUFFICES ASSUME TypeOK, Asked, Backed, Fresh, Prompting, [Next]_vars
             PROVE Promise!Next \/ UNCHANGED Promise!vars
  OBVIOUS
<1> DEFINE Seen(r) == \/ Promise!Call(r) \/ Promise!Grant(r) \/ Promise!Take(r)
                      \/ Promise!Act(r) \/ Promise!GiveUp(r)
           Kept == (\E r \in Requests : Seen(r)) \/ UNCHANGED Promise!vars
<1>1. ASSUME NEW r \in Requests, NEW q \in Queries, RunQuery(r, q) PROVE Kept
  BY <1>1, CallsAsPromised
<1>2. ASSUME NEW r \in Requests,
             OpenPending(r) \/ WritePending(r) \/ EnqueueFails(r) \/ CheckHost(r) \/ McpCrash(r)
      PROVE Kept
  BY <1>2, WaitingSteps
<1>3. ASSUME NEW r \in Requests, ReadDecision(r) PROVE Kept
  BY <1>3, TakesAsPromised
<1>4. ASSUME NEW r \in Requests, TakeDecision(r) PROVE Kept
  BY <1>4, ActsAsPromised
<1>5. ASSUME NEW u \in Users, NEW r \in Requests, NEW d \in Decisions, Decide(u, r, d) PROVE Kept
  <2>1. Asks(r) /\ UNCHANGED call
    BY <1>5 DEF Decide, Prompting
  <2>2. verdicts' = [verdicts EXCEPT ![r] = @ \cup {d}] \/ UNCHANGED verdicts
    BY <1>5 DEF Decide
  <2> QED
    BY <2>1, <2>2, GrantsAsPromised, Unseen DEF Asks
<1>6. ASSUME NEW s \in Sessions, DecideClaim(s) PROVE Kept
  <2> DEFINE r == deciding[s].id
             d == deciding[s].verdict
  <2>1. r \in Requests /\ d \in Decisions /\ Asks(r) /\ UNCHANGED call
    BY <1>6 DEF DecideClaim, Prompting, Users, TypeOK, PagesOK, Answering
  <2>2. verdicts' = [verdicts EXCEPT ![r] = @ \cup {d}] \/ UNCHANGED verdicts
    BY <1>6 DEF DecideClaim
  <2> HIDE DEF r, d
  <2> QED
    BY <2>1, <2>2, GrantsAsPromised, Unseen DEF Asks
<1>7. ASSUME UNCHANGED <<call, verdicts>> PROVE Kept
  BY <1>7, Unseen
<1> DEFINE Begins == \E r \in Requests, q \in Queries : RunQuery(r, q)
           Polls == \E r \in Requests :
               \/ OpenPending(r) \/ WritePending(r) \/ EnqueueFails(r)
               \/ CheckHost(r) \/ McpCrash(r) \/ ReadDecision(r) \/ TakeDecision(r)
           Answered == \/ \E u \in Users, r \in Requests, d \in Decisions : Decide(u, r, d)
                       \/ \E s \in Sessions : DecideClaim(s)
<1>8. Begins \/ Polls \/ Answered \/ UNCHANGED <<call, verdicts>>
  BY DEF Next, vars, Poll, Watch, Listing, Deciding, Claiming, Cleanup, calls, CleanupPending,
      CleanupDecision, WatchNext, Register, Disconnect, ClearSession, ClearOwners, LoadPage,
      LeaveBus, Refetch, ListClaim, ListDone, DecideAuthorize, WatchAuthorize, ListAuthorize,
      WatchPoll, WatchRelease, WatchClaim, WatchEmit, RefetchDesktop, Tick, Suspend,
      DecideMissing, OpenDecision, WriteDecision, DecideDone, StartHost, StartHostUnheard,
      StopHost, Refresh, RefreshFails
<1> HIDE DEF Kept, Seen
<1>9. (Begins => Kept) /\ (Polls => Kept) /\ (Answered => Kept)
  BY <1>1, <1>2, <1>3, <1>4, <1>5, <1>6
<1> HIDE DEF Begins, Polls, Answered
<1>10. Kept
  BY <1>7, <1>8, <1>9
<1> QED
  BY <1>10 DEF Kept, Seen, Promise!Next

\* The approval gate does what it promises, whatever the number of calls and
\* users and the order of files, polls and answers: it implements Consent.
THEOREM GateKeepsItsPromise == Spec => KeepsItsPromise
<1> DEFINE Inv == TypeOK /\ Asked /\ Backed /\ Fresh /\ Prompting
<1>1. Init => Inv
  BY InitTyped, DecisionsApart
  DEF Init, Idle, NoDecision, Asked, Backed, Fresh, Prompting, Asks, Waiting
<1>2. Inv /\ [Next]_vars => TypeOK'
  BY FilesStep, ClockStep, CallsStep, WebStep, WatchStep, PagesStep DEF TypeOK
<1>3. Inv /\ [Next]_vars => Inv'
  BY <1>2, AskedStep, BackedStep, FreshStep, PromptingStep
<1>4. Inv /\ [Next]_vars => [Promise!Next]_(Promise!vars)
  BY PromiseStep
<1> HIDE DEF Inv
<1> QED
  BY <1>1, <1>3, <1>4, PromiseInit, PTL DEF Spec, KeepsItsPromise, Promise!Spec
=============================================================================
