----------------------------- MODULE PgSession ------------------------------
(***************************************************************************)
(* The pinned PostgreSQL connections of editor tabs: the slots of          *)
(* drivers/postgres/session.rs, the runs that use them                     *)
(* (execute_batch_in_session), the registry of tabs in                     *)
(* application/query_sessions.rs, and the handlers of                      *)
(* application/queries.rs that tie them together.                          *)
(*                                                                         *)
(* A task is a run or a release.  It takes a reference to its tab's slot   *)
(* under the lock of the map, then waits for the slot's own lock; it may   *)
(* be dropped at every await.  A step of the model is what happens between *)
(* two awaits.                                                             *)
(***************************************************************************)
EXTENDS Integers, FiniteSets

CONSTANTS
    Tabs,          \* keys of the session map: owner, connection and tab
    OwnerOf,       \* [Tabs -> Owners], the browser session, or the desktop application
    Owners,
    Runs,          \* execute_query, execute_query_batch, count_query, export
    Releases,      \* tasks that may release a session at the same time
    Slots,
    Clients,       \* connections of the pools
    Databases,
    DatabaseOf,    \* [Clients -> Databases]
    Kinds,         \* of runs: some of "session", "read", "export" and "plain"
    Deadlines,     \* whether handlers are dropped at a deadline: over HTTP, not in the desktop
    Malformed,     \* whether a statement that begins like COMMIT may be refused unexecuted
    MaxStatements, \* statements of a run
    MaxIdle,       \* MAX_IDLE, in ticks
    None

ASSUME PgAssumption ==
    /\ OwnerOf \in [Tabs -> Owners] /\ DatabaseOf \in [Clients -> Databases]
    /\ MaxStatements \in Nat /\ MaxIdle \in Nat /\ Deadlines \in BOOLEAN /\ Malformed \in BOOLEAN
    /\ Kinds \subseteq {"session", "read", "export", "plain"}
    /\ Runs \cap Releases = {}
    /\ None \notin Tabs \cup Slots \cup Clients \cup Runs \cup Releases

VARIABLES
    slotOf,        \* [Tabs -> slot], the map of sessions
    holder,        \* [Slots -> task], who holds the lock
    pinned,        \* [Slots -> client]
    idle,          \* [Slots -> 0 .. MaxIdle + 1], time since last_used
    place,         \* [Clients -> where the connection is]
    open,          \* [Clients -> BOOLEAN]: the server has a transaction open on it
    phase,         \* where a task is
    slot,          \* [task -> slot] whose reference it holds
    tab,           \* [task -> tab]
    kind,          \* [Runs -> Kinds]
    db,            \* [Runs -> Databases]
    client,        \* [Runs -> client] the run uses
    inTransaction, \* [Runs -> BOOLEAN]: in_transaction, and what is reported of it
    statements,    \* [Runs -> statements executed]
    erred,         \* runs whose last statement failed
    cancelled,     \* runs whose abort handle was used
    gone,          \* runs whose handler was dropped
    registered,    \* query_sessions: the tabs that have an entry
    active_runs,   \* [Tabs -> Nat]
    saw_transaction,
    clearing,      \* owners between cancel_session_queries and clear_owner
    inlined,       \* releases that their handler awaits
    down,          \* release_all was called
    late           \* connections that release_all had no time to roll back

slots    == <<slotOf, holder, pinned, idle>>
server   == <<place, open>>
runs     == <<kind, db, client, inTransaction, statements, erred, cancelled, gone>>
registry == <<registered, active_runs, saw_transaction>>
vars     == <<slots, server, phase, slot, tab, runs, registry, clearing, inlined, down, late>>

Tasks == Runs \cup Releases

-----------------------------------------------------------------------------
(***************************************************************************)
(* Slots, references and connections.                                      *)
(***************************************************************************)
Mapped == {slotOf[t] : t \in Tabs}
Refs(s) == {k \in Tasks : slot[k] = s}

\* Task k holds the last reference to its slot, which is dropped with it.
Last(k) == slot[k] \in Slots /\ slot[k] \notin Mapped /\ Refs(slot[k]) = {k}

\* Connection c, if any, ends up at p; its transaction ends there if `ended`.
Put(c, p, ended) ==
    /\ place' = [x \in Clients |-> IF x = c THEN p ELSE place[x]]
    /\ open' = [x \in Clients |-> open[x] /\ ~(x = c /\ ended)]

\* Task k drops its guard and its reference and leaves c pinned, or nothing.
Leave(k, c) ==
    /\ slot' = [slot EXCEPT ![k] = None]
    /\ holder' = [s \in Slots |-> IF holder[s] = k THEN None ELSE holder[s]]
    /\ pinned' = [s \in Slots |-> IF s # slot[k] THEN pinned[s] ELSE IF Last(k) THEN None ELSE c]

\* Drop for Slot: a slot that is dropped closes the connection it still holds.
\* (The first form lets it go back to the pool.)
LeavePinnedPooled(k, c) ==
    /\ Leave(k, c)
    /\ IF Last(k) THEN Put(c, "pool", FALSE) ELSE Put(c, "pinned", FALSE)

LeavePinned(k, c) ==
    /\ Leave(k, c)
    /\ IF Last(k) THEN Put(c, "closed", TRUE) ELSE Put(c, "pinned", FALSE)

PinnedBy(k) == IF slot[k] \in Slots THEN pinned[slot[k]] ELSE None

\* rollback_and_release: a connection whose ROLLBACK fails is unusable, and the
\* pool discards it.
RollbackAndRelease(c) == \E p \in {"pool", "closed"} : Put(c, p, TRUE)

-----------------------------------------------------------------------------
(***************************************************************************)
(* The registry of tabs, query_sessions.                                   *)
(***************************************************************************)
register(t) ==
    /\ registered' = registered \cup {t}
    /\ active_runs' = [active_runs EXCEPT ![t] = @ + 1]
    /\ UNCHANGED saw_transaction

\* The entries of T are removed.
Forget(T) ==
    /\ registered' = registered \ T
    /\ active_runs' = [t \in Tabs |-> IF t \in T THEN 0 ELSE active_runs[t]]
    /\ saw_transaction' = saw_transaction \ T

\* The entry stays while runs are active, and for good once one of them
\* reported a transaction.
ReportWith(t, flag, left) ==
    LET saw == flag \/ t \in saw_transaction IN
    IF t \notin registered THEN UNCHANGED registry
    ELSE IF left = 0 /\ ~saw THEN Forget({t})
    ELSE /\ active_runs' = [active_runs EXCEPT ![t] = left]
         /\ saw_transaction' = IF saw THEN saw_transaction \cup {t} ELSE saw_transaction
         /\ UNCHANGED registered

\* A run may report to a later entry of its tab, which never counted it: hence
\* saturating_sub.  (The first form counts below zero.)
reportUnsaturated(t, flag) == ReportWith(t, flag, active_runs[t] - 1)

report(t, flag) == ReportWith(t, flag, IF active_runs[t] = 0 THEN 0 ELSE active_runs[t] - 1)

\* take_matching: the entries of T are removed, and a task is spawned to release
\* each of them.
TakeMatching(T) ==
    /\ Forget(T)
    /\ \E x \in [T -> {y \in Releases : phase[y] = "none"}] :
           LET started == {x[t] : t \in T} IN
           /\ Cardinality(started) = Cardinality(T)
           /\ phase' = [k \in Tasks |-> IF k \in started THEN "spawned" ELSE phase[k]]
           /\ tab' = [k \in Tasks |-> IF k \in started THEN CHOOSE t \in T : x[t] = k ELSE tab[k]]
           /\ inlined' = inlined \ started

-----------------------------------------------------------------------------
(***************************************************************************)
(* Runs: execute_query and execute_query_batch with a session, count_query *)
(* ("read") and exports with one, and runs that have none ("plain").       *)
(***************************************************************************)
Start(r, t, k, d) ==
    /\ phase[r] = "none" /\ ~down
    /\ phase' = [phase EXCEPT ![r] = IF k = "plain" THEN "locked" ELSE "spawned"]
    /\ tab' = [tab EXCEPT ![r] = t]
    /\ kind' = [kind EXCEPT ![r] = k]
    /\ db' = [db EXCEPT ![r] = d]
    /\ IF k = "session" THEN register(t) ELSE UNCHANGED registry
    /\ UNCHANGED <<slots, server, slot, client, inTransaction, statements, erred, cancelled, gone,
                   clearing, inlined, down, late>>

\* lock, first half: a reference to the slot, which is created when it is missing.
GetSlot(k) ==
    LET t == tab[k] IN
    /\ phase[k] = "spawned"
    /\ phase' = [phase EXCEPT ![k] = "waiting"]
    /\ \/ slotOf[t] \in Slots /\ slot' = [slot EXCEPT ![k] = slotOf[t]] /\ UNCHANGED slotOf
       \/ /\ slotOf[t] = None
          /\ \E s \in Slots : /\ s \notin Mapped /\ Refs(s) = {}
                              /\ slot' = [slot EXCEPT ![k] = s]
                              /\ slotOf' = [slotOf EXCEPT ![t] = s]
    /\ UNCHANGED <<holder, pinned, idle, server, tab, runs, registry, clearing, inlined, down, late>>

\* lock, second half.
Lock(r) ==
    /\ phase[r] = "waiting" /\ holder[slot[r]] = None
    /\ holder' = [holder EXCEPT ![slot[r]] = r]
    /\ phase' = [phase EXCEPT ![r] = "locked"]
    /\ UNCHANGED <<slotOf, pinned, idle, server, slot, tab, runs, registry, clearing, inlined, down, late>>

\* Where the handler goes on when the task has ended, if it is still there.
AfterTask(r, ok) ==
    IF kind[r] # "session" \/ r \in gone THEN "over" ELSE IF ok THEN "done" ELSE "failed"

\* check_pinned_database; an aside: a pinned connection is on the database that
\* the run which pinned it asked for.  (The first form checks nothing.)
RejectedNever(r) == FALSE

Rejected(r) == PinnedBy(r) # None /\ DatabaseOf[PinnedBy(r)] # db[r]

\* The run ends with an error and leaves the slot as it is.
Reject(r) ==
    /\ phase[r] = "locked" /\ Rejected(r)
    /\ LeavePinned(r, PinnedBy(r))
    /\ phase' = [phase EXCEPT ![r] = AfterTask(r, FALSE)]
    /\ UNCHANGED <<slotOf, idle, tab, runs, registry, clearing, inlined, down, late>>

\* The pinned connection, whose transaction is still open.
Take(r) ==
    /\ phase[r] = "locked" /\ kind[r] # "export"
    /\ PinnedBy(r) # None /\ ~Rejected(r)
    /\ client' = [client EXCEPT ![r] = PinnedBy(r)]
    /\ inTransaction' = [inTransaction EXCEPT ![r] = TRUE]
    /\ pinned' = [pinned EXCEPT ![slot[r]] = None]
    /\ Put(PinnedBy(r), "used", FALSE)
    /\ phase' = [phase EXCEPT ![r] = "running"]
    /\ UNCHANGED <<slotOf, holder, idle, slot, tab, kind, db, statements, erred, cancelled, gone,
                   registry, clearing, inlined, down, late>>

\* acquire_pg_client.
Acquire(r, c) ==
    /\ phase[r] = "locked" /\ kind[r] # "export"
    /\ PinnedBy(r) = None
    /\ place[c] = "pool" /\ DatabaseOf[c] = db[r]
    /\ client' = [client EXCEPT ![r] = c]
    /\ inTransaction' = [inTransaction EXCEPT ![r] = FALSE]
    /\ Put(c, "used", FALSE)
    /\ phase' = [phase EXCEPT ![r] = "running"]
    /\ UNCHANGED <<slots, slot, tab, kind, db, statements, erred, cancelled, gone,
                   registry, clearing, inlined, down, late>>

AcquireFails(r) ==
    /\ phase[r] = "locked" /\ kind[r] # "export"
    /\ PinnedBy(r) = None
    /\ LeavePinned(r, None)
    /\ phase' = [phase EXCEPT ![r] = AfterTask(r, FALSE)]
    /\ UNCHANGED <<slotOf, idle, tab, runs, registry, clearing, inlined, down, late>>

Effects == {"opens", "closes", "chains", "none"}

\* What the server does.  A COMMIT that fails ends the transaction too, outside of
\* a transaction there is nothing to chain to, and a statement with a syntax error is
\* refused before it ends anything.
Outcomes(e, before) ==
    (IF e = "chains" /\ ~before THEN {"error"} ELSE {"ok", "error"})
        \cup (IF Malformed /\ e \in {"closes", "chains"} THEN {"refused"} ELSE {})

ServerAfter(e, outcome, before) ==
    IF outcome = "refused" THEN before
    ELSE CASE e = "opens"  -> outcome = "ok" \/ before
           [] e = "closes" -> FALSE
           [] e = "chains" -> outcome = "ok"
           [] OTHER        -> before

\* TransactionEffect::in_transaction_after.  (The first form forgets AND CHAIN.)
InTransactionAfterUnchained(e, ok, before) ==
    IF e = "opens" /\ ok THEN TRUE ELSE IF e \in {"closes", "chains"} THEN FALSE ELSE before

InTransactionAfter(e, ok, before) ==
    IF e \in {"opens", "chains"} /\ ok THEN TRUE
    ELSE IF e = "closes" \/ (e = "chains" /\ ~ok) THEN FALSE
    ELSE before

\* read_in_open_transaction: the statements of a read leave the transaction alone.
EffectsOf(k) == IF k = "read" THEN {"none"} ELSE Effects

Exec(r, e, outcome) ==
    LET c == client[r]
        ok == outcome = "ok" IN
    /\ phase[r] = "running" /\ statements[r] < MaxStatements
    /\ e \in EffectsOf(kind[r])
    /\ outcome \in Outcomes(e, open[c])
    /\ statements' = [statements EXCEPT ![r] = @ + 1]
    /\ erred' = IF ok THEN erred \ {r} ELSE erred \cup {r}
    /\ inTransaction' = [inTransaction EXCEPT ![r] = InTransactionAfter(e, ok, @)]
    /\ open' = [open EXCEPT ![c] = ServerAfter(e, outcome, @)]
    /\ UNCHANGED <<slots, place, phase, slot, tab, kind, db, client, cancelled, gone,
                   registry, clearing, inlined, down, late>>

\* The last statement has run: the connection is pinned, rolled back or returned.
\* A batch reports its statements' errors; execute_query fails with that of its
\* only one.
Finish(r) ==
    LET c == client[r]
        pin == inTransaction[r] /\ slot[r] \in Slots IN
    /\ phase[r] = "running"
    /\ \/ /\ pin /\ LeavePinned(r, c)
          /\ idle' = [idle EXCEPT ![slot[r]] = 0]
       \/ /\ ~pin /\ Leave(r, None) /\ UNCHANGED idle
          /\ IF inTransaction[r] THEN RollbackAndRelease(c) ELSE Put(c, "pool", FALSE)
    /\ inTransaction' = [inTransaction EXCEPT ![r] = pin]
    /\ client' = [client EXCEPT ![r] = None]
    /\ \E ok \in BOOLEAN : /\ ok \/ (r \in erred /\ statements[r] = 1)
                          /\ phase' = [phase EXCEPT ![r] = AfterTask(r, ok)]
    /\ UNCHANGED <<slotOf, tab, kind, db, statements, erred, cancelled, gone, registry, clearing,
                   inlined, down, late>>

\* stream_query: an export borrows the pinned connection; without one it runs on
\* a connection of its own.
Export(r) ==
    /\ phase[r] = "locked" /\ kind[r] = "export" /\ ~Rejected(r)
    /\ IF PinnedBy(r) = None
       THEN /\ LeavePinned(r, None)
            /\ phase' = [phase EXCEPT ![r] = "over"]
       ELSE /\ phase' = [phase EXCEPT ![r] = "exporting"]
            /\ UNCHANGED <<holder, pinned, slot, server>>
    /\ UNCHANGED <<slotOf, idle, tab, runs, registry, clearing, inlined, down, late>>

\* It marks the connection as used, unless its SAVEPOINT has failed.
ExportEnds(r) ==
    /\ phase[r] = "exporting"
    /\ LeavePinned(r, PinnedBy(r))
    /\ idle' \in {idle, [idle EXCEPT ![slot[r]] = 0]}
    /\ phase' = [phase EXCEPT ![r] = "over"]
    /\ UNCHANGED <<slotOf, tab, runs, registry, clearing, inlined, down, late>>

-----------------------------------------------------------------------------
(***************************************************************************)
(* Cancellation and the end of a handler.                                  *)
(***************************************************************************)
InTask == {"spawned", "waiting", "locked", "running", "exporting"}

\* Everything task r holds is dropped; InFlight closes its connection.
DropTask(r) ==
    IF phase[r] = "running" THEN Leave(r, None) /\ Put(client[r], "closed", TRUE)
    ELSE LeavePinned(r, PinnedBy(r))

\* cancel_query, or a handler that is dropped: AbortHandle::abort.
Cancel(r) ==
    /\ phase[r] \in InTask /\ kind[r] # "read" /\ r \notin cancelled
    /\ cancelled' = cancelled \cup {r}
    /\ UNCHANGED <<slots, server, phase, slot, tab, kind, db, client, inTransaction, statements,
                   erred, gone, registry, clearing, inlined, down, late>>

\* The runtime drops a task that was aborted, if it has not ended by then.
Abort(r) ==
    /\ phase[r] \in InTask /\ r \in cancelled
    /\ DropTask(r)
    /\ client' = [client EXCEPT ![r] = None]
    /\ phase' = [phase EXCEPT ![r] = AfterTask(r, FALSE)]
    /\ UNCHANGED <<slotOf, idle, tab, kind, db, inTransaction, statements, erred, cancelled, gone,
                   registry, clearing, inlined, down, late>>

\* The handler is dropped, because the request's deadline or its session's has
\* passed: the task is aborted, and nothing will be reported.
Expire(r) ==
    /\ Deadlines /\ phase[r] \in InTask /\ kind[r] # "read" /\ r \notin gone
    /\ gone' = gone \cup {r} /\ cancelled' = cancelled \cup {r}
    /\ UNCHANGED <<slots, server, phase, slot, tab, kind, db, client, inTransaction, statements,
                   erred, registry, clearing, inlined, down, late>>

\* The same for a read, which has no task of its own, and for a handler that
\* only has to report.
ExpireHandler(r) ==
    /\ Deadlines
    /\ \/ phase[r] \in InTask /\ kind[r] = "read"
       \/ phase[r] \in {"done", "failed", "asking", "answered"}
    /\ DropTask(r)
    /\ client' = [client EXCEPT ![r] = None]
    /\ phase' = [phase EXCEPT ![r] = "over"]
    /\ UNCHANGED <<slotOf, idle, tab, kind, db, inTransaction, statements, erred, cancelled, gone,
                   registry, clearing, inlined, down, late>>

\* session_in_transaction after a run that failed: is_pinned, in two steps.
Ask(r) ==
    LET s == slotOf[tab[r]] IN
    /\ phase[r] = "failed"
    /\ phase' = [phase EXCEPT ![r] = IF s = None THEN "answered" ELSE "asking"]
    /\ slot' = [slot EXCEPT ![r] = s]
    /\ inTransaction' = [inTransaction EXCEPT ![r] = FALSE]
    /\ UNCHANGED <<slots, server, tab, kind, db, client, statements, erred, cancelled, gone,
                   registry, clearing, inlined, down, late>>

Answer(r) ==
    /\ phase[r] = "asking" /\ holder[slot[r]] = None
    /\ inTransaction' = [inTransaction EXCEPT ![r] = PinnedBy(r) # None]
    /\ LeavePinned(r, PinnedBy(r))
    /\ phase' = [phase EXCEPT ![r] = "answered"]
    /\ UNCHANGED <<slotOf, idle, tab, kind, db, client, statements, erred, cancelled, gone,
                   registry, clearing, inlined, down, late>>

Report(r) ==
    /\ phase[r] \in {"done", "answered"}
    /\ report(tab[r], inTransaction[r])
    /\ phase' = [phase EXCEPT ![r] = "over"]
    /\ UNCHANGED <<slots, server, slot, tab, runs, clearing, inlined, down, late>>

-----------------------------------------------------------------------------
(***************************************************************************)
(* Releases.                                                               *)
(***************************************************************************)
\* release_query_session, when the tab closes or discards its transaction; the
\* handler awaits the release.
ReleaseTab(t, x) ==
    /\ t \in registered /\ phase[x] = "none"
    /\ Forget({t})
    /\ phase' = [phase EXCEPT ![x] = "spawned"]
    /\ tab' = [tab EXCEPT ![x] = t]
    /\ inlined' = inlined \cup {x}
    /\ UNCHANGED <<slots, server, slot, runs, clearing, down, late>>

\* release_connection, when the owner disconnects.
ReleaseConnection(o) ==
    LET T == {t \in registered : OwnerOf[t] = o} IN
    /\ T # {} /\ TakeMatching(T)
    /\ UNCHANGED <<slots, server, slot, runs, clearing, down, late>>

\* clear_session: cancel_session_queries, then clear_owner and
\* cancel_session_exports.
CancelOwner(o) ==
    /\ o \notin clearing
    /\ clearing' = clearing \cup {o}
    /\ cancelled' = cancelled \cup
           {r \in Runs : phase[r] \in InTask /\ kind[r] \in {"session", "plain"} /\ OwnerOf[tab[r]] = o}
    /\ UNCHANGED <<slots, server, phase, slot, tab, kind, db, client, inTransaction, statements,
                   erred, gone, registry, inlined, down, late>>

ClearOwner(o) ==
    /\ o \in clearing
    /\ clearing' = clearing \ {o}
    /\ TakeMatching({t \in registered : OwnerOf[t] = o})
    /\ cancelled' = cancelled \cup
           {r \in Runs : phase[r] \in InTask /\ kind[r] = "export" /\ OwnerOf[tab[r]] = o}
    /\ UNCHANGED <<slots, server, slot, kind, db, client, inTransaction, statements, erred, gone,
                   down, late>>

\* release: the lock is held only to take the connection.
Release(x) ==
    /\ phase[x] = "waiting" /\ holder[slot[x]] = None
    /\ Leave(x, None)
    /\ RollbackAndRelease(PinnedBy(x))
    /\ phase' = [phase EXCEPT ![x] = "none"]
    /\ UNCHANGED <<slotOf, idle, tab, runs, registry, clearing, inlined, down, late>>

\* The handler that awaits a release is dropped.
ExpireRelease(x) ==
    /\ Deadlines /\ x \in inlined /\ phase[x] \in {"spawned", "waiting"}
    /\ LeavePinned(x, PinnedBy(x))
    /\ phase' = [phase EXCEPT ![x] = "none"]
    /\ UNCHANGED <<slotOf, idle, tab, runs, registry, clearing, inlined, down, late>>

\* sweep_idle, for one entry of the map, which it visits if nobody holds the slot.
\* (The first form forgets the slot although a task has a reference to it.)
ForgetsReferenced(t, left) == left = None

Forgets(t, left) == left = None /\ Refs(slotOf[t]) = {}

Sweep(t) ==
    LET s == slotOf[t]
        expired == pinned[s] # None /\ idle[s] > MaxIdle
        left == IF expired THEN None ELSE pinned[s] IN
    /\ s \in Slots /\ holder[s] = None
    /\ expired \/ Forgets(t, left)
    /\ pinned' = [pinned EXCEPT ![s] = left]
    /\ IF expired THEN RollbackAndRelease(pinned[s]) ELSE UNCHANGED server
    /\ slotOf' = IF Forgets(t, left) THEN [slotOf EXCEPT ![t] = None] ELSE slotOf
    /\ UNCHANGED <<holder, idle, phase, slot, tab, runs, registry, clearing, inlined, down, late>>

\* release_all at shutdown, with three seconds for it: what is not rolled back by
\* then goes back to the pools as it is.
ReleaseAll ==
    LET S == {s \in Slots \cap Mapped : holder[s] = None}
        C == {pinned[s] : s \in S} \ {None} IN
    /\ ~down /\ down' = TRUE
    /\ pinned' = [s \in Slots |-> IF s \in S THEN None ELSE pinned[s]]
    /\ slotOf' = [t \in Tabs |-> IF slotOf[t] \in S THEN None ELSE slotOf[t]]
    /\ late' \in SUBSET C
    /\ place' = [c \in Clients |-> IF c \in C THEN "pool" ELSE place[c]]
    /\ open' = [c \in Clients |-> open[c] /\ c \notin C \ late']
    /\ UNCHANGED <<holder, idle, phase, slot, tab, runs, registry, clearing, inlined>>

\* Time passes for a connection that is pinned.
Tick(s) ==
    /\ pinned[s] # None /\ idle[s] <= MaxIdle
    /\ idle' = [idle EXCEPT ![s] = @ + 1]
    /\ UNCHANGED <<slotOf, holder, pinned, server, phase, slot, tab, runs, registry, clearing,
                   inlined, down, late>>

Init ==
    /\ slotOf = [t \in Tabs |-> None]
    /\ holder = [s \in Slots |-> None] /\ pinned = [s \in Slots |-> None]
    /\ idle = [s \in Slots |-> 0]
    /\ place = [c \in Clients |-> "pool"] /\ open = [c \in Clients |-> FALSE]
    /\ phase = [k \in Tasks |-> "none"] /\ slot = [k \in Tasks |-> None]
    /\ tab = [k \in Tasks |-> None]
    /\ kind = [r \in Runs |-> "plain"] /\ db = [r \in Runs |-> None]
    /\ client = [r \in Runs |-> None] /\ inTransaction = [r \in Runs |-> FALSE]
    /\ statements = [r \in Runs |-> 0] /\ erred = {} /\ cancelled = {} /\ gone = {}
    /\ registered = {} /\ active_runs = [t \in Tabs |-> 0] /\ saw_transaction = {}
    /\ clearing = {} /\ inlined = {} /\ down = FALSE /\ late = {}

\* What a task does once it has begun, its cancellation apart.
RunStep(r) ==
    \/ GetSlot(r) \/ Lock(r) \/ Reject(r) \/ Take(r)
    \/ \E c \in Clients : Acquire(r, c)
    \/ AcquireFails(r) \/ Finish(r) \/ Export(r) \/ ExportEnds(r)
    \/ Abort(r) \/ Ask(r) \/ Answer(r) \/ Report(r)

ReleaseStep(x) == GetSlot(x) \/ Release(x)

Next ==
    \/ \E r \in Runs :
        \/ \E t \in Tabs, k \in Kinds, d \in Databases : Start(r, t, k, d)
        \/ \E e \in Effects, outcome \in {"ok", "error", "refused"} : Exec(r, e, outcome)
        \/ RunStep(r) \/ Cancel(r) \/ Expire(r) \/ ExpireHandler(r)
    \/ \E x \in Releases : ReleaseStep(x) \/ ExpireRelease(x) \/ \E t \in Tabs : ReleaseTab(t, x)
    \/ \E o \in Owners : ReleaseConnection(o) \/ CancelOwner(o) \/ ClearOwner(o)
    \/ \E t \in Tabs : Sweep(t)
    \/ ReleaseAll
    \/ \E s \in Slots : Tick(s)

Spec == Init /\ [][Next]_vars
-----------------------------------------------------------------------------
(***************************************************************************)
(* Properties.                                                             *)
(***************************************************************************)
Places == {"pool", "used", "pinned", "closed"}

Phases == InTask \cup {"none", "done", "failed", "asking", "answered", "over"}

SlotsOK ==
    /\ slotOf \in [Tabs -> Slots \cup {None}]
    /\ holder \in [Slots -> Tasks \cup {None}]
    /\ pinned \in [Slots -> Clients \cup {None}]
    /\ idle \in [Slots -> 0 .. MaxIdle + 1]

ServerOK == place \in [Clients -> Places] /\ open \in [Clients -> BOOLEAN]

TasksOK ==
    /\ phase \in [Tasks -> Phases]
    /\ \A x \in Releases : phase[x] \in {"none", "spawned", "waiting"}
    /\ slot \in [Tasks -> Slots \cup {None}]
    /\ tab \in [Tasks -> Tabs \cup {None}]
    /\ \A k \in Tasks : phase[k] # "none" => tab[k] \in Tabs
    /\ inlined \subseteq Releases

RunsOK ==
    /\ kind \in [Runs -> Kinds \cup {"plain"}] /\ db \in [Runs -> Databases \cup {None}]
    /\ client \in [Runs -> Clients \cup {None}]
    /\ inTransaction \in [Runs -> BOOLEAN]
    /\ statements \in [Runs -> 0 .. MaxStatements]
    /\ erred \subseteq Runs /\ cancelled \subseteq Runs /\ gone \subseteq Runs

RegistryOK ==
    /\ registered \subseteq Tabs /\ active_runs \in [Tabs -> Nat]
    /\ saw_transaction \subseteq registered
    /\ clearing \subseteq Owners /\ down \in BOOLEAN /\ late \subseteq Clients

\* The variables keep their types.
TypeOK == SlotsOK /\ ServerOK /\ TasksOK /\ RunsOK /\ RegistryOK

\* "An open transaction can never leak into an unrelated query": no connection
\* that a pool may lend is inside a transaction, whatever was cancelled, dropped
\* or released meanwhile, except those that release_all had no time for.
PoolIsClean == \A c \in Clients : place[c] = "pool" /\ open[c] => c \in late

\* The connections that runs of the tab use, or that are kept for it.
ConnectionsOf(t) ==
    {client[r] : r \in {q \in Runs : phase[q] = "running" /\ kind[q] # "plain" /\ tab[q] = t}}
        \cup (IF slotOf[t] \in Slots THEN {pinned[slotOf[t]]} \ {None} ELSE {})

\* Overlapping runs of a tab execute one after the other on the same connection:
\* as long as the application is not shut down, a tab never has two.
OneConnection == ~down => \A t \in Tabs : Cardinality(ConnectionsOf(t)) <= 1

\* No statement runs on a database that its run did not ask for, although the
\* connection may be one that an earlier run of the tab has left.
RightDatabase == \A r \in Runs : phase[r] = "running" => DatabaseOf[client[r]] = db[r]

\* No transaction stays open on the server unless somebody can end it: a run uses
\* the connection, or it is pinned where the map or a task can still find it.
NothingStranded ==
    \A c \in Clients : open[c] /\ c \notin late =>
        \/ \E r \in Runs : phase[r] = "running" /\ client[r] = c
        \/ \E s \in Slots : pinned[s] = c /\ (s \in Mapped \/ Refs(s) # {})
=============================================================================
