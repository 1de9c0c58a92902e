# TLA+ models of Tabularis

Tabularis is a database client that runs as a desktop application (Tauri), as a
headless web server with a browser client, and as an MCP subprocess that AI
assistants start. This directory holds TLA+ models of the parts of it in which the
order of events matters, in the backend and in the user interface, the TLC runs that
check them on small instances, and TLAPS proofs of what matters most for instances of
every size. Paths below are relative to the repository; those
in the tables to `src-tauri/src` or `packages/web-ui/src`.

## 1. The system

### Components, their state and their operations

| component | source | state | operations | modelled in |
|---|---|---|---|---|
| web event bus | `transport/web/events.rs` | sessions with a level, a replay history, connections with subscriptions and a bounded queue; one counter of sequence numbers | connect, disconnect, subscribe (with replay), unsubscribe, emit, emit_to, recv, remove, cleanup | `EventBus` |
| event sockets | `transport/web/server.rs` (event_stream, event_socket, handle_event_control) | one task per WebSocket | upgrade, control messages, forwarding, heartbeats, close | `EventDelivery` |
| browser transport | `api/transports/httpTransport.ts` | handlers, one socket, lastSequence, a reconnect timer, the negotiated session | subscribe, unsubscribe, reconnect, renewSession, initialize, socket callbacks | `HttpTransport` |
| MCP approval gate | `ai_approval.rs`, `mcp/mod.rs`, `application/ai.rs`, `useAiActivity.ts` | a directory of pending and decision files; owners of approvals; the prompts that pages show | run_query, poll, list, claim, decide | `ApprovalGate` |
| approval-host heartbeat | `heartbeat.rs` | one file that several hosts touch | start, refresh, stop, is_alive | `ApprovalGate` |
| approval watchers, cleanup | `ai_approval_watcher.rs`, `transport/desktop/ai_approval_watcher.rs` | what was delivered to whom | poll the directory, hand prompts to sessions, remove old files | `ApprovalGate` |
| pinned PostgreSQL sessions | `drivers/postgres/session.rs`, `drivers/postgres/mod.rs`, `drivers/postgres/export.rs` | a map of slots with a lock each, at most one pinned connection per slot | lock, take, pin, release, sweep_idle, release_all | `PgSession` |
| query-session registry | `application/query_sessions.rs` | the tabs that may have a pinned connection | register, report, release, release_connection, clear_owner | `PgSession` |
| query execution, cancellation | `application/queries.rs`, `commands.rs` | abort handles of running tasks | execute, count, cancel, cancel_session_queries | `PgSession` (partly) |
| editor tabs | `contexts/EditorProvider.tsx`, `utils/editor.ts`, `tabPins.ts`, `tabDnd.ts`, `closedTabs.ts`, `tabScroll.ts` | one list of the tabs of all connections; per connection the active tab, the recent ones, the preview, the closed ones; loads in flight | open, close (one or many), reopen, pin, drag, switch connection, load, save, release of pinned sessions | `EditorTabs` |
| open connections | `contexts/DatabaseProvider.tsx`, `utils/restoreSession.ts`, `hooks/useOpenConnectionInNewWindow.ts` | the list of open connections, the active one, an entry per connection with its schemas and databases; calls in flight with the state they captured | connect, disconnect, restore, detach, disable a plugin, load schemas, databases and tables, select databases, load saved connections | `Connections` |
| result grid | `pages/Editor.tsx`, `utils/autoRefresh.ts`, `hooks/useAutoRefresh.ts`, `utils/gridUndo.ts` | per tab: result, columns, pending edits with their history, selection, runs and requests in flight | run, refresh by hand or timer, stop, edit, undo, redo, submit | `TabGrid` |
| connection pools, health check | `pool_manager.rs`, `health_check.rs` | maps of pools | get or create, close | planned |
| web sessions | `transport/web/auth.rs` | session store, login throttle | issue, touch, elevate, logout, expire | planned |
| file transfers | `application/file_transfers.rs` | directories of uploads and downloads per session | begin, chunk, finish, sweep | planned |
| plugin processes | `plugins/driver.rs`, `plugins/shutdown_grace.rs`, `plugins/call_timeout.rs` | a child process with its pipes, a bounded channel of commands, pending requests by id, whether it is initialized | call, answer, time out, cancel, abort, stop, let go | `PluginProcess` |
| tunnels, proxies | `ssh_tunnel.rs`, `k8s_tunnel.rs`, `ssm_tunnel.rs`, `proxy/` | maps of tunnels | open, reuse, stop | not yet |
| everything else | see PROJECT.json | files and data | load, edit, save, convert | no, with the reason in PROJECT.json |

### How they interact

* Every part of the server publishes through the event bus; each browser tab has
  one WebSocket to it. The session store decides which cookie a socket is
  accepted with. A logout removes the session from the bus, cancels the queries of
  the session, releases its tabs' transactions and hands its approvals back
  (`ApplicationApi::clear_session`).
* The MCP subprocess shares no memory with the desktop application or the server.
  They communicate through files: a pending request, a decision, a heartbeat.
* A run of a query is a task that its handler awaits. The handler may be dropped
  by the deadline of the request; the task may be aborted by a cancel. The
  connection a run uses belongs to a pool, to the run, or to the slot of a tab.
* A driver that is a plugin runs in a process of its own. Callers put commands in a
  channel; one task owns the process, writes its stdin, reads its stdout and
  hands the answers out.

* In the user interface, the tabs follow the active connection: switching to one
  loads its tabs, unless they are in memory, and every change of them is saved. Closing a
  tab releases the pinned session that the backend keeps for it. The result grid
  belongs to a tab and runs queries of its connection; Stop cancels them.
* A React callback sees the state of the render it was created in. After an
  await it may change the current state (`setX(prev => ...)`) or overwrite it
  with what it captured; which of the two it does decides most of what can go
  wrong in the three modules of the user interface.

### What is hard

Interleavings of tasks between two awaits and between two locks; callbacks of
sockets that have been replaced; replay after a lost socket; queues, histories and
session tables at their limits; a server restart that starts sequence numbers
over; files that are read while they are written; subprocesses that are killed;
wall-clock ages against monotonic timers; handlers that are dropped; sweeps that
race with the tasks they sweep after; transaction state that the driver infers
and the server knows; state captured by a closure and written back after an
await; answers that arrive after their question has become irrelevant. PROJECT.json lists each of them under "hazards", at its line.

### What makes the components correct

* Bus and delivery: bounded whatever clients do; a session never gets what its
  level forbids or what was meant for another; a connection the bus keeps misses
  nothing; a tab sees events in order, once, and misses only what the history no
  longer has; a broken connection comes back.
* Approval gate: nothing runs that no entitled user permitted; every call ends;
  prompts reach somebody who can answer; files do not pile up; nothing is refused
  for want of a host that is there.
* Pinned sessions: no connection in a pool is inside a transaction; the runs of a
  tab share one connection; a statement runs on the database it was meant for; no
  transaction is left where nobody can end it.

* Editor tabs: no connection's tabs are disturbed by what happens to another;
  something is always active; pinned tabs come first; a closed tab can be
  had back where it was; no pinned session outlives its tab.
* Open connections: what is shown of a connection is from its latest attempt; the
  list, the entries and the active one agree; nothing spins for ever and
  nothing loaded is lost.
* Plugin processes: callers and the task that owns the process agree on who waits; nothing
  overtakes `initialize`; a call with a timeout returns and a stop ends, whatever the
  plugin does.
* Result grid: rows do not change under an edit or a selection; results and
  columns never go back; a refresh loses no edits.

## 2. Modules

### EventBus

One action per method of `WebEventBus`: `Connect`, `ConnectRejected`,
`Disconnect`, `Subscribe`, `Unsubscribe`, `Publish`, `RemoveSession`, `Recv`, and
`Tick` for time. Each is atomic because the method holds the one mutex. `connect`
evicts expired sessions and, at the limit, the one that was idle longest and has
no connection; `publish` filters by level and addressee, appends to the
history, and drops a connection whose queue is full. Envelopes keep their event, their sequence
number and their addressee; payloads carry nothing else. `scope`, `subscribedAt`
and `taken` record what the receiver object and its caller know.

### HttpTransport and EventDelivery

`HttpTransport` has the client's methods as operators on a record of its fields:
given the record, an operator returns the record after the method has run to its
next await. `EventDelivery` composes one tab with the bus: it adds the wire (one
inbox and one outbox per socket, in order, lost with the socket), the server's
task per socket, the session store as far as a socket sees it, logout, expiry and
a restart of the server. `transport` is the record. Three variables are auxiliary, read by
no action: `delivered` and `owed` say what handlers were given, and what was published while
the tab had a handler, under which session; `carried` says that `initialize()` has set a session and
kept the `lastSequence` of the one before (section 6).

### ApprovalGate

Three processes that share a directory. The subprocess: `RunQuery` (configuration,
read-only check, gate), `OpenPending`/`WritePending` (creating a file and
writing it are two steps), `ReadDecision`/`TakeDecision`/`CheckHost` (one round of
the poll), `McpCrash`. The hosts: heartbeat, watcher (one step per lock), cleanup,
and the handlers behind the pages, where the authorized sessions are read under
one lock and owners are compared under another. The users: they load a page, see prompts,
answer or edit. `verdicts` is the history variable that records which decisions
entitled users have made.

### PgSession

Tasks (runs and releases) take a reference to a slot under the map's lock, wait
for the slot's lock, take or acquire a connection, execute statements, and pin,
roll back or return it; at every await they may be dropped. `open` is what the
server knows, `inTransaction` what the driver has worked out. Slots are kept alive
by references, as `Arc` does, and dropping the last one closes what is pinned.
The registry is translated method by method.

### Consent

What the gate promises, without files, hosts and watchers: a call is refused, runs
at once, or waits; users answer, several of them and in different ways if they
like; one answer that was really given is taken, once, and carried out as it says; a
call that is abandoned has run nothing. `ApprovalGate` implements it
(`KeepsItsPromise`) under the mapping that keeps of a call's phase only unasked,
waiting, answered, over or abandoned, and of its query everything but the connection.

### EditorTabs

An action per function of the provider's context value, and `load`s that are read and
landed in separate steps. A step includes the renders it causes and the effects that
these run, in their order, each with the state of its render: the effect that saves
after the one that starts a load still sees the old `isLoading`. `storage` is what
the backend has of each connection, `sessions` the pinned sessions it keeps, and
`releases` the calls of `release_query_session` on their way to it. The
functions on lists of tabs (`moveTab`, `keepPinnedTabsFirst`,
`insertReopenedTab`, `pushClosedTabs`, ...) keep their names. JavaScript's `filter` is
`Filter`, a recursive function, which the proofs can reason about.

### Connections

A call in flight is a record of what its closure captured: the list of open
connections, the active one, a map of schemas. An answer (`Answered`) either changes
the current state or overwrites it with what was captured. `races` records which of six
overwrites has happened to a state that had changed meanwhile; the agreement of
list, entries and active connection is claimed while none has. The six are described
under the observations of section 6. `list` and `version` are the saved connections
and the counter that guards their loads.

### TabGrid

`generation` is `queryGenerationRef`, a run carries the generation, shape and
validity with which it began, and a result is known by the generation of its run.
`Invalidate` is a new revision of the refresh schedule. Pending changes, deletions and
insertions are one set of edits, the undo history a sequence of such sets. Requests
for column metadata are answered apart from the run that asks for them. A submission
goes through its confirmation, the calls to the backend and the refresh after it,
which is that of the tab that is active by then.

### PluginProcess

A call goes through `call_detailed`, `get_or_init`, `send_request`, `reserve`,
`permit_send` and waits; every await is a state of `pc` in which the caller may be
aborted. The first calls send `initialize` through the same steps (`stage`). The
manager is one action per branch of its `select!`; while it writes a line
(`writing`) or kills the child it does nothing else. `line_buf` is a `read_line` that has
got the first piece of an answer: `select!` drops it, with the piece, when another
branch is taken. The plugin is external and may do anything the protocol lets it do.
`told` is auxiliary: an `initialize` has been written.

### Which definition stands for which lines

PROJECT.json, "map". The MC modules only give values to constants.

## 3. Runs

"pass" runs finish without error; "violation" runs show a disagreement between
the code and what a comment or a document says of it (section 6).

| run | specification | instance | shows |
|---|---|---|---|
| `delivery` | `Spec` | 2 sessions, 2 sockets, 2 handlers of 2 events, 3 events published, 1 lost socket; or one logout, expiry or restart and a rejected request | TypeOK, BusInv (the inductive invariant of the bus), InOrderOnce, MissedOnlyIfEvicted, OneSocket, NothingNewFilteredInSession |
| `delivery_live` | `FairSpec` | 1 session, 2 sockets, 1 handler, 2 events for everybody, 1 lost socket | ServedAgain, SubscribeSettles, OwedIsDelivered |
| `renewal_strands_events` | `FairSpec` | 2 sessions, 1 rejected request | violation of ServedAgain |
| `gate` | `Spec` | 1 call of either kind, gate off or for writes, desktop user and 1 browser session, crash, torn files | TypeOK, NothingUnapproved, KeepsItsPromise |
| `gate_time` | `LiveSpec` | 2 hosts, missed refreshes, restarts, 1 suspension, timeout as long as files are kept | RunningHostIsAlive, PromptStaysWhilePolled, CallsSettle, LeftoversCleared |
| `gate_prompt` | `LiveSpec` | 2 browser sessions that open and give up the connection up to 5 times | PromptFindsItsUser |
| `pg_sessions` | `Spec` | 1 tab, 2 runs of 4 kinds, 2 databases, 1 release at a time, 2 slots | TypeOK, PoolIsClean, OneConnection, RightDatabase, NothingStranded |
| `editor_tabs` | `Spec` | 2 connections, 3 tab ids, consoles and notebooks, 2 loads, 1 closed tab, 1 pinned session, a backend that handles calls in any order | TypeOK, PinnedFirst, ActiveIsOpen, RecentAreOpen, ReopenUndoesClose, SessionsAreOwned, OthersUntouched |
| `connections` | `Spec` | 2 connections, 2 schemas, 3 attempts, 3 calls in flight, 2 loads of the saved list | LatestAttempt, AgreeUnlessRaced, LoadsSurvive (with NothingStuck), NeverOlder |
| `tab_grid` | `Spec` | 1 table tab and 1 console, 3 runs, 1 edit, 1 submission | LoadingMeansBusy, RowsStayUnderEdits, ResultsInOrder |
| `plugin_calls` | `FairSpec` | 2 calls, with and without a timeout, room for 1 in the channel and the pipes, 1 abort, a stop or a drop | Accounted, InitializeFirst, CallsReturn, StopEnds |
| `submit_and_switch` | `Spec` | 2 table tabs, 2 runs, 1 submission | violation of RemainingPreserved |

### Bounds, and why they are enough

Bounds in the guards (MaxLosses, MaxEnds, MaxRestarts, MaxRequests, MaxStarts,
MaxSuspends, MaxMoves, MaxAttempts, MaxCalls, MaxRuns, ...) limit how often the environment
or a user does something. Constraints in the MC modules keep combinations apart
that have nothing to do with each other:

* `delivery`: queue 1 and history 2 are the smallest values at which a queue overflows while
  the history still has the event, and at which the history drops one that the
  queue has. Three events are one before, one in and one after a gap. Room for one
  session makes the second evict it. All sessions are of one level here; isolation
  between levels, and any number of sessions, are covered by the proof of BusInv
  and not by a run. Two handlers of two events interact only through subscribe and unsubscribe,
  so they are followed while nothing is published and one of them afterwards
  (`OneWhenPublished`). Sessions that end and a restart are followed one at a time, and
  without lost sockets (`OneUpheaval`): either already replaces the socket.
  In `delivery_live` events are for everybody (`ForEverybody`), which for one session
  is no difference.
* `gate`: one call is enough because calls share nothing but the watcher's rounds;
  what is checked is proved for any number. Denials are followed while one host has been
  started (`DeniedEarly`). Time does not pass in `gate` and `gate_prompt`, whose
  properties do not depend on it. In `gate_time` ages are counted in heartbeat
  intervals and capped above the largest limit they are compared with; refreshes are
  missed before a suspension or not at all (`OneMishap`). In `gate_prompt`, `OneByOne`
  lets the second session begin after the first has moved twice: the prompt has to be
  given to one and taken over by the other.
* `pg_sessions`: two runs of a tab make every overlap, and one statement each makes BEGIN in one
  and COMMIT (AND CHAIN) in the next; two slots are what one tab can have at a
  time. `MaxIdle = 0` lets a pinned connection expire after one tick. One run is
  aborted or loses its handler (`OneCutShort`): that of the other is the same case.
* `editor_tabs`: two connections and two tabs of one of them make every switch, load and
  close meet; the third tab makes a middle one, for the moves and for reopening in place,
  and is followed within one connection (`OneAtATime`). A stack of one closed tab
  overflows with the second. Two tabs that load at a time are two connections
  between which the user goes to and fro. The `VIEW` drops the active tab of a
  connection without tabs, which nothing reads.
* `connections`: a third attempt is needed for one that was superseded twice, or made of
  another connection while two attempts of the first are in flight; schemas are loaded in
  the first two and of one connection, because a load only touches its own entry. After one overwrite
  of newer state no other is followed: nothing is claimed any more.
* `tab_grid`: a table tab, whose runs queue up, and a console, whose runs overlap,
  are used one at a time, and both only around a submission, which is the only thing that
  reaches from one tab into another. Three runs are one that is shown, one
  under way and one that overtakes it; one edit is one pending or none; a
  history of one step overflows with the second.
* `plugin_calls`: of two calls one initializes while the other waits, overtakes or is left to
  initialize after an abort. Room for one in the channel and in each pipe makes every one
  of them block; the code's 100 only does so later. Two calls send up to four requests and
  as many cancels. An answer in two pieces is the shortest that can be cut.
* Symmetry is used in safety runs only, over ids that no other constant tells
  apart.

### Fairness

* `EventDelivery`: weak fairness of the server's task per socket, of the browser's
  callbacks and timers and of the page's next call that initializes: each
  is a task or callback that is scheduled once it is enabled. Strong fairness of
  the successful load of a session: loads may fail any number of times, but not
  for ever. Losses, logouts, unsubscribes and events need not happen.
* `ApprovalGate`: weak fairness of the poll, of the writes, of the watcher, the
  cleanup, the refreshes, of handlers that have begun, and of time. No
  fairness for users, for pages or for hosts that start.
* `PluginProcess`: weak fairness of what a call does by itself once it has begun, its timeout included,
  of every branch of the manager's `select!` (it takes its ready branches in random
  order), of the write, the kill and the steps of `stop`: tasks and timers that the
  runtime runs. None for the plugin, its answers, or whoever stops and aborts.
  CallsReturn alone assumes that the plugin goes on reading its stdin, which
  `plugins/PLUGIN_GUIDE.md:920` asks of it; what happens otherwise is in section 6.
* `PgSession`, `EditorTabs`, `Connections` and `TabGrid` are checked for safety only: a
  backend call need not be answered, and that nothing spins without one under
  way is stated as an invariant (NothingStuck, LoadingMeansBusy).

## 4. Proofs

`EventBusProofs` proves, for every number of sessions, connections and events,
every capacity and every table of levels, from ConfigAssumption, LevelsAssumption,
FiniteIdsAssumption and DistinctAssumption of `EventBus`:

* `BusInvariant`: `BusSpec => []BusInv`. BusInv is the inductive invariant.
  NothingSkipped is not inductive alone: a publish that overflows a queue must be
  known to drop the connection, sequence numbers must be known not to run ahead
  (Published), or an appended envelope would break the order of a queue, and a
  session that is gone must have left no connection and no history for a later
  session with its id (Owned), or isolation would break when an id comes back
  with another level.
* `BusTyped`, `BusSkipsNothing`, `BusInOrder`, `BusIsolated` are its parts;
  `BusBounded` adds the counting of sessions and connections, which needs facts
  about cardinality and the order in which connect evicts and inserts.

There is one lemma per action, and below it one step per conjunct that the action
can disturb. `PushProperties`, `AppendOrdered` and `PushOrdered` are the facts about
bounded sequences. `Replayed` says what a new subscription replays: from the
history, in order, exactly the envelopes after `since` of the events it names. It rests
on `Filtered`, about `Filter`, which is a recursive function for the sake of this proof.

`EventDeliveryProofs` proves, for every number of sessions, sockets, events and handlers,
every capacity and every bound, from the assumptions of `EventBus` and TabAssumption (a handler
subscribes to an event that the level of its session permits, or `subscribe()` refuses it before
anything is sent) and BoundsAssumption of `EventDelivery`, the safety properties of the
run `delivery`: `DeliveryTyped`, `DeliveryLeaksNoSocket` (OneSocket), `DeliversInOrderOnce`,
`DeliveryMissesOnlyEvicted`, `DeliveryFiltersNothingNew`; and `DeliveryKeepsBus`, that the bus
keeps its own properties with sockets, restarts and the session store around it.

* None of these is inductive: what a handler gets is decided by events that wait in
  the browser's inbox, behind them in the bus's queue, or will be replayed by a subscription
  that the server has yet to read. `DeliveryInv` (end of `EventDelivery`) says what this stream is made of while `this.socket` lives. `Fresh`: nothing flows
  before the socket has opened. `ReplayFirst`: only the first message on a socket asks for
  a replay, and no event flows before it has been read. `Stream`: events ascend from the inbox into the
  queue. `DeliveredBefore` and `LastSequenceInSession`: whatever is still to come lies above
  what was delivered and above `lastSequence`, which gives InOrderOnce and
  NothingNewFilteredInSession. `ServesSubscribed`: what a handler subscribes to is served
  or its subscription is on the way. `PromisesKept`: an owed envelope that the history still has is
  received, or queued behind what was, or will be replayed, or the bus has dropped the connection, and then the
  next socket asks for it; this gives MissedOnlyIfEvicted. `KnownSessions` and
  `CurrentScope` say that the tab's session and that of its socket are ones the server
  issued, and that an older one is not confused with a newer.
* `Waits` and OneSocket make the transport's record sound (`Sound`): the functions of
  `HttpTransport` are proved to take sound records to sound records, one lemma each.
* The steps have few shapes, and the lemmas for the conjuncts are about these. `Tab`: a step of the
  browser keeps the socket, and may send or take one message that is no event, or gives it up, or takes
  a new one on which nothing has been said (`TabInv`, with a lemma per conjunct). `Aside`: a
  step that only takes away from queues, of the server's session store, the network or a task that
  ends (`AsideInv`). `AnswerInv`: the server answers a control message, with
  a replay that precedes all it queues from then on. `Spreads`: a published envelope has the
  highest number, and goes to the ends of histories and queues. Opening, delivering,
  forwarding, accepting and restarting have lemmas of their own.

`ApprovalGateProofs` proves for every number of calls, sessions and connections,
from GateAssumption, MissesAssumption and CleanupAssumption of `ApprovalGate`:

* `GateTyped`: the type invariant, in six lemmas, one per group of variables. It
  says more than types: a handler that is at work knows its approval and verdict.
* `ConsentHolds`: `NothingUnapproved`. The strengthening follows a decision back
  to its user: `Backed` (every decision that a handler is writing, that a file
  holds or that a poll has taken is in `verdicts`) and `Asked` (a call that waits or has an answer
  is one that had to ask, and has not run yet).
* `HeartbeatHolds`: `RunningHostIsAlive` through `Beating`: the age of the
  heartbeat file is bounded by the time since the last refresh of any host that
  runs, and missed refreshes are fewer than the limit (MissesAssumption).
* `PromptHolds`: `PromptStaysWhilePolled` through `Prompted`: the pending file of
  a call that polls is no older than the call has waited, which is no longer than
  files are kept (CleanupAssumption, which is what the comment of
  CLEANUP_MAX_AGE_SECS asks for).

HeartbeatHolds and PromptHolds are stated for a machine that has not been suspended (`Awake`); file
ages run on during a suspension and the properties do not hold then.

Its second part proves `GateKeepsItsPromise`: `Spec => KeepsItsPromise`, the
refinement of `Consent`, for every instance. Besides `Asked` and `Backed` it needs
`Fresh` (a call has no verdict and no result before it gets one, or an abandoned call
could show one) and `Prompting` (a pending file, and an answer on its way, belong to a
call that had to ask, or users could be asked about what runs anyway). Then
there is one lemma per kind of step: a call that begins, takes an answer, carries it
out, waits or gives up, and a user that answers; every other step is a stutter.

`PgSessionProofs` proves, for every number of tabs, slots, connections and tasks, from
PgAssumption of `PgSession`, the five invariants of its run: `TypeCorrect`,
`DatabaseIsRight`, `OneConnectionPerTab`, `PoolStaysClean`, `NothingIsStranded`.

* The invariant follows a connection around. `Held` and `Guarded`: which task has a
  reference to a slot, and which its lock. `Lent`, `Kept` and `Placed`: a connection
  that is in use belongs to one run, one that is pinned to one slot, and each is where its
  place says. `Exclusive`: a slot pins nothing while a run of it executes statements,
  or there would be two. `Reachable`: what pins a connection is in the map or
  referred to, which is what dropping the last reference to a slot relies on.
  `OwnSlots`: tabs do not share slots. `SlotsAgree` proves all of it.
* `PoolStaysClean` needs in addition that the driver knows of every transaction that the server is in
  (`Believed`). It is proved for statements that are well-formed (`~Malformed`): a
  statement that begins like a COMMIT and is refused before it ends anything makes the driver
  believe that the transaction is over. That divergence is among the observations of section 6, and
  the run assumes the same. `NothingIsStranded` follows.
* Most steps of a task look alike to the invariant. `StepShape` says once what a step may do:
  a run begins, quits, ends, borrows a connection, or none of these; the lemmas for
  the conjuncts are about the shapes.

`PluginProcessProofs` proves, for every number of calls, every capacity of the pipes and
every limit, from SizesAssumption and NoRequestAssumption of `PluginProcess`:

* `TypeCorrect`: the types of what the callers, the host, the manager and the pipes have.
* `NothingBeforeInitialize`: `InitializeFirst`. An `initialize` that has been sent is
  written, is being written or is queued, or nothing will be written any more
  (`Launched`); whoever has sent anything has done so after one was (`SentInOrder`); in
  the queue none of a call's own requests stands before it (`NoneOvertakes`). This
  depends on the cell: one caller at a time initializes (`OneInitializer`), and
  the channel is closed only by a host that stops the process or has let go
  of it (`ClosedByHost`).
* `CallersAndManagerAgree`: `Accounted`. A request is sent once and is in the queue or
  among the pending ones, not in both (`SentOnce`); a reply takes its entry away
  (`RepliedOnce`); commands that will become entries are accounted for like
  entries (`AllAwaited`); the loop ends with nothing pending (`LoopOK`).

`TabGridProofs` proves, for any tabs and edits, from TabGridAssumption of `TabGrid`:

* `SpinnersEnd` (LoadingMeansBusy), `OrderHolds` (ResultsInOrder) and `RowsHold`
  (RowsStayUnderEdits). ResultsInOrder is an action property; it holds because runs in
  flight have numbers of their own, none above the tab's (`Numbered`), and what is shown
  belongs to a run that has begun (`Shown`). In a table tab only the latest run is
  in flight (`InTurn`), and a tab that has runs waiting has one in flight (`Waiting`). A spinner
  belongs to the latest run or to a submission (`Spinning`).
* There is one lemma per operator on a tab's record (Invalidate, Execute, Continue,
  Request, Finally, Show, ...), which the actions are built from. That the queue has a first
  request that may begin, when any may, is a least-number argument (`Least`).

`ConnectionsProofs` proves, for any connections and names, from ConnectionsAssumption of
`Connections`, the four properties of its run:

* `LatestHolds` (LatestAttempt). The attempts under way have different numbers, none above the counter
  (`Numbered`); while the attempt in charge is under way its connection shows nothing (`Unfinished`).
* `LoadsHold` (LoadsSurvive): what one load has put into an entry survives the others,
  and every spinner is that of a call under way (`Spins`). A load of the old layout
  that answers after a reconnection is the case that needs `Belongs`.
* `AgreementHolds` (AgreeUnlessRaced): every step keeps the list, the entries and the
  active connection in agreement, or notes in `races` the overwrite that breaks it. The proof shows
  that the six that section 6 describes are all there are.
* `NeverOlderHolds` (NeverOlder) from `Fresh`: a load that carries the counter's value was
  asked after whatever is shown was saved.
* `Filtered` is about `Without`, a filter of sequences, which is a recursive function for
  the sake of the proof: what is left, in which order and how often, by the least
  length at which it could fail. The steps are again proved by their shape (Quiet, Gone, Writes, Passing, Aside).

The module's type invariant and ConnInv together are `InvariantHolds`.

`EditorTabsProofs` proves, for any connections, kinds of tabs, loads and limits, from
TabsAssumption of `EditorTabs`, the seven properties of its run:

* `InvariantHolds`: `Spec => []Inv`. The provider keeps one list of the tabs of all
  connections, and the properties speak of the list of one. Inv says of each connection
  that its list has distinct ids and its pinned tabs first (`Tidy`), and that the lists that
  can come back (the stored one, those of the loads in flight, the closed tabs) hold tabs of
  the connection, the stored and loaded ones with distinct ids (`Held`). `Separate` is what makes this inductive: the ids that a connection
  owns, in any of these places (`Owned`), are its own. Without it a load that is late, or
  a tab that is reopened, could bring an id that another connection has open.
* `TypeCorrect`, `PinnedFirstHolds`, `ActiveIsOpenHolds`, `RecentAreOpenHolds` and
  `SessionsAreOwnedHolds` are its parts. `ReopenUndoesCloseHolds` follows from what closing
  puts on the stack and where reopening inserts it (`PushedLast`, `InsertReopened`).
  `OthersUntouchedHolds` is an action property: each action is proved to leave the lists of
  all connections but one as they are, or to add to their ends (`Others`).
* `Changed` and `Relisted` say what an operation on the list does to one connection's
  part of it; each operation is shown to be of one of these shapes, and the lemma of an action
  (`...Keeps`) uses no more. What a filter returns is proved from the positions it
  keeps, in their order (`Enumerates`), by the least length at which it could fail.

### What is only model-checked

* Everything under fairness: ServedAgain, SubscribeSettles, OwedIsDelivered, CallsSettle,
  LeftoversCleared, PromptFindsItsUser, CallsReturn, StopEnds. Liveness under fairness
  and ENABLED are beyond the prover.
* RemainingPreserved and the expected violation of ServedAgain: they do not hold.

## 5. What the models leave out

* Bus and delivery: sequence numbers do not wrap (u64); loads of a session that
  run at the same time are merged; a handshake that the browser has aborted is not accepted by the
  server; heartbeats are the server's guess that the peer is gone; one tab.
* Gate: the watcher tries sessions in any order (the code: in hash order); the
  cleanup looks at a file and removes it in one step, and may do so in the middle
  of a watcher's round; a user may answer any prompt on the page; the id
  of a session that ended is not used again; statements are reduced to select or
  write. The order of reading a file and its age is as in the code.
* Pinned sessions: waiters get a lock in any order (tokio: first come, first
  served); a ROLLBACK is sent when it is first polled, so that dropping its task
  does not take it back, and is one step; connections that the server closes and
  runs that use several slots do not exist; an export without a session
  has no state here; the tabs of an owner are on one connection; the
  events that update the transaction badge are left out.

* Editor tabs: what a tab contains, titles, scroll positions and the migration of old
  notebooks; saves are applied in the order in which they are issued, a load may be
  read before or after the saves issued around it (unless InOrder); sessions are
  released of tabs that have one; a connection opens one notebook at a time;
  storages to begin with have at most one console.
* Connections: deselecting databases of a nested connection, what is kept
  of the open connections for the next start, groups, other windows. An entry's
  names, tables and columns are a name that is loaded or not. A connection's name
  stands for a schema or a database.
* Plugin processes: the start of the process, the manager's table of plugins, what requests and
  answers say, whether an answer is an error, stderr. An answer is at most two
  pieces; a line fits in the pipe or not. Only calls that wait are aborted, and
  one call waits for one request at a time. A second `stop` only waits for the first.
* Result grid: batches of statements and their result entries, counting rows,
  detached result windows, paging and sorting beyond "the tab asks for something else";
  new rows are edits like others.

Not modelled at all, with reasons: PROJECT.json, components with status
"not_modelled". Most of the code of the user interface renders what the three
modules hold, or is forms, dialogs, types and translations without state of their
own; there is nothing in it that a step of a model could stand for. This bounds the
share of the source that can be modelled at a small part of its lines.

## 6. Findings

* `renewal_strands_events`: `renewSession` tears the events connection down, then
  awaits a load. If the load fails, nothing reconnects events, not even the next
  call, which negotiates a session successfully.
* `submit_and_switch`: the refresh after a submission preserves the remaining pending
  edits, says the comment (`pages/Editor.tsx:4291`); it runs in the tab that is active when
  the answer comes (`:4298`), and replaces that tab's edits by those of the
  submitting one.

Observations without a run of their own, in the backend:

* A decision file is created before it is written (`ai_approval.rs:143`). A poll that
  reads it in between fails the call, although the user approved (`:157`); the call
  ends as an error, which `NothingUnapproved` and `Consent` allow.
* Closing a tab while its run has not locked the slot releases nothing
  (`query_sessions.rs:90`); the run then pins a transaction that no disconnect and no
  logout releases. The sweep does, half an hour later (`session.rs:202`).
* A COMMIT or ROLLBACK with a syntax error does not end the transaction, but the driver
  believes so (`query.rs:520`) and returns the connection to the pool inside the failed
  transaction. PoolIsClean is checked for statements that parse; with the constant
  Malformed set to TRUE it fails.
* A tab that has seen no event asks for no replay after a lost socket
  (`httpTransport.ts:741` sends `since` only if `lastSequence > 0`). MissedOnlyIfEvicted is
  stated for tabs that have seen one.
* `initialize()` sets a session without resetting `lastSequence` (`httpTransport.ts:104-107`),
  which `reconnect()` and `renewSession()` do. If the server has restarted in the
  meantime, its first events count as seen and are dropped. TLC finds this in 34 steps on a larger instance
  than that of `delivery` (3 sessions, 1 ended session, 1 restart).
  NothingNewFilteredInSession and MissedOnlyIfEvicted are stated for a `lastSequence`
  that was not carried over in this way (`carried`).
* An acknowledgement names an event and not the message it answers (`httpTransport.ts:772-779`): a
  handler that subscribes again can be confirmed by the acknowledgement of the subscription
  it gave up, and misses what is published until the server has read the second one.
  MissedOnlyIfEvicted is stated for events published outside of this gap (`Resubscribing`).
* A tab that opens a socket under a new session does not ask for what the ended session still has in
  its history. MissedOnlyIfEvicted is stated for the browser's current session.
* A `subscribe()` after a server restart may open its socket before `reconnect()`
  has noticed the new session (`httpTransport.ts:794`), and then filters out the
  restarted server's first events. NothingNewFilteredInSession is stated for a tab whose
  session is the browser's or that of its socket.
* Logout removes the session from the bus before the session store stops accepting its
  cookie (`server.rs:1022`): a socket may be accepted in between.
* A poll that wakes up from a suspension before the host does finds a stale
  heartbeat and gives up (`heartbeat.rs:71`).
* `claim_pending_for_session` compares owners with a list of sessions that was read
  under another lock: an owner that disconnects and returns in between loses its
  claim. NothingUnapproved holds all the same.
* A prompt stays with a session that still has the connection open although its page is
  gone (`ai_approval_watcher.rs:53`); entries of owners of calls that time out are removed
  only with their session (`runtime/state.rs:17`); the configuration of the gate is the one
  read when the call began (`mcp/mod.rs:1196`).

In the plugin processes:

* `read_line` is not cancellation safe: if another branch of the `select!` is taken while a
  long answer has arrived in part (`driver.rs:349`), its beginning is dropped, the
  rest does not parse (`:374`), and the call that was answered ends by its timeout, or
  not at all if it has none, although `:180` says that the response is routed
  back. CallsReturn holds because it is about calls with a timeout.
* While the manager waits in `write_all` for a plugin that does not read, callers
  beyond the channel's capacity wait in `reserve` and callers that timed out wait to send
  their cancel (`:516`, `:546`), both without a limit; `:455-459` promises that a hung
  plugin fails the single call. CallsReturn assumes that the plugin reads. A process that is
  let go of in this state is never killed; only `stop` aborts the task (`:449`).
* A command that is sent between the end of the receiver and the end of the caller's
  permit (`:526`) is never answered: an untimed call then waits for ever.
* A caller that is aborted sends no cancel, and one that times out while the channel is
  closed cannot: their entries stay until the answer or the end of the process.
  EntriesAreAwaited excepts both.

In the editor tabs:

* A load that is read before the save of an emptied list, or lands after the user has opened
  a tab, decides what is stored: tabs of the last session can be lost
  (`EditorProvider.tsx:267-274`; `README.md:358` says that tabs are restored).
* A notebook that was opened while another connection loads is wiped by that load.
* A release that is still on its way ends the session of a tab that was reopened under the same id.
* After a bulk close, reopening one tab after the other need not restore their order.
  ReopenUndoesClose is stated for one tab.

In the connections:

* Six callbacks write captured lists or entries: a connect that fails restores the
  previously active connection, which may have been closed; its test or list of databases fails
  after a newer attempt has begun, and takes the newer one's id from the list; two
  disconnects overlap, or a disconnect and a reconnect (`DatabaseProvider.tsx:1981`); disabling
  a plugin disconnects several connections with the same list, so that only the last
  one is removed (comment at `:2111`); a connection detached into a new window; and an entry
  made by an update of a connection that is gone. `races` names them.
* Loads of databases that are not nested still write a captured map: two at a time
  drop each other's results or leave a spinner, the bug that the comment at
  `DatabaseProvider.tsx:272` describes as fixed for schemas. NothingStuck and
  LoadsSurvive are stated for the layouts that were fixed (ByUpdates).

In the result grid:

* If one of the calls of a submission fails, everything stays pending, also what succeeded: a
  second submission inserts it again. Edits made while a submission is under way can be
  lost with it. Stop cancels the requests of all tabs. A background refresh that
  is answered before the column metadata of the run before drops these. Redo after a
  background refresh applies edits to rows that have moved.

## 7. Plan

Done: the event bus and its delivery, the approval gate and its abstract
specification, pinned sessions, editor tabs, connections, result grid, plugin processes;
proofs of every safety property of their runs.

1. An abstract specification of event delivery: an ordered channel per tab that loses only
   what was evicted. DeliveryInv has the facts that a proof of the refinement needs.
2. `WebSessions`: the session store with issue, touch, elevation, expiry and logout
   against requests and sockets in flight; composed with `EventBus` it bounds how
   long a socket outlives its logout.
3. `Pools`: get-or-create under a read lock and a write lock, close, and the health
   check; the property is that no pool is leaked and none is used after close.
4. The manager's table of plugins (start, replace, stop) above `PluginProcess`;
   `FileTransfers`: limits, expiry and concurrent starts.

New questions take the place of narrower runs where their instances can be
combined.
