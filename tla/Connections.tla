---------------------------- MODULE Connections ----------------------------
(***************************************************************************)
(* The connections of the user interface (contexts/DatabaseProvider.tsx):  *)
(* the list of open ones, the active one, and what is known of each.       *)
(*                                                                         *)
(* JavaScript runs one task at a time, so a step is what happens between   *)
(* two awaits, the render that follows included.  What matters is which    *)
(* state a task reads after an await: setX((prev) => ...) reads the        *)
(* current one, a variable of the closure the one that was rendered when   *)
(* the call began.  A call in flight keeps what its closure captured.      *)
(*                                                                         *)
(* A name stands for a schema, or a database, whose tables are loaded on   *)
(* demand.  Its flags are isLoading and isLoaded.                          *)
(***************************************************************************)
EXTENDS Naturals, Sequences, FiniteSets

CONSTANTS
    Conns, Names,
    Inputs,        \* what may happen besides connect: see Next
    MaxAttempts,   \* bound: calls of connect
    MaxCalls,      \* bound: calls in flight
    MaxRevisions,  \* bound: changes of the saved connections
    MaxVersions,   \* bound: loads of the saved connections
    None

Layouts == {"flat", "nested", "schemas", "plain"}

\* What is known of a connection.
Entries ==
    [connecting : BOOLEAN, connected : BOOLEAN,
     from : Nat,   \* the attempt that has connected it
     layout : Layouts \cup {None},
     cells : [Names -> SUBSET {"loading", "loaded"}]]

ASSUME ConnectionsAssumption ==
    /\ None \notin Conns \cup Layouts \cup Entries
    /\ {MaxAttempts, MaxCalls, MaxRevisions, MaxVersions} \subseteq Nat

VARIABLES
    open,      \* openConnectionIds
    active,    \* activeConnectionId
    data,      \* connectionDataMap: an entry, or None
    attempts,  \* connectionAttemptsRef: the attempt in charge, 0 for none
    attempted, \* attempts made so far
    calls,     \* calls in flight, with what their closures captured
    revision,  \* changes of the saved connections on the server
    list,      \* the revision of `connections`
    version,   \* connectionsLoadVersionRef
    loads,     \* loads of the saved connections in flight
    races      \* auxiliary: ways in which captured state has overwritten newer state

saved == <<revision, list, version, loads>>
vars == <<open, active, data, attempts, attempted, calls, saved, races>>

Opened == {open[i] : i \in DOMAIN open}

\* What filter leaves of s.
Without(s, cs) ==
    LET kept[n \in 0 .. Len(s)] ==
            IF n = 0 THEN <<>>
            ELSE IF s[n] \in cs THEN kept[n - 1] ELSE Append(kept[n - 1], s[n])
    IN  kept[Len(s)]

First(s) == IF s = <<>> THEN None ELSE Head(s)

Init ==
    /\ open = <<>> /\ active = None
    /\ data = [c \in Conns |-> None]
    /\ attempts = [c \in Conns |-> 0] /\ attempted = 0
    /\ calls = {} /\ races = {}
    /\ revision = 0 /\ list = 0 /\ version = 0 /\ loads = {}
-----------------------------------------------------------------------------
(***************************************************************************)
(* Entries.                                                                *)
(***************************************************************************)
NothingLoaded == [n \in Names |-> {}]

\* createEmptyConnectionData, as connect() uses it.
Connecting == [connecting |-> TRUE, connected |-> FALSE, from |-> 0,
               layout |-> None, cells |-> NothingLoaded]

\* updateConnectionData: of a connection that has no entry it makes one with nothing but
\* the updates.
Entry(c) == IF data[c] = None THEN [Connecting EXCEPT !.connecting = FALSE] ELSE data[c]

Update(c, entry) ==
    /\ data' = [data EXCEPT ![c] = entry]
    /\ races' = IF data[c] = None THEN races \cup {"update"} ELSE races

\* (Without the guard, an entry is made of a connection that is gone.)
UpdateSchemasAnyway(c, layout, cells) ==
    data' = [data EXCEPT ![c] = [Entry(c) EXCEPT !.cells = cells]] /\ UNCHANGED races

\* updateSchemaData and updateNestedDatabaseData change the current map of the layout they
\* belong to, unless the connection is gone.  A schemaDataMap is there before the layout is
\* known.
UpdateSchemas(c, layout, cells) ==
    /\ data' = IF data[c] # None /\ \/ data[c].layout = layout
                                    \/ data[c].layout = None /\ layout = "schemas"
               THEN [data EXCEPT ![c].cells = cells] ELSE data
    /\ UNCHANGED races

Flying(c, op) == {k \in calls : k.op = op /\ k.conn = c}

Room == Cardinality(calls) < MaxCalls

Call(k) == Room /\ calls' = calls \cup {k}
-----------------------------------------------------------------------------
(***************************************************************************)
(* connect.                                                                *)
(***************************************************************************)
IsCurrentAttempt(k) == attempts[k.conn] = k.attempt

\* connect up to its first await; `seen` and `previous` are the list and the active
\* connection of its closure.
Begin(c, activate, seen, previous) ==
    /\ attempted < MaxAttempts
    /\ Call([op |-> "connect", conn |-> c, attempt |-> attempted + 1, tested |-> FALSE,
             activate |-> activate, previous |-> previous])
    /\ attempted' = attempted + 1
    /\ attempts' = [attempts EXCEPT ![c] = attempted + 1]
    /\ open' = IF \E i \in DOMAIN seen : seen[i] = c THEN open ELSE Append(open, c)
    /\ data' = [data EXCEPT ![c] = Connecting]
    /\ active' = IF activate THEN c ELSE active
    /\ UNCHANGED saved

Connect(c) == Begin(c, TRUE, open, active) /\ UNCHANGED races

\* restoreSession runs with the connect of the first render, and gives the focus to a
\* connection until one has succeeded.
Restore(c) ==
    /\ "restore" \in Inputs
    /\ \E activate \in BOOLEAN : Begin(c, activate, <<>>, None)
    /\ races' = IF c \in Opened THEN races \cup {"restore"} ELSE races

\* The connection is found and test_connection succeeds.  The driver is noted before the
\* test; then a superseded attempt gives up, and the current one registers the connection.
Tested(k) ==
    /\ k.op = "connect" /\ ~k.tested
    /\ IF IsCurrentAttempt(k)
       THEN /\ calls' = (calls \ {k}) \cup {[k EXCEPT !.tested = TRUE]}
            /\ Update(k.conn, Entry(k.conn))
       ELSE calls' = calls \ {k} /\ UNCHANGED <<data, races>>
    /\ UNCHANGED <<open, active, attempts, attempted, saved>>

\* (Whatever has been loaded is shown.)
FinishAnyway(k, layout, cells) ==
    Update(k.conn, [Entry(k.conn) EXCEPT
        !.connecting = FALSE, !.connected = TRUE, !.from = k.attempt,
        !.layout = layout, !.cells = cells])

\* updateCurrentConnection with what the branch for the layout has loaded.
Finish(k, layout, cells) ==
    IF IsCurrentAttempt(k)
    THEN Update(k.conn, [Entry(k.conn) EXCEPT
            !.connecting = FALSE, !.connected = TRUE, !.from = k.attempt,
            !.layout = layout, !.cells = cells])
    ELSE UNCHANGED <<data, races>>

One(n) == [NothingLoaded EXCEPT ![n] = {"loaded"}]

\* The branch for the layout ends; a first database or schema is loaded where there is one.
Preloaded(k, layout) ==
    \/ Finish(k, layout, NothingLoaded)
    \/ \E n \in Names : Finish(k, layout, One(n))

LoadedFlat(k) == Preloaded(k, "flat")

LoadedNested(k) == Preloaded(k, "nested")

\* Without a valid selection the schemaDataMap stays as it is.
LoadedSchemas(k) ==
    \/ Finish(k, "schemas", Entry(k.conn).cells)
    \/ \E n \in Names : Finish(k, "schemas", One(n))

LoadedPlain(k) == Finish(k, "plain", NothingLoaded)

Loaded(k) ==
    /\ k.op = "connect" /\ k.tested
    /\ LoadedFlat(k) \/ LoadedNested(k) \/ LoadedSchemas(k) \/ LoadedPlain(k)
    /\ calls' = calls \ {k}
    /\ UNCHANGED <<open, active, attempts, attempted, saved>>

\* catch: the current attempt removes its connection and gives the focus back.
Fail(k) ==
    /\ open' = Without(open, {k.conn})
    /\ data' = [data EXCEPT ![k.conn] = None]
    /\ active' = IF k.activate /\ active = k.conn THEN k.previous ELSE active
    /\ races' = IF active' \in {open'[i] : i \in DOMAIN open'} \cup {None}
                THEN races ELSE races \cup {"previous"}

\* A call of connect fails: one whose error is shown, of test_connection or of the list of
\* all databases, removes the connection from the list whoever is in charge of it.
Failed(k) ==
    /\ k.op = "connect"
    /\ calls' = calls \ {k}
    /\ IF IsCurrentAttempt(k)
       THEN Fail(k)
       ELSE /\ \/ UNCHANGED <<open, races>>
               \/ /\ open' = Without(open, {k.conn})
                  /\ races' = IF k.conn \in Opened THEN races \cup {"failure"} ELSE races
            /\ UNCHANGED <<active, data>>
    /\ UNCHANGED <<attempts, attempted, saved>>
-----------------------------------------------------------------------------
(***************************************************************************)
(* The ways in which a connection goes.                                    *)
(***************************************************************************)
Leaving(c) == [op |-> "disconnect", conn |-> c, open |-> open, active |-> active = c]

\* disconnect up to its await.
Disconnect(c) ==
    /\ "disconnect" \in Inputs /\ data[c] # None
    /\ attempts' = [attempts EXCEPT ![c] = 0]
    /\ Call(Leaving(c))
    /\ UNCHANGED <<open, active, data, attempted, saved, races>>

\* A plugin is disabled or removed: its connections are disconnected all at once.
DisablePlugin(cs) ==
    /\ "plugin" \in Inputs /\ Room
    /\ cs # {} /\ cs \subseteq Opened /\ \A c \in cs : data[c] # None
    /\ attempts' = [c \in Conns |-> IF c \in cs THEN 0 ELSE attempts[c]]
    /\ calls' = calls \cup {Leaving(c) : c \in cs}
    /\ UNCHANGED <<open, active, data, attempted, saved, races>>

\* The rest of disconnect goes by the list, and by the active connection, of its closure.
Disconnected(k) ==
    LET remaining == Without(k.open, {k.conn}) IN
    /\ k.op = "disconnect"
    /\ calls' = calls \ {k}
    /\ open' = remaining
    /\ data' = [data EXCEPT ![k.conn] = None]
    /\ active' = IF k.active THEN First(remaining) ELSE active
    /\ races' = IF \/ k.open # open \/ attempts[k.conn] # 0
                   \/ ~k.active /\ active = k.conn
                THEN races \cup {"disconnect"} ELSE races
    /\ UNCHANGED <<attempts, attempted, saved>>

Drop(cs, next) ==
    /\ open' = Without(open, cs)
    /\ data' = [c \in Conns |-> IF c \in cs THEN None ELSE data[c]]
    /\ active' = next
    /\ attempts' = [c \in Conns |-> IF c \in cs THEN 0 ELSE attempts[c]]

\* Connections go at once: every part is computed from the current state.
Dropped(cs) ==
    /\ Drop(cs, IF active \in cs THEN First(Without(open, cs)) ELSE active)
    /\ UNCHANGED <<attempted, calls, saved, races>>

\* The connection gets a window of its own.
OpenInNewWindow(c) ==
    /\ "drop" \in Inputs /\ c \in Opened
    /\ Call([op |-> "detach", conn |-> c, open |-> open])
    /\ UNCHANGED <<open, active, data, attempts, attempted, saved, races>>

\* Once it has, detachConnection; the next active connection is taken from the list of its
\* closure.  Or the window does not open.
Detached(k) ==
    LET next == IF active = k.conn THEN First(Without(k.open, {k.conn})) ELSE active
    IN  /\ k.op = "detach"
        /\ calls' = calls \ {k}
        /\ \/ UNCHANGED <<open, active, data, attempts, races>>
           \/ /\ Drop({k.conn}, next)
              /\ races' = IF active = k.conn /\ next \notin Opened \cup {None}
                          THEN races \cup {"detach"} ELSE races
        /\ UNCHANGED <<attempted, saved>>

\* The server gives a connection up, known here or not.
HealthFailed(c) == "drop" \in Inputs /\ Dropped({c})

\* The parameters or the plugin of connections that provide metadata of their own change.
MetadataInvalidated(cs) ==
    /\ "drop" \in Inputs
    /\ Cardinality(cs) > 1 /\ \A c \in cs : data[c] # None
    /\ Dropped(cs)

SwitchConnection(c) ==
    /\ c \in Opened /\ active # c
    /\ active' = c
    /\ UNCHANGED <<open, data, attempts, attempted, calls, saved, races>>
-----------------------------------------------------------------------------
(***************************************************************************)
(* Schemas, of a connection or of one of its databases: written by updates *)
(* of the current map.                                                     *)
(***************************************************************************)
ByUpdates == {"schemas", "nested"}

SchemaCall(c, n, fresh) ==
    [op |-> "schema", conn |-> c, name |-> n, fresh |-> fresh, layout |-> data[c].layout]

Connected(c) == data[c] # None /\ data[c].connected

Shown(c, layout) == "load" \in Inputs /\ Connected(c) /\ data[c].layout = layout

StartLoad(c, n) ==
    /\ data[c].cells[n] = {}
    /\ UpdateSchemas(c, data[c].layout, [data[c].cells EXCEPT ![n] = {"loading"}])
    /\ Call(SchemaCall(c, n, TRUE))
    /\ UNCHANGED <<open, active, attempts, attempted, saved>>

LoadSchemaData(c, n) == Shown(c, "schemas") /\ StartLoad(c, n)

LoadNestedSchemaData(c, n) == Shown(c, "nested") /\ StartLoad(c, n)

\* A refresh keeps what there is until the answer.
StartRefresh(c, n) ==
    /\ UpdateSchemas(c, data[c].layout, [data[c].cells EXCEPT ![n] = @ \cup {"loading"}])
    /\ Call(SchemaCall(c, n, FALSE))
    /\ UNCHANGED <<open, active, attempts, attempted, saved>>

RefreshSchemaData(c, n) == Shown(c, "schemas") /\ StartRefresh(c, n)

RefreshNestedSchemaData(c, n) == Shown(c, "nested") /\ StartRefresh(c, n)

\* A first load that fails leaves an empty schema, a refresh what there was.
SchemaAnswered(k) ==
    /\ k.op = "schema"
    /\ \E failed \in BOOLEAN :
        UpdateSchemas(k.conn, k.layout,
            [Entry(k.conn).cells EXCEPT
                ![k.name] = IF failed /\ ~k.fresh THEN @ \ {"loading"} ELSE {"loaded"}])
    /\ calls' = calls \ {k}
    /\ UNCHANGED <<open, active, attempts, attempted, saved>>

\* A selection of schemas is stored, or asked for, before they are loaded.
StartSelect(c, ns) ==
    /\ ns # {}
    /\ Call([op |-> "select", conn |-> c, names |-> ns, layout |-> data[c].layout,
             known |-> data[c].cells])
    /\ UNCHANGED <<open, active, data, attempts, attempted, saved, races>>

SetSelectedSchemas(c, ns) == Shown(c, "schemas") /\ StartSelect(c, ns)

SetSelectedSchemasForDatabase(c, ns) == Shown(c, "nested") /\ StartSelect(c, ns)

\* Of the schemas of a database the preferred one is loaded.
LoadNestedSchemas(c, n) == Shown(c, "nested") /\ StartSelect(c, {n})

\* (Each load writes a map made from the one that was captured.)
SelectedFromCaptured(k, missing) ==
    UpdateSchemas(k.conn, k.layout,
        [n \in Names |-> IF n \in missing THEN {"loading"} ELSE k.known[n]])

Selected(k, missing) ==
    UpdateSchemas(k.conn, k.layout,
        [n \in Names |-> IF n \in missing THEN {"loading"} ELSE Entry(k.conn).cells[n]])

\* Then they load, all at once, what was not loaded when they began.  setSelectedSchemas may
\* set the active schema as well, without looking whether the connection is still there.
SchemasSelected(k) ==
    LET missing == {n \in k.names : k.known[n] = {}} IN
    /\ k.op = "select"
    /\ \/ Selected(k, missing)
       \/ k.layout = "schemas" /\ data[k.conn] = None /\ Update(k.conn, Entry(k.conn))
    /\ calls' = (calls \ {k}) \cup
           {[op |-> "schema", conn |-> k.conn, name |-> n, fresh |-> TRUE, layout |-> k.layout] :
                n \in missing}
    /\ UNCHANGED <<open, active, attempts, attempted, saved>>
-----------------------------------------------------------------------------
(***************************************************************************)
(* Databases of a flat connection: every write replaces databaseDataMap by *)
(* the captured one with the change in it.                                 *)
(***************************************************************************)
DatabaseCall(c, n, fresh) ==
    [op |-> "database", conn |-> c, name |-> n, fresh |-> fresh, known |-> data[c].cells]

Flat(c) == "flat" \in Inputs /\ Connected(c) /\ data[c].layout = "flat"

\* Entries of another layout have a map that nobody looks at.
UpdateDatabases(c, cells) ==
    Update(c, IF Entry(c).layout = "flat" THEN [Entry(c) EXCEPT !.cells = cells] ELSE Entry(c))

\* Databases that are not selected are dropped and the missing ones loaded.  Each load marks
\* its own on the captured map, so only the last mark stays, and what was dropped is back.
SetSelectedDatabases(c, ns) ==
    LET missing == {n \in ns : data[c].cells[n] = {}} IN
    /\ Flat(c) /\ Room
    /\ IF missing = {}
       THEN UpdateDatabases(c, [n \in Names |-> IF n \in ns THEN data[c].cells[n] ELSE {}])
       ELSE \E last \in missing : UpdateDatabases(c, [data[c].cells EXCEPT ![last] = {"loading"}])
    /\ calls' = calls \cup {DatabaseCall(c, n, TRUE) : n \in missing}
    /\ UNCHANGED <<open, active, attempts, attempted, saved>>

LoadDatabaseData(c, n) ==
    /\ Flat(c) /\ data[c].cells[n] = {}
    /\ UpdateDatabases(c, [data[c].cells EXCEPT ![n] = {"loading"}])
    /\ Call(DatabaseCall(c, n, TRUE))
    /\ UNCHANGED <<open, active, attempts, attempted, saved>>

RefreshDatabaseData(c, n) ==
    /\ Flat(c)
    /\ UpdateDatabases(c, [data[c].cells EXCEPT ![n] = @ \cup {"loading"}])
    /\ Call(DatabaseCall(c, n, FALSE))
    /\ UNCHANGED <<open, active, attempts, attempted, saved>>

DatabaseAnswered(k) ==
    /\ k.op = "database"
    /\ \E failed \in BOOLEAN :
        UpdateDatabases(k.conn,
            [k.known EXCEPT ![k.name] = IF failed /\ ~k.fresh THEN @ \ {"loading"} ELSE {"loaded"}])
    /\ calls' = calls \ {k}
    /\ UNCHANGED <<open, active, attempts, attempted, saved>>

\* refreshDatabaseSelection asks which databases there are and drops the others.
RefreshSelection(c) ==
    /\ Flat(c)
    /\ Call([op |-> "available", conn |-> c, known |-> data[c].cells])
    /\ UNCHANGED <<open, active, data, attempts, attempted, saved, races>>

SelectionRefreshed(k) ==
    /\ k.op = "available"
    /\ \/ UNCHANGED <<data, races>>
       \/ \E ns \in SUBSET Names :
            UpdateDatabases(k.conn, [n \in Names |-> IF n \in ns THEN k.known[n] ELSE {}])
    /\ calls' = calls \ {k}
    /\ UNCHANGED <<open, active, attempts, attempted, saved>>

\* refreshTables, refreshViews, refreshRoutines and refreshTriggers of a plain connection.
RefreshTables(c) ==
    /\ "tables" \in Inputs /\ Connected(c) /\ data[c].layout = "plain"
    /\ Call([op |-> "tables", conn |-> c])
    /\ UNCHANGED <<open, active, data, attempts, attempted, saved, races>>

TablesRefreshed(k) ==
    /\ k.op = "tables"
    /\ Update(k.conn, Entry(k.conn))
    /\ calls' = calls \ {k}
    /\ UNCHANGED <<open, active, attempts, attempted, saved>>
-----------------------------------------------------------------------------
(***************************************************************************)
(* The list of saved connections.                                          *)
(***************************************************************************)
rest == <<open, active, data, attempts, attempted, calls, races>>

SaveConnection ==
    /\ revision < MaxRevisions
    /\ revision' = revision + 1
    /\ UNCHANGED <<list, version, loads, rest>>

LoadConnections ==
    /\ version < MaxVersions
    /\ version' = version + 1
    /\ loads' = loads \cup {[version |-> version + 1, from |-> revision]}
    /\ UNCHANGED <<revision, list, rest>>

\* (The last answer to arrive wins.)
ShowsAny(k, r) == list' = r

\* Only the latest load is shown.
Shows(k, r) == list' = IF k.version = version THEN r ELSE list

\* The answer is what was saved at some moment since the request; or the load fails.
ConnectionsArrive(k) ==
    /\ \/ \E r \in k.from .. revision : Shows(k, r)
       \/ UNCHANGED list
    /\ loads' = loads \ {k}
    /\ UNCHANGED <<revision, version, rest>>
-----------------------------------------------------------------------------
Answered(k) ==
    \/ Tested(k) \/ Loaded(k) \/ Failed(k) \/ Disconnected(k) \/ Detached(k)
    \/ SchemaAnswered(k) \/ SchemasSelected(k)
    \/ DatabaseAnswered(k) \/ SelectionRefreshed(k) \/ TablesRefreshed(k)

Next ==
    \/ \E c \in Conns :
        \/ Connect(c) \/ Restore(c) \/ Disconnect(c)
        \/ OpenInNewWindow(c) \/ HealthFailed(c) \/ SwitchConnection(c)
        \/ RefreshSelection(c) \/ RefreshTables(c)
        \/ \E n \in Names :
            \/ LoadSchemaData(c, n) \/ RefreshSchemaData(c, n)
            \/ LoadNestedSchemaData(c, n) \/ RefreshNestedSchemaData(c, n)
            \/ LoadNestedSchemas(c, n)
            \/ LoadDatabaseData(c, n) \/ RefreshDatabaseData(c, n)
        \/ \E ns \in SUBSET Names :
            \/ SetSelectedSchemas(c, ns) \/ SetSelectedSchemasForDatabase(c, ns)
            \/ SetSelectedDatabases(c, ns)
    \/ \E cs \in SUBSET Conns : DisablePlugin(cs) \/ MetadataInvalidated(cs)
    \/ \E k \in calls : Answered(k)
    \/ SaveConnection \/ LoadConnections
    \/ \E k \in loads : ConnectionsArrive(k)

Spec == Init /\ [][Next]_vars
-----------------------------------------------------------------------------
(***************************************************************************)
(* Properties.                                                             *)
(***************************************************************************)

(***************************************************************************)
(* What is shown of a connection comes from the latest attempt to connect, *)
(* however many were started, cancelled and answered late; and it is not   *)
(* shown as connecting for ever: the attempt in charge is still under way. *)
(* Until a disconnect has been answered the entry stays as it was.         *)
(***************************************************************************)
LatestAttempt ==
    \A c \in Conns : data[c] # None /\ Flying(c, "disconnect") = {} =>
        /\ data[c].connected => data[c].from = attempts[c]
        /\ data[c].connecting => \E k \in Flying(c, "connect") : IsCurrentAttempt(k)

Agree ==
    /\ \A i, j \in DOMAIN open : open[i] = open[j] => i = j
    /\ \A c \in Conns : c \in Opened <=> data[c] # None
    /\ active \in Opened \cup {None}

(***************************************************************************)
(* The list, the entries and the active connection agree, unless one of    *)
(* six things happened: state captured before an await overwrote what a   *)
(* step in between had made of it.                                         *)
(***************************************************************************)
AgreeUnlessRaced == races = {} => Agree

(***************************************************************************)
(* A schema that shows its spinner is being loaded: no answer, however     *)
(* late, and no other schema's load leaves it so.                          *)
(***************************************************************************)
NothingStuck ==
    \A c \in Conns : Connected(c) /\ data[c].layout \in ByUpdates =>
        \A n \in Names : "loading" \in data[c].cells[n] =>
            \E k \in Flying(c, "schema") : k.name = n

Same(c) ==
    Connected(c) /\ data[c].layout \in ByUpdates /\ data'[c] # None /\ data'[c].from = data[c].from

(***************************************************************************)
(* As long as a connection stays, what has been loaded of a schema is only *)
(* replaced by loading it again: loads that run at the same time do not    *)
(* drop each other's results, and none leaves another's spinner behind.    *)
(***************************************************************************)
LoadsSurvive ==
    [][/\ NothingStuck'
       /\ \A c \in Conns : Same(c) =>
              \A n \in Names : "loaded" \in data[c].cells[n] => data'[c].cells[n] # {}]_vars

(***************************************************************************)
(* The list of saved connections never goes back to an older one, in       *)
(* whatever order its loads are answered.                                  *)
(***************************************************************************)
NeverOlder == [][list' >= list]_vars
=============================================================================
