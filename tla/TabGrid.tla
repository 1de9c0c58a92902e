------------------------------ MODULE TabGrid ------------------------------
(***************************************************************************)
(* The result grid of an editor tab (pages/Editor.tsx): queries run into   *)
(* it, it is refreshed by hand or by a timer, its rows are selected and    *)
(* edited, edits are undone, and submitted to the database.                *)
(*                                                                         *)
(* A step is what happens between two awaits, the render that follows      *)
(* included.  Runs of a table tab follow each other (its refresh schedule  *)
(* has a tail); those of another tab overlap.  An edit stands for whatever *)
(* is pending: a changed row, a deletion or an insertion.  The result of a *)
(* run is its generation.                                                  *)
(***************************************************************************)
EXTENDS Naturals, Sequences, FiniteSets

CONSTANTS
    Tabs,
    Tables,        \* the tabs of type 'table'
    Edits,
    HistoryLimit,  \* GRID_HISTORY_LIMIT
    MaxRuns,       \* bound: runs of a tab
    MaxSubmits,    \* bound: submissions
    MaxShapes      \* bound: changes of what a tab asks for

ASSUME TabGridAssumption == Tables \subseteq Tabs /\ HistoryLimit \in Nat \ {0}

VARIABLES
    grid,      \* the tabs
    active,    \* activeTabId
    submits,   \* submissions in flight
    submitted, \* submissions made
    shapes,    \* changes made of what a tab asks for
    strayed    \* auxiliary: a submission was answered while another tab was active

vars == <<grid, active, submits, submitted, shapes, strayed>>

Empty == [result |-> 0,        \* 0 for no result
          columns |-> 0,       \* the run whose column metadata are shown
          pending |-> {},      \* pendingChanges, pendingDeletions, pendingInsertions
          past |-> <<>>, future |-> <<>>, \* gridHistory
          recent |-> FALSE,    \* the last edit may be too recent for a step of its own
          selected |-> FALSE,  \* selectedRows
          editing |-> FALSE,   \* a cell editor or a new row is open
          loading |-> FALSE,
          interval |-> FALSE,  \* autoRefreshIntervalMs
          shape |-> 0,         \* tableRefreshIdentity
          generation |-> 0,    \* queryGenerationRef
          runs |-> {},         \* runs in flight
          fetches |-> {},      \* requests for column metadata in flight
          queue |-> <<>>]      \* runs that wait for the tail

Init ==
    /\ grid = [t \in Tabs |-> Empty]
    /\ active \in Tabs
    /\ submits = {} /\ submitted = 0 /\ shapes = 0 /\ strayed = FALSE

\* A revision of the schedule ends the validity of the refreshes under way.
Invalidate(g) == [g EXCEPT !.runs = {[r EXCEPT !.valid = FALSE] : r \in @}]

\* The first pending edit is a revision as well.
SetPending(g, pending) ==
    IF g.pending = {} /\ pending # {}
    THEN Invalidate([g EXCEPT !.pending = pending])
    ELSE [g EXCEPT !.pending = pending]

Others == <<submits, submitted, shapes, strayed>>
-----------------------------------------------------------------------------
(***************************************************************************)
(* Runs.  A manual run replaces the result, a refresh keeps it until the   *)
(* answer, an automatic one is a refresh by the timer.                     *)
(***************************************************************************)
Asked(kind, kept) == [kind |-> kind, kept |-> kept]

Background(r) == r.kind \in {"refresh", "automatic"}

\* canApplyRefresh, for a refresh that began with this shape.
CanApply(g, here, kind, shape) ==
    /\ here /\ ~g.editing /\ g.pending = {} /\ g.shape = shape
    /\ kind = "automatic" => g.interval /\ ~g.selected

MayBegin(g, here, asked) ==
    Background(asked) =>
        /\ CanApply(g, here, asked.kind, g.shape)
        /\ asked.kind = "automatic" => ~g.loading

\* The run begins: its request is sent.
Execute(g, asked) ==
    LET next == [g EXCEPT
            !.generation = @ + 1, !.loading = TRUE,
            !.runs = @ \cup {[kind |-> asked.kind, generation |-> g.generation + 1,
                              shape |-> g.shape, valid |-> TRUE]}]
    IN  IF Background(asked) THEN next
        ELSE [next EXCEPT
            !.result = 0, !.pending = asked.kept, !.past = <<>>, !.future = <<>>,
            !.recent = FALSE, !.selected = FALSE, !.editing = FALSE]

\* The tail goes on with the first run that still may begin.
Continue(g, here) ==
    LET ready == {i \in DOMAIN g.queue : MayBegin(g, here, g.queue[i])} IN
    IF g.runs # {} THEN g
    ELSE IF ready = {} THEN [g EXCEPT !.queue = <<>>]
    ELSE LET i == CHOOSE j \in ready : \A k \in ready : j <= k
         IN  Execute([g EXCEPT !.queue = SubSeq(@, i + 1, Len(@))], g.queue[i])

\* runQuery up to its await.
Request(t, asked) ==
    LET g == IF asked.kind = "automatic" THEN grid[t] ELSE Invalidate(grid[t])
        busy == t \in Tables /\ (g.runs # {} \/ g.queue # <<>>)
    IN  IF busy /\ asked.kind = "automatic" THEN g
        ELSE IF busy THEN [g EXCEPT !.queue = Append(@, asked)]
        ELSE IF MayBegin(g, active = t, asked) THEN Execute(g, asked)
        ELSE g

Room(t) == grid[t].generation + Len(grid[t].queue) < MaxRuns

\* A query is run, another page or order is asked for, a table tab is opened or restored.
Run(t) ==
    /\ Room(t)
    /\ grid' = [grid EXCEPT ![t] = Request(t, Asked("manual", {}))]
    /\ UNCHANGED <<active, Others>>

\* handleRefresh: without a result to keep it is a run.
Refresh ==
    /\ Room(active)
    /\ grid' = [grid EXCEPT ![active] =
            Request(active, Asked(IF grid[active].result = 0 THEN "manual" ELSE "refresh", {}))]
    /\ UNCHANGED <<active, Others>>

\* The timer of useAutoRefresh.
Tick ==
    LET g == grid[active] IN
    /\ Room(active)
    /\ active \in Tables /\ g.interval
    /\ g.runs = {} /\ g.queue = <<>> /\ ~g.editing
    /\ g.pending = {} /\ ~g.selected /\ ~g.loading /\ g.result # 0
    /\ grid' = [grid EXCEPT ![active] = Request(active, Asked("automatic", {}))]
    /\ UNCHANGED <<active, Others>>

Applies(t, g, r) ==
    Background(r) => r.valid /\ CanApply(g, active = t, r.kind, r.shape)

\* (Overlapping runs show whatever arrives last.)
LatestAlways(g, r) == TRUE

Latest(g, r) == r.generation = g.generation

\* (A run that is not shown leaves its spinner.)
FinallyIfShown(g, r) == [g EXCEPT !.runs = @ \ {r}]

\* finally: the latest run of the tab ends its spinner, whether it was shown or not.
Finally(g, r) ==
    [g EXCEPT !.runs = @ \ {r}, !.loading = IF Latest(g, r) THEN FALSE ELSE @]

\* The result is shown, where it still may; the columns of its table are asked for.
Show(g, r) ==
    IF ~Latest(g, r) THEN g
    ELSE IF Background(r) THEN [g EXCEPT !.result = r.generation, !.selected = FALSE, !.loading = FALSE]
    ELSE [g EXCEPT !.result = r.generation, !.fetches = @ \cup {r.generation}, !.loading = FALSE]

\* (Whether it may still be shown is not looked at again.)
AnswerAnyway(t, g, r) == Continue(Finally(Show(g, r), r), active = t)

Answer(t, g, r) ==
    Continue(Finally(IF Applies(t, g, r) THEN Show(g, r) ELSE g, r), active = t)

Answered(t, r) ==
    /\ grid' = [grid EXCEPT ![t] = Answer(t, grid[t], r)]
    /\ UNCHANGED <<active, Others>>

\* The error of the latest run is shown: the result stays as it was.
RunFailed(t, r) ==
    /\ grid' = [grid EXCEPT ![t] = Continue(Finally(grid[t], r), active = t)]
    /\ UNCHANGED <<active, Others>>

\* fetchPkColumn, answered: with what the latest run asked for, or with a failure.
ColumnsArrive(t, n) ==
    LET g == [grid[t] EXCEPT !.fetches = @ \ {n}] IN
    /\ grid' = [grid EXCEPT ![t] = IF n = g.generation THEN [g EXCEPT !.columns = n] ELSE g]
    /\ UNCHANGED <<active, Others>>

\* stopQuery: the spinner ends once the requests in flight are cancelled, whose runs then fail.
Stop(t) ==
    /\ grid[t].loading
    /\ grid' = [grid EXCEPT ![t].loading = FALSE]
    /\ UNCHANGED <<active, Others>>
-----------------------------------------------------------------------------
(***************************************************************************)
(* The grid of the active tab.                                             *)
(***************************************************************************)
Change(g) == grid' = [grid EXCEPT ![active] = g] /\ UNCHANGED <<active, Others>>

\* recordGridEdit: an edit is a step of its own, or part of the last one if it comes soon.
Recorded(g, pending, together) ==
    IF pending = g.pending THEN g
    ELSE IF together THEN SetPending(g, pending)
    ELSE LET past == Append(g.past, g.pending)
         IN  [SetPending(g, pending) EXCEPT
                !.past = IF Len(past) > HistoryLimit THEN Tail(past) ELSE past,
                !.future = <<>>, !.recent = TRUE]

Editable(g) == g.result # 0 /\ g.columns # 0

\* Cells of a row, or of an inserted one, are edited or edited back; soon after the last
\* edit this is part of the same step.
EditCells(pending) ==
    LET g == grid[active] IN
    /\ Editable(g) /\ pending # g.pending
    /\ \E together \in BOOLEAN :
        /\ together => g.recent /\ g.past # <<>>
        /\ Change(Recorded(g, pending, together))

\* Rows are marked for deletion, reverted, duplicated or given up.
EditRows(pending) ==
    LET g == grid[active] IN
    /\ Editable(g) /\ pending # g.pending
    /\ Change(Recorded(g, pending, FALSE))

\* handleDeleteRows ends the selection.
DeleteRows(pending) ==
    LET g == grid[active] IN
    /\ Editable(g) /\ g.selected
    /\ Change([Recorded(g, pending, FALSE) EXCEPT !.selected = FALSE])

\* handleRollbackChanges: of the selected rows, or of all.
Rollback(pending) ==
    LET g == grid[active] IN
    /\ pending \subseteq g.pending /\ pending # g.pending
    /\ g.selected \/ pending = {}
    /\ Change(Recorded(g, pending, FALSE))

Undo ==
    LET g == grid[active] IN
    /\ g.past # <<>>
    /\ Change([SetPending(g, g.past[Len(g.past)]) EXCEPT
            !.past = SubSeq(@, 1, Len(@) - 1), !.future = <<g.pending>> \o @, !.recent = FALSE])

Redo ==
    LET g == grid[active] IN
    /\ g.future # <<>>
    /\ Change([SetPending(g, Head(g.future)) EXCEPT
            !.past = Append(@, g.pending), !.future = Tail(@), !.recent = FALSE])

Select(selected) ==
    /\ grid[active].result # 0 /\ grid[active].selected # selected
    /\ Change([grid[active] EXCEPT !.selected = selected])

\* handleEditingChange: opening and closing an editor are revisions.
SetEditing(editing) ==
    /\ grid[active].result # 0 /\ grid[active].editing # editing
    /\ Change(Invalidate([grid[active] EXCEPT !.editing = editing]))

Configure(interval) ==
    /\ active \in Tables /\ grid[active].interval # interval
    /\ Change([grid[active] EXCEPT !.interval = interval])

\* What the tab asks for changes without being run: the text of its query, say.
Reshape(shape) ==
    /\ shapes < MaxShapes /\ shapes' = shapes + 1
    /\ grid' = [grid EXCEPT ![active].shape = shape]
    /\ UNCHANGED <<active, submits, submitted, strayed>>

\* Another tab is shown.  The schedule of the tab that is left is invalidated, its editors
\* are gone; so is the schedule of one that is shown with pending edits.
Activate(t) ==
    /\ t # active /\ active' = t
    /\ grid' = [grid EXCEPT
            ![active] = Invalidate([@ EXCEPT !.editing = FALSE]),
            ![t] = IF @.pending = {} THEN @ ELSE Invalidate(@)]
    /\ UNCHANGED Others
-----------------------------------------------------------------------------
(***************************************************************************)
(* Submitting the edits, those of the selected rows or all that are valid. *)
(***************************************************************************)

\* handleSubmitChanges, with the tab as it was rendered.
Submit(edits) ==
    LET g == grid[active] IN
    /\ submitted < MaxSubmits /\ submitted' = submitted + 1
    /\ edits # {} /\ edits \subseteq g.pending
    /\ submits' = submits \cup
           {[tab |-> active, edits |-> edits, pending |-> g.pending, sent |-> FALSE]}
    /\ UNCHANGED <<grid, active, shapes, strayed>>

\* The insertions are valid and a production write is confirmed, or not.
Confirmed(k) ==
    /\ ~k.sent
    /\ \/ /\ submits' = (submits \ {k}) \cup {[k EXCEPT !.sent = TRUE]}
          /\ grid' = [grid EXCEPT ![k.tab].loading = TRUE]
       \/ submits' = submits \ {k} /\ UNCHANGED grid
    /\ UNCHANGED <<active, submitted, shapes, strayed>>

\* All is stored.  The refresh runs in the tab that is active by now, and leaves it with
\* the edits that were pending in the submission and not part of it.
Stored(k) ==
    /\ k.sent
    /\ submits' = submits \ {k}
    /\ grid' = [grid EXCEPT ![active] = Request(active, Asked("manual", k.pending \ k.edits))]
    /\ strayed' = (strayed \/ k.tab # active)
    /\ UNCHANGED <<active, submitted, shapes>>

\* One change fails, whatever the others do: all stay pending.
StoreFailed(k) ==
    /\ k.sent
    /\ submits' = submits \ {k}
    /\ grid' = [grid EXCEPT ![k.tab].loading = FALSE]
    /\ UNCHANGED <<active, submitted, shapes, strayed>>
-----------------------------------------------------------------------------
Next ==
    \/ \E t \in Tabs :
        \/ Run(t) \/ Stop(t) \/ Activate(t)
        \/ \E r \in grid[t].runs : Answered(t, r) \/ RunFailed(t, r)
        \/ \E n \in grid[t].fetches : ColumnsArrive(t, n)
    \/ Refresh \/ Tick \/ Undo \/ Redo
    \/ \E pending \in SUBSET Edits :
        EditCells(pending) \/ EditRows(pending) \/ DeleteRows(pending) \/ Rollback(pending)
    \/ \E b \in BOOLEAN : Select(b) \/ SetEditing(b) \/ Configure(b)
    \/ \E shape \in 0 .. 1 : Reshape(shape)
    \/ \E edits \in SUBSET Edits : Submit(edits)
    \/ \E k \in submits : Confirmed(k) \/ Stored(k) \/ StoreFailed(k)

Spec == Init /\ [][Next]_vars
-----------------------------------------------------------------------------
(***************************************************************************)
(* Properties.                                                             *)
(***************************************************************************)

Replaced(t) == grid[t].result # 0 /\ grid'[t].result \notin {0, grid[t].result}

(***************************************************************************)
(* Rows on the screen give way to others in place only while nothing is    *)
(* edited, pending or, for the timer, selected, no editor was opened since *)
(* the others were asked for, and the tab still asks for the same; the     *)
(* selection, which is by index, never moves to the new rows.              *)
(***************************************************************************)
RowsStayUnderEdits ==
    [][\A t \in Tabs : Replaced(t) =>
        /\ grid[t].pending = {} /\ ~grid[t].editing /\ t = active
        /\ ~grid'[t].selected
        /\ \E r \in grid[t].runs :
            /\ r.generation = grid'[t].result /\ r.valid /\ r.shape = grid[t].shape
            /\ r.kind = "automatic" => ~grid[t].selected]_vars

(***************************************************************************)
(* However runs overlap, no older result follows a newer one, and no older *)
(* columns newer ones; nor does a tab show columns newer than its result.  *)
(***************************************************************************)
ResultsInOrder ==
    [][\A t \in Tabs :
        /\ grid'[t].result # 0 => grid'[t].result >= grid[t].result
        /\ grid'[t].columns >= grid[t].columns
        /\ grid'[t].result # 0 => grid'[t].columns <= grid'[t].result]_vars

(***************************************************************************)
(* A tab that shows its spinner is waiting for something: it does not spin *)
(* for ever, unless a submission was answered in another tab.              *)
(***************************************************************************)
LoadingMeansBusy ==
    ~strayed => \A t \in Tabs : grid[t].loading =>
        \/ grid[t].runs # {} \/ grid[t].queue # <<>>
        \/ \E k \in submits : k.tab = t /\ k.sent

(***************************************************************************)
(* The refresh after a submission takes away nothing but what was          *)
(* submitted: the other pending edits are preserved.                       *)
(***************************************************************************)
RemainingPreserved ==
    [][\A k \in submits \ submits', t \in Tabs :
        grid[t].pending \ grid'[t].pending \subseteq (IF k.tab = t THEN k.edits ELSE {})]_vars
=============================================================================
