----------------------------- MODULE EditorTabs -----------------------------
(***************************************************************************)
(* The editor tabs of the web UI: EditorProvider.tsx and the functions on  *)
(* lists of tabs it calls (utils/editor.ts, tabPins.ts, tabDnd.ts,         *)
(* closedTabs.ts, tabScroll.ts).                                           *)
(*                                                                         *)
(* One list holds the tabs of all connections.  The list of a connection   *)
(* is loaded when it becomes active and is not in memory; a load is not    *)
(* cancelled when the user moves on, and all loads share the flag          *)
(* isLoading.  A step is a handler, or the continuation of a load, with    *)
(* the renders it causes and the effects of these.  An effect sees the     *)
(* state of its render, so the effects that follow the one that starts a   *)
(* load still see the old isLoading.                                       *)
(***************************************************************************)
EXTENDS Integers, FiniteSets, SequencesExt

CONSTANTS
    Conns,
    TabIds,        \* generateTabId takes one that is nowhere in use
    Kinds,         \* of tabs: "console", perhaps "table" and "notebook"
    InOrder,       \* whether the backend handles calls in the order they are issued
    MaxPinned,     \* bound: sessions of the backend when another one is pinned
    MaxClosedTabs, \* MAX_CLOSED_TABS
    MaxTabs,       \* bound: open tabs when one is added
    MaxLoads,      \* bound: loads in flight when another one may start
    None

ASSUME TabsAssumption ==
    /\ Kinds \subseteq {"console", "table", "notebook"} /\ "console" \in Kinds
    /\ InOrder \in BOOLEAN
    /\ MaxPinned \in Nat
    /\ MaxClosedTabs \in Nat /\ MaxTabs \in Nat /\ MaxLoads \in Nat
    /\ None \notin Conns \cup TabIds

VARIABLES
    tabs,          \* the open tabs of all connections, in order
    active,        \* activeConnectionId
    activeTabIds,  \* [Conns -> tab id or None]
    isLoading,
    recentTabs,    \* [Conns -> ids, the most recent first]
    previewTabs,   \* [Conns -> tab id or None]
    closedTabs,    \* [Conns -> stack of closed tabs with their positions]
    pendingNotebook, \* the connection whose notebook waits to be opened
    loads,         \* loads in flight: connection, and what was read or None
    storage,       \* [Conns -> editor preferences in the backend]
    sessions,      \* tabs with a pinned connection in the backend
    releases       \* release_query_session calls in flight

vars == <<tabs, active, activeTabIds, isLoading, recentTabs, previewTabs, closedTabs,
          pendingNotebook, loads, storage, sessions, releases>>

Ids(s) == {s[i].id : i \in DOMAIN s}

\* filter: the entries of s at the positions of I, in their order.
Filter(s, I) ==
    LET kept[n \in 0 .. Len(s)] ==
            IF n = 0 THEN <<>>
            ELSE IF n \in I THEN Append(kept[n - 1], s[n]) ELSE kept[n - 1]
    IN  kept[Len(s)]

Of(s, c) == Filter(s, {i \in DOMAIN s : s[i].conn = c})

OfOthers(s, c) == Filter(s, {i \in DOMAIN s : s[i].conn # c})

Position(s, x) == CHOOSE i \in DOMAIN s : s[i].id = x

Without(s, X) == Filter(s, {i \in DOMAIN s : s[i].id \notin X})

Pinned(s, pinned) == Filter(s, {i \in DOMAIN s : s[i].pinned = pinned})

InUse ==
    Ids(tabs) \cup (UNION {{e.tab.id : e \in ToSet(closedTabs[c])} : c \in Conns})
        \cup (UNION {Ids(storage[c].tabs) : c \in Conns})
        \cup (UNION {Ids(l.reply.tabs) : l \in {k \in loads : k.reply # None}})
        \cup sessions \cup releases

Fresh == TabIds \ InUse

NewTab(x, c, kind) == [id |-> x, conn |-> c, kind |-> kind, pinned |-> FALSE]

-----------------------------------------------------------------------------
(* Lists of tabs.                                                          *)

\* A connection's slots in the list, filled in the given order.
Reslot(s, c, ordered) ==
    [i \in DOMAIN s |-> IF s[i].conn = c
                        THEN ordered[Cardinality({j \in 1 .. i : s[j].conn = c})]
                        ELSE s[i]]

PinnedThenRest(s) == Pinned(s, TRUE) \o Pinned(s, FALSE)

keepPinnedTabsFirst(s, c) == Reslot(s, c, PinnedThenRest(Of(s, c)))

setTabPinned(s, x, pinned) ==
    LET target == s[Position(s, x)]
        others == Without(Of(s, target.conn), {x})
    IN  IF target.pinned = pinned THEN s
        ELSE Reslot(s, target.conn,
                    Pinned(others, TRUE) \o <<[target EXCEPT !.pinned = pinned]>>
                    \o Pinned(others, FALSE))

groupGapRange(s, i) ==
    LET pinnedCount == Len(Pinned(s, TRUE))
    IN  IF s[i].pinned THEN <<0, pinnedCount>> ELSE <<pinnedCount, Len(s)>>

\* The gap is not clamped to the tab's group.
clampTabGapNot(s, i, insertAt) == insertAt

clampTabGap(s, i, insertAt) ==
    LET range == groupGapRange(s, i)
    IN  Min({Max({insertAt, range[1]}), range[2]})

moveTab(s, c, x, insertAt) ==
    LET own == Of(s, c)
        from == Position(own, x)
        gap == clampTabGap(own, from, insertAt)
        target == IF gap >= from THEN gap ELSE gap + 1
    IN  IF gap \in {from - 1, from} THEN s
        ELSE Reslot(s, c, InsertAt(RemoveAt(own, from), target, own[from]))

insertTabAfter(s, x, tab) ==
    IF x \in Ids(s) THEN InsertAt(s, Position(s, x) + 1, tab) ELSE Append(s, tab)

getBulkClosedTabIds(own, action, x) ==
    {own[i].id : i \in {j \in DOMAIN own :
        /\ ~own[j].pinned
        /\ CASE action = "all" -> TRUE
             [] action = "others" -> own[j].id # x
             [] action = "left" -> j < Position(own, x)
             [] action = "right" -> j > Position(own, x)}}

\* The tab that takes the closed one's place becomes active, also when there is none.
closeTabWithStateNext(s, c, current, x) ==
    LET rest == Without(Of(s, c), {x})
        i == Position(Of(s, c), x)
    IN  [tabs |-> Without(s, {x}),
         active |-> IF current = x THEN (IF i > Len(rest) THEN None ELSE rest[i].id)
                    ELSE current]

\* The tab before the closed one, or the first.
closeTabWithState(s, c, current, x) ==
    LET own == Of(s, c)
        rest == Without(own, {x})
        i == Position(own, x)
    IN  [tabs |-> Without(s, {x}),
         active |-> IF current # x THEN current
                    ELSE IF rest = <<>> THEN None
                    ELSE rest[IF i > 1 THEN i - 1 ELSE 1].id]

\* The tabs of all connections are taken for the active one's.
bulkCloseEverywhere(s, c, current, action, x) ==
    LET rest == Without(s, getBulkClosedTabIds(s, action, x))
    IN  [tabs |-> rest, active |-> IF current \in Ids(rest) THEN current
                                   ELSE IF rest = <<>> THEN None ELSE Last(rest).id]

\* closeTabsToLeft and closeTabsToRight move the connection's tabs behind the others.
bulkClose(s, c, current, action, x) ==
    LET own == Of(s, c)
        closed == getBulkClosedTabIds(own, action, x)
        rest == Without(own, closed)
    IN  [tabs |-> IF action \in {"left", "right"}
                  THEN OfOthers(s, c) \o rest
                  ELSE Without(s, closed),
         active |-> CASE action = "others" -> x
                      [] action = "all" -> IF current \in Ids(rest) THEN current
                                           ELSE IF rest = <<>> THEN None ELSE Last(rest).id
                      [] OTHER -> IF current \in closed THEN x ELSE current]

-----------------------------------------------------------------------------
(* The stacks of closed tabs.                                              *)

\* The position is counted over the tabs of all connections.
pushClosedTabsAnywhere(stacks, s, X) ==
    [c \in Conns |->
        LET closed == {i \in DOMAIN s : s[i].conn = c /\ s[i].id \in X /\ s[i].kind # "notebook"}
            all == stacks[c] \o Filter([i \in DOMAIN s |-> [tab |-> s[i], index |-> i]], closed)
        IN  SubSeq(all, IF Len(all) > MaxClosedTabs THEN Len(all) - MaxClosedTabs + 1 ELSE 1,
                   Len(all))]

\* Notebooks are not remembered; closed tabs are pushed in the order of the list.
pushClosedTabs(stacks, s, X) ==
    [c \in Conns |->
        LET own == Of(s, c)
            closed == {i \in DOMAIN own : own[i].id \in X /\ own[i].kind # "notebook"}
            all == stacks[c] \o Filter([i \in DOMAIN own |-> [tab |-> own[i], index |-> i]], closed)
        IN  SubSeq(all, IF Len(all) > MaxClosedTabs THEN Len(all) - MaxClosedTabs + 1 ELSE 1,
                   Len(all))]

\* Where the tab that had the given position goes: never beyond the connection's last.
insertReopenedTab(s, c, entry, x) ==
    LET tab == [entry.tab EXCEPT !.id = x]
        own == Filter([i \in DOMAIN s |-> i], {i \in DOMAIN s : s[i].conn = c})
    IN  CASE own = <<>> -> Append(s, tab)
          [] own # <<>> /\ entry.index <= Len(own) -> InsertAt(s, own[entry.index], tab)
          [] OTHER -> InsertAt(s, Last(own) + 1, tab)

\* getRecentTabIds of tabScroll.ts.
orderRecentTabs(own, history) ==
    LET all == history \o [i \in DOMAIN own |-> own[i].id]
    IN  Filter(all, {i \in DOMAIN all :
                        all[i] \in Ids(own) /\ \A j \in 1 .. i - 1 : all[j] # all[i]})

-----------------------------------------------------------------------------
(* The effects.  s, ids, a, preview and loading are the state rendered     *)
(* last; every effect runs when something it depends on has changed, and   *)
(* all of them are idempotent.                                             *)

\* Only the active connection's history is pruned.
HistoryEffectActive(s, ids, a, preview) ==
    recentTabs' = [c \in Conns |->
        IF c = a THEN orderRecentTabs(Of(s, c), <<ids[c]>> \o recentTabs[c]) ELSE recentTabs[c]]

HistoryEffect(s, ids, a, preview) ==
    recentTabs' = [c \in Conns |->
        orderRecentTabs(Of(s, c),
            IF c = a /\ ids[c] # None /\ preview[c] # ids[c]
            THEN <<ids[c]>> \o recentTabs[c] ELSE recentTabs[c])]

\* Tabs that a load replaces are not released.
ReleaseEffectUnloaded(s, a) ==
    LET gone == sessions \cap (Ids(tabs) \ Ids(s))
    IN  /\ releases' = IF a = None \/ isLoading THEN releases ELSE releases \cup gone
        /\ sessions' = IF a = None THEN {} ELSE sessions

\* A release of a tab that has nothing pinned does nothing.  With no active connection the
\* backend has released what the tabs had pinned.
ReleaseEffect(s, a) ==
    LET gone == sessions \cap (Ids(tabs) \ Ids(s))
    IN  /\ releases' = IF a = None THEN releases ELSE releases \cup gone
        /\ sessions' = IF a = None THEN {} ELSE sessions

SaveEffect(s, ids, a, loading) ==
    storage' = IF a = None \/ loading THEN storage
               ELSE [storage EXCEPT ![a] = [tabs |-> Of(s, a), activeTabId |-> ids[a]]]

Effects(s, ids, a, preview, loading) ==
    /\ tabs' = s /\ activeTabIds' = ids /\ active' = a /\ previewTabs' = preview
    /\ isLoading' = loading
    /\ HistoryEffect(s, ids, a, preview)
    /\ ReleaseEffect(s, a)

\* A handler of the active connection.
Handle(s, x, preview) ==
    LET ids == [activeTabIds EXCEPT ![active] = x]
    IN  /\ Effects(s, ids, active, preview, isLoading)
        /\ SaveEffect(s, ids, active, isLoading)

\* setActiveTabId without a preview.
Committed == [previewTabs EXCEPT ![active] = None]

\* resolvePendingNotebook opens the notebook that waits, or goes to its tab.  A connection has
\* one notebook here.
NotebookTabs(s, c) == {t \in ToSet(s) : t.conn = c /\ t.kind = "notebook"}

Notebook(s, c, x) ==
    IF NotebookTabs(s, c) # {} THEN s
    ELSE keepPinnedTabsFirst(Append(s, NewTab(x, c, "notebook")), c)

NotebookTab(s, c, x) ==
    IF NotebookTabs(s, c) # {} THEN (CHOOSE t \in NotebookTabs(s, c) : TRUE).id ELSE x

-----------------------------------------------------------------------------
(* Handlers.  The user acts on tabs of the active connection.              *)

Shown == Of(tabs, active)

CanAdd == Len(tabs) < MaxTabs

\* addTab: an open table's tab is focused instead, unless a new one is forced.
AddTab(kind, after, x) ==
    /\ active # None /\ CanAdd /\ x \in Fresh /\ kind # "notebook"
    /\ after = None => ~(kind = "table" /\ \E i \in DOMAIN Shown : Shown[i].kind = "table")
    /\ Handle(keepPinnedTabsFirst(insertTabAfter(tabs, after, NewTab(x, active, kind)), active),
              x, Committed)
    /\ UNCHANGED <<closedTabs, pendingNotebook, loads>>

setActiveTabId(x, preview) ==
    /\ active # None /\ x \in Ids(Shown)
    /\ Handle(tabs, x, [previewTabs EXCEPT ![active] = IF preview THEN x ELSE None])
    /\ UNCHANGED <<closedTabs, pendingNotebook, loads>>

openNotebook(x) ==
    /\ active # None /\ "notebook" \in Kinds
    /\ IF isLoading
       THEN /\ pendingNotebook' = active
            /\ UNCHANGED <<tabs, active, activeTabIds, isLoading, recentTabs, previewTabs,
                           storage, sessions, releases>>
       ELSE /\ x \in Fresh /\ CanAdd
            /\ pendingNotebook' = None
            /\ Handle(Notebook(tabs, active, x), NotebookTab(tabs, active, x), Committed)
    /\ UNCHANGED <<closedTabs, loads>>

closeTab(x) ==
    /\ active # None /\ x \in Ids(Shown)
    /\ LET r == closeTabWithState(tabs, active, activeTabIds[active], x)
       IN  Handle(r.tabs, r.active, previewTabs)
    /\ closedTabs' = pushClosedTabs(closedTabs, tabs, {x})
    /\ UNCHANGED <<pendingNotebook, loads>>

\* closeAllTabs, closeOtherTabs, closeTabsToLeft and closeTabsToRight.
closeTabs(action, x) ==
    /\ active # None /\ x \in Ids(Shown)
    /\ LET r == bulkClose(tabs, active, activeTabIds[active], action, x)
           closed == getBulkClosedTabIds(Shown, action, x)
       IN  /\ Handle(r.tabs, r.active, previewTabs)
           /\ closedTabs' = pushClosedTabs(closedTabs, tabs, closed)
    /\ UNCHANGED <<pendingNotebook, loads>>

\* The tab keeps its id.
reopenedIdSame(entry, x) == entry.tab.id

\* The tab gets its old id back unless an open tab has it.
reopenedId(entry, x) == IF entry.tab.id \in Ids(tabs) THEN x ELSE entry.tab.id

reopenClosedTab(x) ==
    /\ active # None /\ closedTabs[active] # <<>> /\ CanAdd
    /\ LET entry == Last(closedTabs[active])
           id == reopenedId(entry, x)
       IN  /\ id = x => x \in Fresh
           /\ Handle(keepPinnedTabsFirst(insertReopenedTab(tabs, active, entry, id), active),
                     id, Committed)
    /\ closedTabs' = [closedTabs EXCEPT ![active] = Front(@)]
    /\ UNCHANGED <<pendingNotebook, loads>>

reorderTab(x, insertAt) ==
    /\ active # None /\ x \in Ids(Shown) /\ insertAt \in 0 .. Len(Shown)
    /\ Handle(moveTab(tabs, active, x, insertAt), activeTabIds[active], previewTabs)
    /\ UNCHANGED <<closedTabs, pendingNotebook, loads>>

pinTab(x, pinned) ==
    /\ active # None /\ x \in Ids(Shown)
    /\ Handle(setTabPinned(tabs, x, pinned), activeTabIds[active], previewTabs)
    /\ UNCHANGED <<closedTabs, pendingNotebook, loads>>

-----------------------------------------------------------------------------
(* Connections and loads.                                                  *)

\* The active connection changes.  The effects of this render see the isLoading of before: the
\* list of a connection that is about to be loaded is saved, and a waiting notebook opened.
switchConnection(c, x) ==
    /\ c \in Conns \ {active}
    /\ Of(tabs, c) # <<>> \/ Cardinality(loads) < MaxLoads
    /\ LET live == Of(tabs, c) # <<>>
           opens == pendingNotebook = c /\ (live \/ ~isLoading)
           s == IF opens THEN Notebook(tabs, c, x) ELSE tabs
           ids == IF opens THEN [activeTabIds EXCEPT ![c] = NotebookTab(tabs, c, x)]
                  ELSE activeTabIds
           preview == IF opens THEN [previewTabs EXCEPT ![c] = None] ELSE previewTabs
       IN  /\ opens => x \in Fresh
           /\ Effects(s, ids, c, preview, ~live)
           /\ pendingNotebook' = IF opens THEN None ELSE pendingNotebook
           /\ IF live THEN SaveEffect(s, ids, c, FALSE) /\ UNCHANGED loads
              ELSE /\ SaveEffect(tabs, activeTabIds, c, isLoading)
                   /\ \E r \in {storage[c]} \cup IF InOrder THEN {} ELSE {None} :
                          loads' = loads \cup {[conn |-> c, reply |-> r,
                              nr |-> CHOOSE n \in 1 .. MaxLoads : \A l \in loads : l.nr # n]}
    /\ UNCHANGED closedTabs

\* The last connection is disconnected: the list is cleared.
noConnection ==
    /\ active # None
    /\ Effects(<<>>, activeTabIds, None, previewTabs, FALSE)
    /\ UNCHANGED <<closedTabs, pendingNotebook, loads, storage>>

\* load_editor_preferences in the backend; a failure gives the client an empty list.
loadEditorPreferences(l) ==
    /\ l.reply = None
    /\ \E r \in {storage[l.conn], [tabs |-> <<>>, activeTabId |-> None]} :
           loads' = (loads \ {l}) \cup {[l EXCEPT !.reply = r]}
    /\ UNCHANGED <<tabs, active, activeTabIds, isLoading, recentTabs, previewTabs, closedTabs,
                   pendingNotebook, storage, sessions, releases>>

\* The continuation of loadPreferences: the loaded list, or a first tab, replaces what the
\* connection has in memory, whichever connection is active now, and isLoading is cleared.
loadPreferences(l, x, y) ==
    LET c == l.conn
        r == l.reply
        first == NewTab(x, c, "console")
        loaded == IF r.tabs = <<>> THEN <<first>> ELSE r.tabs
        merged == OfOthers(tabs, c) \o loaded
        ordered == IF r.tabs = <<>> THEN merged ELSE keepPinnedTabsFirst(merged, c)
        current == IF r.tabs # <<>> /\ r.activeTabId # None THEN r.activeTabId ELSE loaded[1].id
        opens == pendingNotebook # None /\ pendingNotebook = active
        s == IF opens THEN Notebook(ordered, active, y) ELSE ordered
        ids == [activeTabIds EXCEPT ![c] = current]
    IN  /\ r # None
        /\ r.tabs = <<>> => x \in Fresh
        /\ opens => y \in Fresh /\ y # x
        /\ loads' = loads \ {l}
        /\ LET now == IF opens THEN [ids EXCEPT ![active] = NotebookTab(ordered, active, y)]
                      ELSE ids
           IN  /\ Effects(s, now, active, IF opens THEN Committed ELSE previewTabs, FALSE)
               /\ SaveEffect(s, now, active, FALSE)
        /\ pendingNotebook' = IF opens THEN None ELSE pendingNotebook
        /\ UNCHANGED closedTabs

-----------------------------------------------------------------------------
(* The backend, as the tabs see it.                                        *)

\* A run in a tab begins a transaction.
beginTransaction(x) ==
    /\ active # None /\ x \in Ids(Shown) /\ Cardinality(sessions \cup releases) < MaxPinned
    /\ sessions' = sessions \cup {x}
    /\ UNCHANGED <<tabs, active, activeTabIds, isLoading, recentTabs, previewTabs, closedTabs,
                   pendingNotebook, loads, storage, releases>>

releaseQuerySession(x) ==
    /\ x \in releases
    /\ releases' = releases \ {x} /\ sessions' = sessions \ {x}
    /\ UNCHANGED <<tabs, active, activeTabIds, isLoading, recentTabs, previewTabs, closedTabs,
                   pendingNotebook, loads, storage>>

-----------------------------------------------------------------------------
Empty == [tabs |-> <<>>, activeTabId |-> None]

\* What an earlier session of the application may have stored of a connection.
Stored(c, X) ==
    {Empty} \cup {[tabs |-> <<[NewTab(x, c, "console") EXCEPT !.pinned = p]>>,
                  activeTabId |-> x] : x \in X, p \in BOOLEAN}

Init ==
    /\ tabs = <<>> /\ active = None /\ isLoading = FALSE
    /\ activeTabIds = [c \in Conns |-> None]
    /\ recentTabs = [c \in Conns |-> <<>>] /\ previewTabs = [c \in Conns |-> None]
    /\ closedTabs = [c \in Conns |-> <<>>] /\ pendingNotebook = None
    /\ loads = {} /\ sessions = {} /\ releases = {}
    /\ storage \in [Conns -> UNION {Stored(c, TabIds) : c \in Conns}]
    /\ \A c \in Conns : storage[c] \in Stored(c, TabIds)
    /\ \A c, d \in Conns : c # d => Ids(storage[c].tabs) \cap Ids(storage[d].tabs) = {}

Next ==
    \/ \E k \in Kinds, a \in TabIds \cup {None}, x \in TabIds :
           (a = None \/ a \in Ids(tabs)) /\ AddTab(k, a, x)
    \/ \E x \in TabIds, b \in BOOLEAN : setActiveTabId(x, b)
    \/ \E x \in TabIds : openNotebook(x)
    \/ \E x \in TabIds : closeTab(x)
    \/ \E a \in {"all", "others", "left", "right"}, x \in TabIds : closeTabs(a, x)
    \/ \E x \in TabIds : reopenClosedTab(x)
    \/ \E x \in TabIds, n \in 0 .. MaxTabs : reorderTab(x, n)
    \/ \E x \in TabIds, b \in BOOLEAN : pinTab(x, b)
    \/ \E c \in Conns, x \in TabIds : switchConnection(c, x)
    \/ noConnection
    \/ \E l \in loads : loadEditorPreferences(l)
    \/ \E l \in loads, x, y \in TabIds : loadPreferences(l, x, y)
    \/ \E x \in TabIds : beginTransaction(x)
    \/ \E x \in TabIds : releaseQuerySession(x)

Spec == Init /\ [][Next]_vars

-----------------------------------------------------------------------------
(* Properties.                                                             *)

Tab == [id : TabIds, conn : Conns, kind : Kinds, pinned : BOOLEAN]

\* Type invariant; every tab id is open once, whatever was closed, reopened and loaded since.
TypeOK ==
    /\ \A i \in DOMAIN tabs : tabs[i] \in Tab
    /\ Cardinality(Ids(tabs)) = Len(tabs)
    /\ active \in Conns \cup {None} /\ isLoading \in BOOLEAN
    /\ activeTabIds \in [Conns -> TabIds \cup {None}]
    /\ previewTabs \in [Conns -> TabIds \cup {None}]
    /\ pendingNotebook \in Conns \cup {None}
    /\ \A c \in Conns : Len(closedTabs[c]) <= MaxClosedTabs
    /\ sessions \subseteq TabIds /\ releases \subseteq TabIds

\* In the list of every connection the pinned tabs come first, after every move, pin, reopen,
\* insertion and load (keepPinnedTabsFirst, the clamp of moveTab).
PinnedFirst ==
    \A c \in Conns : LET own == Of(tabs, c)
                     IN  \A i, j \in DOMAIN own : i < j /\ own[j].pinned => own[i].pinned

\* A connection that has tabs in memory has one of them active, so the editor never shows an
\* empty pane beside open tabs (closeTabWithState, the bulk closes, the load).
ActiveIsOpen ==
    \A c \in Conns : Of(tabs, c) # <<>> => activeTabIds[c] \in Ids(Of(tabs, c))

\* The order in which the switcher walks a connection's tabs is an order of all its open tabs
\* and of no other, also for connections whose tabs were removed while another was active.
RecentAreOpen ==
    \A c \in Conns : LET own == Of(tabs, c)
                     IN  Len(recentTabs[c]) = Len(own) /\ ToSet(recentTabs[c]) = Ids(own)

\* Closing a tab and reopening it gives the list back as it was (reopenClosedTab: "at its
\* previous position").
ReopenUndoesClose ==
    \A i \in DOMAIN tabs :
        LET t == tabs[i]
            stacks == pushClosedTabs(closedTabs, tabs, {t.id})
            rest == Without(tabs, {t.id})
        IN  t.kind # "notebook" /\ MaxClosedTabs > 0 =>
                Of(keepPinnedTabsFirst(insertReopenedTab(rest, t.conn, Last(stacks[t.conn]), t.id),
                                       t.conn), t.conn) = Of(tabs, t.conn)

\* A pinned connection in the backend belongs to an open tab, or its release is on its way: a
\* tab that leaves the list in any way, a load that replaces it included, releases its session.
SessionsAreOwned == sessions \subseteq Ids(tabs) \cup releases

\* A step closes, moves or replaces tabs of one connection: no handler and no load disturbs
\* another's list, except that all are cleared when there is no connection left.  (A load that
\* lands may let the notebook open that waits for the active connection.)
OthersUntouched ==
    [][active' # None =>
          \E c \in Conns : \A d \in Conns \ {c} : IsPrefix(Of(tabs, d), Of(tabs', d))]_vars
=============================================================================
