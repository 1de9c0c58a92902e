---------------------------- MODULE MCEditorTabs ----------------------------
EXTENDS EditorTabs, TLC

\* Of two connections with open tabs or two loads in flight, closed or pinned tabs, and a
\* preview one is followed at a time, and three tabs while one connection has them all
\* and nothing is loading.
OneAtATime ==
    LET open == {c \in Conns : Of(tabs, c) # <<>>}
        closed == {c \in Conns : closedTabs[c] # <<>>}
        two == Cardinality(open) > 1 \/ Cardinality(loads) > 1
        previews == {c \in Conns : previewTabs[c] # None}
        pinned == sessions \cup releases
    IN  /\ two => closed = {} /\ pinned = {} /\ previews = {}
        /\ Cardinality(loads) > 1 => Len(tabs) <= 1 /\ pendingNotebook = None
        /\ previews = {} \/ pinned = {}
        /\ previews # {} => closed = {}
        /\ pinned # {} /\ closed # {} => loads = {} /\ Cardinality(InUse) <= 2
        /\ Cardinality(closed) <= 1
        /\ Cardinality(InUse) > 2 =>
               /\ loads = {} /\ active # None
               /\ open \cup closed \cup {c \in Conns : storage[c].tabs # <<>>} \subseteq {active}

\* Without open tabs a connection's active tab means nothing: neither a load nor addTab reads
\* it.
Prefs(p) == IF p # None /\ p.tabs = <<>> THEN Empty ELSE p

View ==
    <<tabs, active, isLoading, recentTabs, previewTabs, closedTabs, pendingNotebook, sessions,
      releases, [c \in Conns |-> IF Of(tabs, c) = <<>> THEN None ELSE activeTabIds[c]],
      [c \in Conns |-> Prefs(storage[c])], Cardinality(loads),
      {[conn |-> l.conn, reply |-> Prefs(l.reply)] : l \in loads}>>

Symmetry == Permutations(TabIds) \cup Permutations(Conns)
=============================================================================
