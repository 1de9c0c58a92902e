----------------------------- MODULE MCTabGrid -----------------------------
(* A table tab, whose runs follow each other, and a console, whose runs overlap. *)
EXTENDS TabGrid, TLC

\* One of the tabs is used, both where edits are submitted; then the timer is off, and
\* neither the query nor the history changes, and each is run twice.
OneAtATime ==
    LET used == {t \in Tabs : grid[t].generation > 0 \/ grid[t].interval} IN
    Cardinality(used) > 1 \/ submitted > 0 =>
        /\ submitted > 0 /\ shapes = 0
        /\ \A t \in Tabs : ~grid[t].interval /\ ~grid[t].editing /\ grid[t].future = <<>>
        /\ \A t \in used : grid[t].generation + Len(grid[t].queue) <= 2
        /\ \A t \in used, k \in submits : k.tab # t => grid[t].generation <= 1
=============================================================================
