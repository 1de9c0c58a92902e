--------------------------- MODULE MCConnections ---------------------------
(* Two connections: how they come and go, and what is loaded of one of them. *)
EXTENDS Connections, TLC

Lists == {k \in calls : k.op = "tables"}
Parts == {k \in calls : k.op \notin {"connect", "disconnect", "tables"}}

\* The saved connections are loaded while nothing is open.  Schemas and databases are loaded
\* two at a time, in the first two attempts, while one connection is open.  A third attempt
\* is made of connections without parts.  Both as long as nothing has been overwritten.
OneAtATime ==
    /\ revision + version > 0 => attempted = 0
    /\ Parts # {} =>
        /\ Cardinality({c \in Conns : data[c] # None}) <= 1
        /\ attempted <= 2 /\ Cardinality(calls) <= 2 /\ Lists = {} /\ races = {}
    /\ attempted = 3 =>
        /\ races = {} /\ Parts = {} /\ Lists = {}
        /\ \A c \in Conns : data[c] = None \/ data[c].layout \in {None, "plain"}
    /\ Cardinality(races) <= 1

Symmetry == Permutations(Conns) \cup Permutations(Names)
=============================================================================
