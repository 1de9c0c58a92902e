---------------------------- MODULE MCPgSession -----------------------------
(***************************************************************************)
(* Pinned sessions for TLC: all tabs of one owner, and connections to one  *)
(* database or to one each.                                                *)
(***************************************************************************)
EXTENDS PgSession, TLC

CONSTANTS c1, c2, d1, d2, o1

MCOwnerOf == [t \in Tabs |-> o1]

MCDatabaseOf == [c \in Clients |-> IF c = c1 \/ d2 \notin Databases THEN d1 ELSE d2]

\* At most one run is aborted or loses its handler.
OneCutShort == Cardinality(gone) + Cardinality(cancelled) <= 1

Symmetry == Permutations(Runs) \cup Permutations(Slots)

\* With two databases, they may change places together with their connections.
SymmetryOfTwo == Symmetry \cup {c1 :> c2 @@ c2 :> c1 @@ d1 :> d2 @@ d2 :> d1}
=============================================================================
