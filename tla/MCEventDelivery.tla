-------------------------- MODULE MCEventDelivery ---------------------------
(* One browser tab with two subscribe() calls, each for an event of its own. *)
EXTENDS EventDelivery, TLC, Functions

CONSTANTS h1, h2, e1, e2

MCEventOf == [h \in Handlers |-> IF h = h2 /\ e2 \in Events THEN e2 ELSE e1]

\* Every event requires the Database level.
MCRequired == [e \in Events |-> 1]

\* Two handlers of two events are followed while nothing is published; h1 alone over one
\* event, or over three as long as it stays, the later ones for everybody.
OneWhenPublished ==
    LET published == UNION {Range(history[s]) : s \in SessionIds} IN
    /\ next_sequence > 0 =>
        /\ transport.handlers \cup transport.initializing \subseteq {h1}
        /\ \A k \in ConnIds : subscriptions[k] \subseteq {e1}
        /\ \A e \in published : e.event = e1
    /\ next_sequence > 1 =>
        /\ h1 \in transport.handlers /\ idle = [s \in SessionIds |-> 0]
        /\ \A e \in published : e.sequence > 1 => e.payload = Broadcast

\* The sessions end or the server restarts, but not both; then one handler and one event are
\* followed and the network loses nothing.
Upheaval == ends + sent + restarts > 0

OneUpheaval ==
    /\ ends + restarts <= 1
    /\ Upheaval =>
        /\ next_sequence <= (IF ends > 0 THEN 0 ELSE 1) /\ losses = 0 /\ idle = [s \in SessionIds |-> 0]
        /\ transport.handlers \cup transport.initializing \subseteq {h1}
        /\ \A k \in ConnIds : subscriptions[k] \subseteq {e1}

\* Everything published is for everybody: it reaches the one session like what is for it.
ForEverybody == \A s \in SessionIds : \A e \in Range(history[s]) : e.payload = Broadcast

Symmetry == Permutations(SessionIds) \cup Permutations(ConnIds)
=============================================================================
