--------------------------- MODULE MCApprovalGate ---------------------------
(***************************************************************************)
(* The approval gate for TLC: the configurations choose hosts, sessions,   *)
(* modes and the bounds of time.                                           *)
(***************************************************************************)
EXTENDS ApprovalGate, TLC

CONSTANT s2

\* Refreshes are missed before a suspension, or not at all when there is one.
OneMishap == suspends > 0 => \A h \in Hosts : misses[h] = 0

\* Statements are denied while one host has been started.
DeniedEarly == (\E r \in Requests : "deny" \in verdicts[r]) => starts = 1

\* Of two sessions, s2 moves after the other has moved twice and stays.
OneByOne ==
    moves \in 1..2 =>
        /\ \A s \in Sessions : lifetime[s] = "live"
        /\ s2 \notin onBus /\ active[s2] = {}
=============================================================================
