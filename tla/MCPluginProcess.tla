-------------------------- MODULE MCPluginProcess ---------------------------
(* Calls that go through one plugin's process, for TLC. *)
EXTENDS PluginProcess, TLC

CONSTANTS c1, c2

\* The calls are alike until they begin, so c1 may as well be the first to begin.
\* Nothing obliges a call to begin: no behaviour that fairness is about is cut.
FirstIsFirst == pc[c2] # "idle" => pc[c1] # "idle"
=============================================================================
