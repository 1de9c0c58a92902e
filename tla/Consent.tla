------------------------------- MODULE Consent -------------------------------
(***************************************************************************)
(* What the approval gate promises to whoever switches it on, without      *)
(* files, polls, hosts, watchers and sessions.  A call is asked about or   *)
(* not; users may answer at any time, several of them differently; one     *)
(* answer that some user has really given is taken, once, and is carried   *)
(* out as it says; a call that is over stays over, and one that is         *)
(* abandoned has run nothing.  ApprovalGate implements this.               *)
(***************************************************************************)
CONSTANTS
    Requests,      \* the calls
    Modes,         \* the values of mcp_approval_mode
    Kinds,         \* the kinds of statement
    Decisions      \* "deny", "approve", or the kind of an edited statement

VARIABLES
    stage,         \* of a call: unasked, waiting, answered, over or abandoned
    query,         \* what the call wants to run, and under which rules
    granted,       \* the answers that users have given
    verdict,       \* the answer that the call goes by
    ran            \* what was run in the end, and how

vars == <<stage, query, granted, verdict, ran>>

Queries == [mode : Modes, readonly : BOOLEAN, kind : Kinds]

Nothing == [kind |-> "none", readonly |-> FALSE]

\* Which statements a human is asked about.
MustAsk(q) ==
    \/ q.mode = "all"
    \/ q.mode = "writes_only" /\ q.kind # "select"

\* A connection in read-only mode runs selects, in read-only transactions.
Respected(q, run) == q.readonly => run.kind = "select" /\ run.readonly

\* With the gate on, what nobody is asked about runs in a read-only transaction.
Unasked(q, run) ==
    /\ ~MustAsk(q)
    /\ run.kind = q.kind
    /\ q.mode # "off" => run.kind = "select" /\ run.readonly
    /\ Respected(q, run)

\* The user approved the statement as it was, or edited it into another one.
Permitted(q, d, run) ==
    /\ d # "deny"
    /\ run.kind = IF d = "approve" THEN q.kind ELSE d
    /\ Respected(q, run)

Runs == [kind : Kinds, readonly : BOOLEAN]

Init ==
    /\ stage = [r \in Requests |-> "unasked"]
    /\ query \in [Requests -> Queries]
    /\ granted = [r \in Requests |-> {}]
    /\ verdict = [r \in Requests |-> "none"]
    /\ ran = [r \in Requests |-> Nothing]

\* What read-only mode refuses.
Forbidden(q, kind) == q.readonly /\ kind # "select"

\* The call begins: it is refused, runs at once, has to be asked about, or has
\* to be asked about with nobody there to ask.
Call(r) ==
    /\ stage[r] = "unasked"
    /\ \E q \in Queries :
          /\ query' = [query EXCEPT ![r] = q]
          /\ \/ /\ Forbidden(q, q.kind)
                /\ stage' = [stage EXCEPT ![r] = "over"]
                /\ UNCHANGED ran
             \/ /\ stage' = [stage EXCEPT ![r] = "over"]
                /\ \E run \in Runs : Unasked(q, run) /\ ran' = [ran EXCEPT ![r] = run]
             \/ /\ MustAsk(q) /\ ~Forbidden(q, q.kind)
                /\ stage' \in {[stage EXCEPT ![r] = "waiting"], [stage EXCEPT ![r] = "abandoned"]}
                /\ UNCHANGED ran
    /\ UNCHANGED <<granted, verdict>>

\* A user answers, in time or too late.
Grant(r) ==
    /\ stage[r] # "unasked" /\ MustAsk(query[r])
    /\ \E d \in Decisions : granted' = [granted EXCEPT ![r] = @ \cup {d}]
    /\ UNCHANGED <<stage, query, verdict, ran>>

\* One of the answers reaches the call.
Take(r) ==
    /\ stage[r] = "waiting"
    /\ \E d \in granted[r] : verdict' = [verdict EXCEPT ![r] = d]
    /\ stage' = [stage EXCEPT ![r] = "answered"]
    /\ UNCHANGED <<query, granted, ran>>

\* It is carried out: a denied call runs nothing, an approved one runs, in the
\* form that was approved, unless the user made it into what is forbidden.
Act(r) ==
    /\ stage[r] = "answered"
    /\ stage' = [stage EXCEPT ![r] = "over"]
    /\ \/ /\ verdict[r] = "deny" \/ (verdict[r] \in Kinds /\ Forbidden(query[r], verdict[r]))
          /\ UNCHANGED ran
       \/ \E run \in Runs : /\ Permitted(query[r], verdict[r], run)
                            /\ ran' = [ran EXCEPT ![r] = run]
    /\ UNCHANGED <<query, granted, verdict>>

\* Nobody answers in time, nobody is there any more, something fails, or the
\* subprocess ends: then nothing runs.
GiveUp(r) ==
    /\ stage[r] \in {"waiting", "answered"}
    /\ stage' = [stage EXCEPT ![r] = "abandoned"]
    /\ UNCHANGED <<query, granted, verdict, ran>>

Next == \E r \in Requests : Call(r) \/ Grant(r) \/ Take(r) \/ Act(r) \/ GiveUp(r)

Spec == Init /\ [][Next]_vars
=============================================================================
