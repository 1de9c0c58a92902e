--------------------------- MODULE PgSessionProofs ---------------------------
(***************************************************************************)
(* Proofs about pinned sessions.                                           *)
(***************************************************************************)
EXTENDS PgSession, FiniteSetTheorems, TLAPS

-----------------------------------------------------------------------------
(***************************************************************************)
(* The inductive invariant, in parts.                                      *)
(***************************************************************************)
\* Where a task is while it holds a slot's guard.
Inside == {"locked", "running", "exporting"}

\* A task has a reference to a slot exactly while it waits for the lock or holds it,
\* which plain runs never do.
Held ==
    /\ \A k \in Tasks : slot[k] \in Slots <=>
           phase[k] \in {"waiting", "asking"} \/ (phase[k] \in Inside /\ kind[k] # "plain")
    /\ \A r \in Runs : phase[r] \in {"spawned", "waiting"} => kind[r] # "plain"

\* The holder of a slot's lock is the task inside it.
Guarded == \A s \in Slots, k \in Tasks : holder[s] = k <=> slot[k] = s /\ phase[k] \in Inside

\* While a run executes statements its slot pins nothing.
Exclusive == \A r \in Runs : phase[r] = "running" /\ slot[r] \in Slots => pinned[slot[r]] = None

\* A running run has a connection of its own, and only a running one has.
Lent ==
    /\ \A r \in Runs :
           IF phase[r] = "running" THEN client[r] \in Clients /\ place[client[r]] = "used"
           ELSE client[r] = None
    /\ \A q, r \in Runs : client[q] = client[r] /\ client[q] # None => q = r

\* No two slots pin a connection, and none pins one that is elsewhere.
Kept ==
    /\ \A s \in Slots : pinned[s] # None => place[pinned[s]] = "pinned"
    /\ \A s, u \in Slots : pinned[s] = pinned[u] /\ pinned[s] # None => s = u

\* Conversely a connection is where its place says.
Placed ==
    \A c \in Clients :
        /\ place[c] = "used" => \E r \in Runs : phase[r] = "running" /\ client[r] = c
        /\ place[c] = "pinned" => \E s \in Slots : pinned[s] = c
        /\ place[c] = "closed" => ~open[c]

\* A run knows of the transaction its connection is in.
Believed ==
    /\ \A r \in Runs : phase[r] = "running" /\ open[client[r]] =>
                           inTransaction[r] \/ client[r] \in late
    /\ ~down => late = {}

\* A slot that pins a connection is in the map, or a task has a reference to it.
Reachable == \A s \in Slots : pinned[s] # None => s \in Mapped \/ Refs(s) # {}

\* Tabs do not share slots, and until shutdown a task's slot is its tab's.
OwnSlots ==
    /\ \A t, u \in Tabs : slotOf[t] = slotOf[u] /\ slotOf[t] # None => t = u
    /\ ~down => \A k \in Tasks : slot[k] \in Slots => slotOf[tab[k]] = slot[k]

-----------------------------------------------------------------------------
(***************************************************************************)
(* Types.                                                                  *)
(***************************************************************************)
\* The bounds of the model, as the provers need them.
LEMMA Numbers == MaxStatements \in Nat /\ MaxIdle \in Nat
BY PgAssumption

\* Tasks are runs or releases, and None is nothing else.
LEMMA Disjoint ==
    /\ Runs \cap Releases = {} /\ Runs \subseteq Tasks /\ Releases \subseteq Tasks
    /\ None \notin Tabs \cup Slots \cup Clients \cup Tasks
BY PgAssumption DEF Tasks

\* A task that leaves a slot keeps the types of what it changes.
LEMMA LeaveTyped ==
    ASSUME TypeOK, NEW k \in Tasks, NEW c \in Clients \cup {None}, Leave(k, c)
    PROVE /\ slot' \in [Tasks -> Slots \cup {None}]
          /\ holder' \in [Slots -> Tasks \cup {None}]
          /\ pinned' \in [Slots -> Clients \cup {None}]
BY DEF TypeOK, SlotsOK, TasksOK, Leave

\* What a slot pins is a connection.
LEMMA PinnedByTyped == ASSUME TypeOK, NEW k \in Tasks PROVE PinnedBy(k) \in Clients \cup {None}
BY DEF TypeOK, SlotsOK, TasksOK, PinnedBy

\* A connection that changes place keeps the types of the connections.
LEMMA PutTyped ==
    ASSUME TypeOK, NEW c, NEW p \in Places, NEW ended \in BOOLEAN, Put(c, p, ended)
    PROVE ServerOK'
BY DEF TypeOK, ServerOK, Put

\* A task that leaves a slot with a connection in it keeps the types of what it changes.
LEMMA LeavePinnedTyped ==
    ASSUME TypeOK, NEW k \in Tasks, NEW c \in Clients \cup {None}, LeavePinned(k, c)
    PROVE /\ slot' \in [Tasks -> Slots \cup {None}]
          /\ holder' \in [Slots -> Tasks \cup {None}]
          /\ pinned' \in [Slots -> Clients \cup {None}]
          /\ ServerOK'
BY LeaveTyped, PutTyped DEF LeavePinned, Places

\* So does one that leaves the connection that is pinned.
LEMMA QuitTyped ==
    ASSUME TypeOK, NEW k \in Tasks, LeavePinned(k, PinnedBy(k))
    PROVE /\ slot' \in [Tasks -> Slots \cup {None}]
          /\ holder' \in [Slots -> Tasks \cup {None}]
          /\ pinned' \in [Slots -> Clients \cup {None}]
          /\ ServerOK'
BY LeavePinnedTyped, PinnedByTyped

\* A task that is dropped keeps the types of what it changes.
LEMMA DropTaskTyped ==
    ASSUME TypeOK, NEW r \in Runs, DropTask(r)
    PROVE /\ slot' \in [Tasks -> Slots \cup {None}]
          /\ holder' \in [Slots -> Tasks \cup {None}]
          /\ pinned' \in [Slots -> Clients \cup {None}]
          /\ ServerOK'
<1>1. r \in Tasks
  BY DEF Tasks
<1>2. CASE phase[r] = "running"
  BY <1>1, <1>2, LeaveTyped, PutTyped DEF DropTask, Places
<1>3. CASE phase[r] # "running"
  BY <1>1, <1>3, QuitTyped DEF DropTask
<1> QED
  BY <1>2, <1>3

\* A task that moves to another phase keeps the types of the tasks.
LEMMA MoveTyped ==
    ASSUME TypeOK, NEW k \in Tasks, NEW p \in Phases, phase' = [phase EXCEPT ![k] = p],
           tab' = tab, inlined' = inlined, slot' \in [Tasks -> Slots \cup {None}],
           k \in Runs \/ p \in {"none", "spawned", "waiting"},
           p = "none" \/ phase[k] # "none"
    PROVE TasksOK'
BY Disjoint DEF TypeOK, TasksOK

\* A task that has ended is in no phase of a task.
LEMMA AfterTaskTyped ==
    ASSUME NEW r, NEW ok PROVE AfterTask(r, ok) \in Phases \ (InTask \cup {"none"})
BY DEF AfterTask, Phases, InTask

\* The releases that take_matching starts are idle ones, each for a tab of its own.
LEMMA TakeMatchingTyped ==
    ASSUME TypeOK, NEW S \in SUBSET Tabs, TakeMatching(S), UNCHANGED slot
    PROVE TasksOK'
<1>1. PICK x \in [S -> {y \in Releases : phase[y] = "none"}] :
          LET started == {x[t] : t \in S} IN
          /\ phase' = [k \in Tasks |-> IF k \in started THEN "spawned" ELSE phase[k]]
          /\ tab' = [k \in Tasks |-> IF k \in started THEN CHOOSE t \in S : x[t] = k ELSE tab[k]]
          /\ inlined' = inlined \ started
  BY ZenonT(30) DEF TakeMatching
<1> DEFINE started == {x[t] : t \in S}
<1>2. started \subseteq Releases
  OBVIOUS
<1>3. ASSUME NEW k \in started PROVE (CHOOSE t \in S : x[t] = k) \in Tabs
  <2>1. \E t \in S : x[t] = k
    BY <1>3
  <2>2. (CHOOSE t \in S : x[t] = k) \in S
    BY <2>1
  <2> QED
    BY <2>2
<1> HIDE DEF started
<1>4. /\ phase' \in [Tasks -> Phases]
      /\ \A y \in Releases : phase'[y] \in {"none", "spawned", "waiting"}
  BY <1>1, <1>2 DEF started, TypeOK, TasksOK, Phases, InTask, Tasks
<1>5. /\ tab' \in [Tasks -> Tabs \cup {None}]
      /\ \A k \in Tasks : phase'[k] # "none" => tab'[k] \in Tabs
  BY <1>1, <1>3 DEF started, TypeOK, TasksOK
<1> QED
  BY <1>1, <1>4, <1>5 DEF started, TypeOK, TasksOK

\* Every step keeps the types of the slots.
LEMMA SlotsOKStep == TypeOK /\ [Next]_vars => SlotsOK'
<1> SUFFICES ASSUME TypeOK, [Next]_vars PROVE SlotsOK'
  OBVIOUS
<1>1. ASSUME NEW k \in Tasks, GetSlot(k) PROVE SlotsOK'
  BY <1>1
  DEF GetSlot, server, runs, registry, TypeOK, SlotsOK
<1>2. ASSUME NEW r \in Runs, Lock(r) PROVE SlotsOK'
  BY <1>2, Disjoint
  DEF Lock, server, runs, registry, TypeOK, SlotsOK
<1>3. ASSUME NEW r \in Runs, Reject(r) PROVE SlotsOK'
  BY <1>3, Disjoint, QuitTyped
  DEF Reject, TypeOK, SlotsOK
<1>4. ASSUME NEW r \in Runs, Take(r) PROVE SlotsOK'
  BY <1>4
  DEF Take, Put, registry, TypeOK, SlotsOK
<1>5. ASSUME NEW r \in Runs, AcquireFails(r) PROVE SlotsOK'
  BY <1>5, Disjoint, LeavePinnedTyped
  DEF AcquireFails, TypeOK, SlotsOK
<1>6. ASSUME NEW r \in Runs, Finish(r) PROVE SlotsOK'
  <2>1. client[r] \in Clients \cup {None} /\ None \in Clients \cup {None} /\ r \in Tasks
    BY Disjoint DEF TypeOK, RunsOK
  <2>2. holder' \in [Slots -> Tasks \cup {None}] /\ pinned' \in [Slots -> Clients \cup {None}]
    BY <1>6, <2>1, LeaveTyped, LeavePinnedTyped DEF Finish
  <2>3. idle' \in [Slots -> 0 .. MaxIdle + 1] /\ slotOf' = slotOf
    <3>1. slotOf' = slotOf /\ idle' \in {idle, [idle EXCEPT ![slot[r]] = 0]}
      BY <1>6 DEF Finish
    <3> QED
      BY <3>1, Numbers DEF TypeOK, SlotsOK
  <2> QED
    BY <2>2, <2>3 DEF TypeOK, SlotsOK
<1>7. ASSUME NEW r \in Runs, Export(r) PROVE SlotsOK'
  BY <1>7, Disjoint, LeavePinnedTyped DEF Export, TypeOK, SlotsOK
<1>8. ASSUME NEW r \in Runs, ExportEnds(r) PROVE SlotsOK'
  BY <1>8, Disjoint, QuitTyped, Numbers
  DEF ExportEnds, TypeOK, SlotsOK
<1>9. ASSUME NEW r \in Runs, Abort(r) PROVE SlotsOK'
  BY <1>9, Disjoint, DropTaskTyped
  DEF Abort, TypeOK, SlotsOK
<1>10. ASSUME NEW r \in Runs, ExpireHandler(r) PROVE SlotsOK'
  BY <1>10, Disjoint, DropTaskTyped
  DEF ExpireHandler, TypeOK, SlotsOK
<1>11. ASSUME NEW r \in Runs, Answer(r) PROVE SlotsOK'
  BY <1>11, Disjoint, QuitTyped
  DEF Answer, TypeOK, SlotsOK
<1>12. ASSUME NEW x \in Releases, Release(x) PROVE SlotsOK'
  BY <1>12, Disjoint, LeaveTyped
  DEF Release, TypeOK, SlotsOK
<1>13. ASSUME NEW x \in Releases, ExpireRelease(x) PROVE SlotsOK'
  BY <1>13, Disjoint, QuitTyped
  DEF ExpireRelease, TypeOK, SlotsOK
<1>14. ASSUME NEW t \in Tabs, Sweep(t) PROVE SlotsOK'
  BY <1>14
  DEF Sweep, RollbackAndRelease, Put, server, runs, registry, TypeOK, SlotsOK
<1>15. CASE ReleaseAll
  BY <1>15
  DEF ReleaseAll, runs, registry, TypeOK, SlotsOK
<1>16. ASSUME NEW s \in Slots, Tick(s) PROVE SlotsOK'
  BY <1>16, Numbers
  DEF Tick, server, runs, registry, TypeOK, SlotsOK
<1>17. CASE UNCHANGED <<slotOf, holder, pinned, idle>>
  BY <1>17 DEF TypeOK, SlotsOK
<1> QED
  BY ZenonT(60), <1>1, <1>2, <1>3, <1>4, <1>5, <1>6, <1>7, <1>8, <1>9, <1>10, <1>11, <1>12,
     <1>13, <1>14, <1>15, <1>16, <1>17
  DEF Next, vars, RunStep, ReleaseStep, Tasks, slots, server, runs, registry, Start,
      Acquire, Exec, Cancel, Expire, Ask, Report, ReleaseTab, ReleaseConnection,
      CancelOwner, ClearOwner

\* Every step keeps the types of the connections.
LEMMA ServerOKStep == TypeOK /\ [Next]_vars => ServerOK'
<1> SUFFICES ASSUME TypeOK, [Next]_vars PROVE ServerOK'
  OBVIOUS
<1>1. ASSUME NEW r \in Runs, Reject(r) PROVE ServerOK'
  BY <1>1, Disjoint, QuitTyped DEF Reject
<1>2. ASSUME NEW r \in Runs, Take(r) PROVE ServerOK'
  BY <1>2, PutTyped DEF Take, Places
<1>3. ASSUME NEW r \in Runs, NEW c \in Clients, Acquire(r, c) PROVE ServerOK'
  BY <1>3, PutTyped DEF Acquire, Places
<1>4. ASSUME NEW r \in Runs, AcquireFails(r) PROVE ServerOK'
  BY <1>4, Disjoint, LeavePinnedTyped DEF AcquireFails
<1>5. ASSUME NEW r \in Runs, NEW e \in Effects, NEW outcome \in {"ok", "error", "refused"},
             Exec(r, e, outcome)
     PROVE ServerOK'
  <2>1. ServerAfter(e, outcome, open[client[r]]) \in BOOLEAN \/ client[r] \notin Clients
    BY DEF ServerAfter, TypeOK, ServerOK
  <2> QED
    BY <1>5, <2>1 DEF Exec, TypeOK, ServerOK
<1>6. ASSUME NEW r \in Runs, Finish(r) PROVE ServerOK'
  <2>1. client[r] \in Clients \cup {None} /\ r \in Tasks
    BY Disjoint DEF TypeOK, RunsOK
  <2> QED
    BY <1>6, <2>1, LeavePinnedTyped, PutTyped DEF Finish, RollbackAndRelease, Places
<1>7. ASSUME NEW r \in Runs, Export(r) PROVE ServerOK'
  BY <1>7, Disjoint, LeavePinnedTyped DEF Export, server, TypeOK, ServerOK
<1>8. ASSUME NEW r \in Runs, ExportEnds(r) PROVE ServerOK'
  BY <1>8, Disjoint, QuitTyped DEF ExportEnds
<1>9. ASSUME NEW r \in Runs, Abort(r) PROVE ServerOK'
  BY <1>9, DropTaskTyped DEF Abort
<1>10. ASSUME NEW r \in Runs, ExpireHandler(r) PROVE ServerOK'
  BY <1>10, DropTaskTyped DEF ExpireHandler
<1>11. ASSUME NEW r \in Runs, Answer(r) PROVE ServerOK'
  BY <1>11, Disjoint, QuitTyped DEF Answer
<1>12. ASSUME NEW x \in Releases, Release(x) PROVE ServerOK'
  BY <1>12, PutTyped DEF Release, RollbackAndRelease, Places
<1>13. ASSUME NEW x \in Releases, ExpireRelease(x) PROVE ServerOK'
  BY <1>13, Disjoint, QuitTyped DEF ExpireRelease
<1>14. ASSUME NEW t \in Tabs, Sweep(t) PROVE ServerOK'
  BY <1>14, PutTyped DEF Sweep, RollbackAndRelease, Places, server, TypeOK, ServerOK
<1>15. CASE ReleaseAll
  <2> DEFINE C == {pinned[s] : s \in {u \in Slots \cap Mapped : holder[u] = None}} \ {None}
  <2>1. /\ place' = [c \in Clients |-> IF c \in C THEN "pool" ELSE place[c]]
        /\ open' = [c \in Clients |-> open[c] /\ c \notin C \ late']
    BY <1>15 DEF ReleaseAll
  <2> HIDE DEF C
  <2> QED
    BY <2>1 DEF TypeOK, ServerOK, Places
<1>16. CASE UNCHANGED <<place, open>>
  BY <1>16 DEF TypeOK, ServerOK
<1> QED
  BY ZenonT(60), <1>1, <1>2, <1>3, <1>4, <1>5, <1>6, <1>7, <1>8, <1>9, <1>10, <1>11, <1>12,
     <1>13, <1>14, <1>15, <1>16
  DEF Next, vars, RunStep, ReleaseStep, Tasks, slots, server, runs, registry, Start,
      GetSlot, Lock, Cancel, Expire, Ask, Report, ReleaseTab, ReleaseConnection,
      CancelOwner, ClearOwner, Tick

\* Every step keeps the types of the tasks.
LEMMA TasksOKStep == TypeOK /\ [Next]_vars => TasksOK'
<1> SUFFICES ASSUME TypeOK, [Next]_vars PROVE TasksOK'
  OBVIOUS
<1>1. ASSUME NEW r \in Runs, NEW t \in Tabs, NEW k \in Kinds, NEW d \in Databases,
             Start(r, t, k, d)
     PROVE TasksOK'
  <2>1. /\ phase' = [phase EXCEPT ![r] = IF k = "plain" THEN "locked" ELSE "spawned"]
        /\ tab' = [tab EXCEPT ![r] = t] /\ UNCHANGED <<slot, inlined>>
    BY <1>1 DEF Start
  <2> QED
    BY <2>1, Disjoint DEF TypeOK, TasksOK, Phases, InTask
<1>2. ASSUME NEW k \in Tasks, GetSlot(k) PROVE TasksOK'
  <2>1. /\ phase[k] = "spawned" /\ phase' = [phase EXCEPT ![k] = "waiting"]
        /\ UNCHANGED <<tab, inlined>>
    BY <1>2 DEF GetSlot
  <2>2. slot' \in [Tasks -> Slots \cup {None}]
    BY <1>2 DEF GetSlot, TypeOK, TasksOK
  <2> QED
    BY <2>1, <2>2, Disjoint, MoveTyped DEF Phases, InTask, Tasks
<1>3. ASSUME NEW r \in Runs, Lock(r) PROVE TasksOK'
  BY <1>3, Disjoint, MoveTyped DEF Lock, slots, Phases, InTask, TypeOK, TasksOK
<1>4. ASSUME NEW r \in Runs, Reject(r) PROVE TasksOK'
  BY <1>4, Disjoint, MoveTyped, AfterTaskTyped, QuitTyped
  DEF Reject, Phases, InTask
<1>5. ASSUME NEW r \in Runs, Take(r) PROVE TasksOK'
  BY <1>5, Disjoint, MoveTyped DEF Take, slots, Phases, InTask, TypeOK, TasksOK
<1>6. ASSUME NEW r \in Runs, NEW c \in Clients, Acquire(r, c) PROVE TasksOK'
  BY <1>6, Disjoint, MoveTyped DEF Acquire, slots, Phases, InTask, TypeOK, TasksOK
<1>7. ASSUME NEW r \in Runs, AcquireFails(r) PROVE TasksOK'
  BY <1>7, Disjoint, MoveTyped, AfterTaskTyped, LeavePinnedTyped
  DEF AcquireFails, Phases, InTask
<1>8. ASSUME NEW r \in Runs, Finish(r) PROVE TasksOK'
  <2>1. client[r] \in Clients \cup {None} /\ r \in Tasks
    BY Disjoint DEF TypeOK, RunsOK
  <2>2. slot' \in [Tasks -> Slots \cup {None}]
    BY <1>8, <2>1, LeaveTyped, LeavePinnedTyped DEF Finish
  <2> QED
    BY <1>8, <2>1, <2>2, MoveTyped, AfterTaskTyped DEF Finish, InTask
<1>9. ASSUME NEW r \in Runs, Export(r) PROVE TasksOK'
  BY <1>9, Disjoint, MoveTyped, LeavePinnedTyped DEF Export, Phases, InTask, TypeOK, TasksOK
<1>10. ASSUME NEW r \in Runs, ExportEnds(r) PROVE TasksOK'
  BY <1>10, Disjoint, MoveTyped, QuitTyped DEF ExportEnds, Phases
<1>11. ASSUME NEW r \in Runs, Abort(r) PROVE TasksOK'
  BY <1>11, Disjoint, MoveTyped, AfterTaskTyped, DropTaskTyped
  DEF Abort, Phases, InTask
<1>12. ASSUME NEW r \in Runs, ExpireHandler(r) PROVE TasksOK'
  BY <1>12, Disjoint, MoveTyped, AfterTaskTyped, DropTaskTyped
  DEF ExpireHandler, Phases, InTask
<1>13. ASSUME NEW r \in Runs, Ask(r) PROVE TasksOK'
  <2>1. slotOf[tab[r]] \in Slots \cup {None} /\ r \in Tasks
    BY <1>13, Disjoint DEF Ask, TypeOK, TasksOK, SlotsOK
  <2>2. slot' \in [Tasks -> Slots \cup {None}]
    BY <1>13, <2>1 DEF Ask, TypeOK, TasksOK
  <2> QED
    BY <1>13, <2>1, <2>2, MoveTyped DEF Ask, Phases
<1>14. ASSUME NEW r \in Runs, Answer(r) PROVE TasksOK'
  BY <1>14, Disjoint, MoveTyped, QuitTyped DEF Answer, Phases
<1>15. ASSUME NEW r \in Runs, Report(r) PROVE TasksOK'
  BY <1>15, Disjoint, MoveTyped DEF Report, slots, Phases, InTask, TypeOK, TasksOK
<1>16. ASSUME NEW t \in Tabs, NEW x \in Releases, ReleaseTab(t, x) PROVE TasksOK'
  <2>1. /\ phase' = [phase EXCEPT ![x] = "spawned"] /\ tab' = [tab EXCEPT ![x] = t]
        /\ inlined' = inlined \cup {x} /\ slot' = slot
    BY <1>16 DEF ReleaseTab
  <2> QED
    BY <2>1, Disjoint DEF TypeOK, TasksOK, Phases, InTask
<1>17. ASSUME NEW o \in Owners, ReleaseConnection(o) PROVE TasksOK'
  <2>1. TakeMatching({t \in registered : OwnerOf[t] = o}) /\ UNCHANGED slot
    BY <1>17 DEF ReleaseConnection
  <2>2. {t \in registered : OwnerOf[t] = o} \in SUBSET Tabs
    BY DEF TypeOK, RegistryOK
  <2> QED
    BY <2>1, <2>2, TakeMatchingTyped
<1>18. ASSUME NEW o \in Owners, ClearOwner(o) PROVE TasksOK'
  <2>1. TakeMatching({t \in registered : OwnerOf[t] = o}) /\ UNCHANGED slot
    BY <1>18 DEF ClearOwner
  <2>2. {t \in registered : OwnerOf[t] = o} \in SUBSET Tabs
    BY DEF TypeOK, RegistryOK
  <2> QED
    BY <2>1, <2>2, TakeMatchingTyped
<1>19. ASSUME NEW x \in Releases, Release(x) PROVE TasksOK'
  BY <1>19, Disjoint, MoveTyped, LeaveTyped DEF Release, Phases
<1>20. ASSUME NEW x \in Releases, ExpireRelease(x) PROVE TasksOK'
  BY <1>20, Disjoint, MoveTyped, QuitTyped DEF ExpireRelease, Phases
<1>21. CASE UNCHANGED <<phase, slot, tab, inlined>>
  BY <1>21 DEF TypeOK, TasksOK
<1> QED
  BY ZenonT(60), <1>1, <1>2, <1>3, <1>4, <1>5, <1>6, <1>7, <1>8, <1>9, <1>10, <1>11, <1>12,
     <1>13, <1>14, <1>15, <1>16, <1>17, <1>18, <1>19, <1>20, <1>21
  DEF Next, vars, RunStep, ReleaseStep, Tasks, slots, server, runs, registry, Exec, Cancel,
      Expire, CancelOwner, Sweep, ReleaseAll, Tick

\* Every step keeps the types of the runs.
LEMMA RunsOKStep == TypeOK /\ [Next]_vars => RunsOK'
<1> SUFFICES ASSUME TypeOK, [Next]_vars PROVE RunsOK'
  OBVIOUS
<1>1. ASSUME NEW r \in Runs, NEW t \in Tabs, NEW k \in Kinds, NEW d \in Databases,
             Start(r, t, k, d)
     PROVE RunsOK'
  BY <1>1 DEF Start, TypeOK, RunsOK
<1>2. ASSUME NEW r \in Runs, Take(r) PROVE RunsOK'
  BY <1>2, PinnedByTyped, Disjoint DEF Take, TypeOK, RunsOK
<1>3. ASSUME NEW r \in Runs, NEW c \in Clients, Acquire(r, c) PROVE RunsOK'
  BY <1>3
  DEF Acquire, Put, slots, registry, TypeOK, RunsOK
<1>4. ASSUME NEW r \in Runs, NEW e \in Effects, NEW outcome \in {"ok", "error", "refused"},
             Exec(r, e, outcome)
     PROVE RunsOK'
  <2>1. InTransactionAfter(e, outcome = "ok", inTransaction[r]) \in BOOLEAN
    BY DEF InTransactionAfter, TypeOK, RunsOK
  <2> QED
    BY <1>4, <2>1, Numbers DEF Exec, TypeOK, RunsOK
<1>5. ASSUME NEW r \in Runs, Finish(r) PROVE RunsOK'
  BY <1>5
  DEF Finish, Put, Leave, LeavePinned, RollbackAndRelease, registry, TypeOK, RunsOK
<1>6. ASSUME NEW r \in Runs, Cancel(r) PROVE RunsOK'
  BY <1>6 DEF Cancel, TypeOK, RunsOK
<1>7. ASSUME NEW r \in Runs, Abort(r) PROVE RunsOK'
  BY <1>7
  DEF Abort, DropTask, Put, Leave, LeavePinned, registry, TypeOK, RunsOK
<1>8. ASSUME NEW r \in Runs, Expire(r) PROVE RunsOK'
  BY <1>8 DEF Expire, TypeOK, RunsOK
<1>9. ASSUME NEW r \in Runs, ExpireHandler(r) PROVE RunsOK'
  BY <1>9
  DEF ExpireHandler, DropTask, Put, Leave, LeavePinned, registry, TypeOK, RunsOK
<1>10. ASSUME NEW r \in Runs, Ask(r) PROVE RunsOK'
  BY <1>10
  DEF Ask, slots, server, registry, TypeOK, RunsOK
<1>11. ASSUME NEW r \in Runs, Answer(r) PROVE RunsOK'
  BY <1>11
  DEF Answer, LeavePinned, Put, Leave, registry, TypeOK, RunsOK
<1>12. ASSUME NEW o \in Owners, CancelOwner(o) PROVE RunsOK'
  BY <1>12 DEF CancelOwner, TypeOK, RunsOK
<1>13. ASSUME NEW o \in Owners, ClearOwner(o) PROVE RunsOK'
  BY <1>13 DEF ClearOwner, TypeOK, RunsOK
<1>14. CASE UNCHANGED <<kind, db, client, inTransaction, statements, erred, cancelled, gone>>
  BY <1>14 DEF TypeOK, RunsOK
<1> QED
  BY ZenonT(60), <1>1, <1>2, <1>3, <1>4, <1>5, <1>6, <1>7, <1>8, <1>9, <1>10, <1>11, <1>12,
     <1>13, <1>14
  DEF Next, vars, RunStep, ReleaseStep, Tasks, slots, server, runs, registry, GetSlot,
      Lock, Reject, AcquireFails, Export, ExportEnds, Report, ReleaseTab,
      ReleaseConnection, Release, ExpireRelease, Sweep, ReleaseAll, Tick

\* Every step keeps the types of the registry of tabs.
LEMMA RegistryOKStep == TypeOK /\ [Next]_vars => RegistryOK'
<1> SUFFICES ASSUME TypeOK, [Next]_vars PROVE RegistryOK'
  OBVIOUS
<1>1. ASSUME NEW r \in Runs, NEW t \in Tabs, NEW k \in Kinds, NEW d \in Databases,
             Start(r, t, k, d)
     PROVE RegistryOK'
  <2>1. CASE k = "session"
    BY <1>1, <2>1 DEF Start, register, TypeOK, RegistryOK
  <2>2. CASE k # "session"
    BY <1>1, <2>2 DEF Start, registry, TypeOK, RegistryOK
  <2> QED
    BY <2>1, <2>2
<1>2. ASSUME NEW r \in Runs, Report(r) PROVE RegistryOK'
  <2>1. tab[r] \in Tabs
    BY <1>2, Disjoint DEF Report, TypeOK, TasksOK
  <2> DEFINE left == IF active_runs[tab[r]] = 0 THEN 0 ELSE active_runs[tab[r]] - 1
  <2>2. left \in Nat
    BY <2>1 DEF TypeOK, RegistryOK
  <2>3. ReportWith(tab[r], inTransaction[r], left) /\ UNCHANGED <<clearing, down, late>>
    BY <1>2 DEF Report, report
  <2> HIDE DEF left
  <2> QED
    BY <2>1, <2>2, <2>3 DEF ReportWith, Forget, registry, TypeOK, RegistryOK
<1>3. ASSUME NEW t \in Tabs, NEW x \in Releases, ReleaseTab(t, x) PROVE RegistryOK'
  BY <1>3
  DEF ReleaseTab, Forget, slots, server, runs, TypeOK, RegistryOK
<1>4. ASSUME NEW o \in Owners, ReleaseConnection(o) PROVE RegistryOK'
  BY <1>4
  DEF ReleaseConnection, TakeMatching, Forget, slots, server, runs, TypeOK, RegistryOK
<1>5. ASSUME NEW o \in Owners, CancelOwner(o) PROVE RegistryOK'
  BY <1>5
  DEF CancelOwner, slots, server, registry, TypeOK, RegistryOK
<1>6. ASSUME NEW o \in Owners, ClearOwner(o) PROVE RegistryOK'
  BY <1>6
  DEF ClearOwner, TakeMatching, Forget, slots, server, TypeOK, RegistryOK
<1>7. CASE ReleaseAll
  <2> DEFINE C == {pinned[s] : s \in {u \in Slots \cap Mapped : holder[u] = None}} \ {None}
  <2>1. C \subseteq Clients
    BY DEF TypeOK, SlotsOK
  <2>2. late' \in SUBSET C /\ down' = TRUE /\ UNCHANGED <<registry, clearing>>
    BY <1>7 DEF ReleaseAll
  <2> HIDE DEF C
  <2> QED
    BY <2>1, <2>2 DEF registry, TypeOK, RegistryOK
<1>8. CASE UNCHANGED <<registered, active_runs, saw_transaction, clearing, down, late>>
  BY <1>8 DEF TypeOK, RegistryOK
<1> QED
  BY ZenonT(60), <1>1, <1>2, <1>3, <1>4, <1>5, <1>6, <1>7, <1>8
  DEF Next, vars, RunStep, ReleaseStep, Tasks, slots, server, runs, registry, GetSlot,
      Lock, Reject, Take, Acquire, AcquireFails, Exec, Finish, Export, ExportEnds, Cancel,
      Abort, Expire, ExpireHandler, Ask, Answer, Release, ExpireRelease, Sweep, Tick

\* TypeOK is inductive by itself: it holds initially.
LEMMA TypeInit == Init => TypeOK
<1> SUFFICES ASSUME Init PROVE TypeOK
  OBVIOUS
<1>1. SlotsOK
  BY Numbers DEF Init, SlotsOK
<1>2. ServerOK
  BY DEF Init, ServerOK, Places
<1>3. TasksOK
  BY Disjoint DEF Init, TasksOK, Phases, InTask
<1>4. RunsOK
  BY Numbers DEF Init, RunsOK
<1>5. RegistryOK
  BY DEF Init, RegistryOK
<1> QED
  BY <1>1, <1>2, <1>3, <1>4, <1>5 DEF TypeOK

\* Types after a step.
LEMMA TypeStep == TypeOK /\ [Next]_vars => TypeOK'
BY SlotsOKStep, ServerOKStep, TasksOKStep, RunsOKStep, RegistryOKStep DEF TypeOK

\* The variables keep their types (TypeOK), whatever the tasks do.
THEOREM TypeCorrect == Spec => []TypeOK
BY TypeInit, TypeStep, PTL DEF Spec

-----------------------------------------------------------------------------
(***************************************************************************)
(* The kinds of steps.  What a step does to slots and connections is the   *)
(* same for many actions: a task that is outside a statement quits, a run  *)
(* that executes statements ends, or nothing but the tasks' phases change. *)
(***************************************************************************)
\* Phases of a task that has no slot and no connection.
Settled == {"none", "done", "failed", "answered", "over"}

Moves(k, P) == \E p \in P : phase' = [phase EXCEPT ![k] = p]

\* inTransaction may change for k only.
KeepsOthers(k) == \A r \in Runs : r # k => inTransaction'[r] = inTransaction[r]

frame == <<slotOf, tab, kind, db, down, late>>

\* Nothing happens to slots and connections; tasks begin, or have reported.
Begins ==
    /\ UNCHANGED <<slotOf, holder, pinned, place, open, slot, client, inTransaction, down, late>>
    /\ \A k \in Tasks :
        \/ /\ phase'[k] = phase[k] /\ tab'[k] = tab[k]
           /\ k \in Runs => kind'[k] = kind[k] /\ db'[k] = db[k]
        \/ /\ phase[k] \in {"none", "done", "answered"}
           /\ \/ phase'[k] \in {"spawned", "over"}
              \/ k \in Runs /\ phase'[k] = "locked" /\ kind'[k] = "plain"
           /\ k \in Runs /\ phase'[k] = "spawned" => kind'[k] # "plain"

\* A task that is not executing statements quits.
Quits(k) ==
    /\ phase[k] \notin {"none", "running"} /\ Moves(k, Settled)
    /\ LeavePinned(k, PinnedBy(k))
    /\ KeepsOthers(k) /\ UNCHANGED <<client, frame>>

\* A run that executes statements ends: its connection is pinned, or it goes to the
\* pool or is closed after its transaction, if the run knows of one.
Ends(r) ==
    /\ phase[r] = "running" /\ Moves(r, Settled)
    /\ \/ slot[r] \in Slots /\ LeavePinned(r, client[r])
       \/ Leave(r, None) /\ RollbackAndRelease(client[r])
       \/ Leave(r, None) /\ ~inTransaction[r] /\ Put(client[r], "pool", FALSE)
    /\ client' = [client EXCEPT ![r] = None]
    /\ KeepsOthers(r) /\ UNCHANGED frame

\* An export borrows the connection that its slot pins.
Borrows(r) ==
    /\ phase[r] = "locked" /\ phase' = [phase EXCEPT ![r] = "exporting"]
    /\ UNCHANGED <<holder, pinned, place, open, slot, client, inTransaction, frame>>

Shape ==
    \/ Begins \/ ReleaseAll
    \/ \E k \in Tasks : GetSlot(k)
    \/ \E k \in Tasks : Quits(k)
    \/ \E r \in Runs : Lock(r)
    \/ \E r \in Runs : Take(r)
    \/ \E r \in Runs, c \in Clients : Acquire(r, c)
    \/ \E r \in Runs, e \in Effects, outcome \in {"ok", "error", "refused"} : Exec(r, e, outcome)
    \/ \E r \in Runs : Ends(r)
    \/ \E r \in Runs : Borrows(r)
    \/ \E r \in Runs : Ask(r)
    \/ \E x \in Releases : Release(x)
    \/ \E t \in Tabs : Sweep(t)

\* A task that has ended has no slot and no connection.
LEMMA AfterTaskSettled == ASSUME NEW r, NEW ok PROVE AfterTask(r, ok) \in Settled
BY DEF AfterTask, Settled

\* take_matching only starts releases.
LEMMA TakeMatchingBegins ==
    ASSUME TypeOK, NEW S, TakeMatching(S),
           UNCHANGED <<slots, server, slot, kind, db, client, inTransaction, down, late>>
    PROVE Begins
<1>1. PICK x \in [S -> {y \in Releases : phase[y] = "none"}] :
          LET started == {x[t] : t \in S} IN
          /\ phase' = [k \in Tasks |-> IF k \in started THEN "spawned" ELSE phase[k]]
          /\ tab' = [k \in Tasks |-> IF k \in started THEN CHOOSE t \in S : x[t] = k ELSE tab[k]]
  BY ZenonT(30) DEF TakeMatching
<1> DEFINE started == {x[t] : t \in S}
<1>2. \A k \in started : k \in Releases /\ phase[k] = "none"
  OBVIOUS
<1> HIDE DEF started
<1>3. \A k \in Tasks : IF k \in started THEN phase[k] = "none" /\ phase'[k] = "spawned"
                       ELSE phase'[k] = phase[k] /\ tab'[k] = tab[k]
  BY <1>1, <1>2 DEF started
<1> QED
  BY <1>2, <1>3, Disjoint DEF Begins, slots, server

\* Every step is of one of these kinds.
LEMMA StepShape == TypeOK /\ Lent /\ [Next]_vars => Shape
<1> SUFFICES ASSUME TypeOK /\ Lent, [Next]_vars PROVE Shape
  OBVIOUS
<1>1. ASSUME NEW r \in Runs, NEW t \in Tabs, NEW k \in Kinds, NEW d \in Databases,
             Start(r, t, k, d)
     PROVE Shape
  <2>1. Begins
    <3>1. UNCHANGED <<slotOf, holder, pinned, place, open, slot, client, inTransaction, down, late>>
      BY <1>1 DEF Start, slots, server
    <3>2. /\ phase[r] = "none"
          /\ phase' = [phase EXCEPT ![r] = IF k = "plain" THEN "locked" ELSE "spawned"]
          /\ tab' = [tab EXCEPT ![r] = t]
          /\ kind' = [kind EXCEPT ![r] = k] /\ db' = [db EXCEPT ![r] = d]
      BY <1>1 DEF Start
    <3> QED
      BY <3>1, <3>2 DEF Begins, TypeOK, TasksOK, RunsOK
  <2> QED
    BY <2>1 DEF Shape
<1>2. ASSUME NEW k \in Tasks, GetSlot(k) PROVE Shape
  BY <1>2 DEF Shape
<1>3. ASSUME NEW r \in Runs, Lock(r) PROVE Shape
  BY <1>3 DEF Shape
<1>4. ASSUME NEW r \in Runs, Reject(r) PROVE Shape
  <2>1. /\ phase[r] \notin {"none", "running"} /\ Moves(r, Settled)
        /\ LeavePinned(r, PinnedBy(r))
    BY <1>4, AfterTaskSettled DEF Reject, Moves, Settled
  <2>2. KeepsOthers(r) /\ UNCHANGED <<client, frame>>
    BY <1>4 DEF Reject, runs, KeepsOthers, frame, TypeOK, RunsOK
  <2> QED
    BY <2>1, <2>2, Disjoint DEF Quits, Shape
<1>5. ASSUME NEW r \in Runs, Take(r) PROVE Shape
  BY <1>5 DEF Shape
<1>6. ASSUME NEW r \in Runs, NEW c \in Clients, Acquire(r, c) PROVE Shape
  BY <1>6 DEF Shape
<1>7. ASSUME NEW r \in Runs, AcquireFails(r) PROVE Shape
  <2>1. /\ phase[r] \notin {"none", "running"} /\ Moves(r, Settled)
        /\ LeavePinned(r, PinnedBy(r))
    BY <1>7, AfterTaskSettled DEF AcquireFails, Moves, Settled
  <2>2. KeepsOthers(r) /\ UNCHANGED <<client, frame>>
    BY <1>7 DEF AcquireFails, runs, KeepsOthers, frame, TypeOK, RunsOK
  <2> QED
    BY <2>1, <2>2, Disjoint DEF Quits, Shape
<1>8. ASSUME NEW r \in Runs, NEW e \in Effects, NEW outcome \in {"ok", "error", "refused"},
             Exec(r, e, outcome)
     PROVE Shape
  BY <1>8 DEF Shape
<1>9. ASSUME NEW r \in Runs, Finish(r) PROVE Shape
  <2>1. Moves(r, Settled)
    BY <1>9, AfterTaskSettled DEF Finish, Moves
  <2>2. \/ slot[r] \in Slots /\ LeavePinned(r, client[r])
        \/ Leave(r, None) /\ RollbackAndRelease(client[r])
        \/ Leave(r, None) /\ ~inTransaction[r] /\ Put(client[r], "pool", FALSE)
    BY <1>9 DEF Finish
  <2>3. /\ phase[r] = "running" /\ client' = [client EXCEPT ![r] = None]
        /\ KeepsOthers(r) /\ UNCHANGED frame
    BY <1>9 DEF Finish, KeepsOthers, frame, TypeOK, RunsOK
  <2> QED
    BY <2>1, <2>2, <2>3 DEF Ends, Shape
<1>10. ASSUME NEW r \in Runs, Export(r) PROVE Shape
  <2>1. CASE PinnedBy(r) = None
    <3>1. phase[r] \notin {"none", "running"} /\ Moves(r, Settled) /\ LeavePinned(r, PinnedBy(r))
      BY <1>10, <2>1 DEF Export, Moves, Settled
    <3>2. KeepsOthers(r) /\ UNCHANGED <<client, frame>>
      BY <1>10, <2>1 DEF Export, runs, KeepsOthers, frame
    <3> QED
      BY <3>1, <3>2, Disjoint DEF Quits, Shape
  <2>2. CASE PinnedBy(r) # None
    <3>1. Borrows(r)
      BY <1>10, <2>2 DEF Export, server, runs, Borrows, frame
    <3> QED
      BY <3>1 DEF Shape
  <2> QED
    BY <2>1, <2>2
<1>11. ASSUME NEW r \in Runs, ExportEnds(r) PROVE Shape
  <2>1. /\ phase[r] \notin {"none", "running"} /\ Moves(r, Settled)
        /\ LeavePinned(r, PinnedBy(r))
    BY <1>11, AfterTaskSettled DEF ExportEnds, Moves, Settled
  <2>2. KeepsOthers(r) /\ UNCHANGED <<client, frame>>
    BY <1>11 DEF ExportEnds, runs, KeepsOthers, frame, TypeOK, RunsOK
  <2> QED
    BY <2>1, <2>2, Disjoint DEF Quits, Shape
<1>12. ASSUME NEW r \in Runs, Cancel(r) PROVE Shape
  <2>1. Begins
    BY <1>12 DEF Cancel, Begins, slots, server, runs, TypeOK, TasksOK
  <2> QED
    BY <2>1 DEF Shape
<1>13. ASSUME NEW r \in Runs, Abort(r) PROVE Shape
  <2>1. Moves(r, Settled) /\ DropTask(r) /\ phase[r] # "none"
    BY <1>13, AfterTaskSettled DEF Abort, Moves, Settled, InTask
  <2>2. client' = [client EXCEPT ![r] = None] /\ KeepsOthers(r) /\ UNCHANGED frame
    BY <1>13 DEF Abort, KeepsOthers, frame
  <2>3. CASE phase[r] = "running"
    BY <2>1, <2>2, <2>3 DEF DropTask, RollbackAndRelease, Ends, Shape
  <2>4. CASE phase[r] # "running"
    <3>1. client' = client
      BY <2>2, <2>4 DEF Lent, TypeOK, RunsOK
    <3> QED
      BY <2>1, <2>2, <2>4, <3>1, Disjoint DEF DropTask, Quits, Shape
  <2> QED
    BY <2>3, <2>4
<1>14. ASSUME NEW r \in Runs, Expire(r) PROVE Shape
  <2>1. Begins
    BY <1>14 DEF Expire, Begins, slots, server, runs, TypeOK, TasksOK
  <2> QED
    BY <2>1 DEF Shape
<1>15. ASSUME NEW r \in Runs, ExpireHandler(r) PROVE Shape
  <2>1. Moves(r, Settled) /\ DropTask(r) /\ phase[r] # "none"
    BY <1>15, AfterTaskSettled DEF ExpireHandler, Moves, Settled, InTask
  <2>2. client' = [client EXCEPT ![r] = None] /\ KeepsOthers(r) /\ UNCHANGED frame
    BY <1>15 DEF ExpireHandler, KeepsOthers, frame
  <2>3. CASE phase[r] = "running"
    BY <2>1, <2>2, <2>3 DEF DropTask, RollbackAndRelease, Ends, Shape
  <2>4. CASE phase[r] # "running"
    <3>1. client' = client
      BY <2>2, <2>4 DEF Lent, TypeOK, RunsOK
    <3> QED
      BY <2>1, <2>2, <2>4, <3>1, Disjoint DEF DropTask, Quits, Shape
  <2> QED
    BY <2>3, <2>4
<1>16. ASSUME NEW r \in Runs, Ask(r) PROVE Shape
  BY <1>16 DEF Shape
<1>17. ASSUME NEW r \in Runs, Answer(r) PROVE Shape
  <2>1. /\ phase[r] \notin {"none", "running"} /\ Moves(r, Settled)
        /\ LeavePinned(r, PinnedBy(r))
    BY <1>17, AfterTaskSettled DEF Answer, Moves, Settled
  <2>2. KeepsOthers(r) /\ UNCHANGED <<client, frame>>
    BY <1>17 DEF Answer, runs, KeepsOthers, frame, TypeOK, RunsOK
  <2> QED
    BY <2>1, <2>2, Disjoint DEF Quits, Shape
<1>18. ASSUME NEW r \in Runs, Report(r) PROVE Shape
  <2>1. Begins
    BY <1>18 DEF Report, Begins, slots, server, runs, TypeOK, TasksOK
  <2> QED
    BY <2>1 DEF Shape
<1>19. ASSUME NEW t \in Tabs, NEW x \in Releases, ReleaseTab(t, x) PROVE Shape
  <2>1. Begins
    BY <1>19, Disjoint DEF ReleaseTab, Begins, slots, server, runs, TypeOK, TasksOK
  <2> QED
    BY <2>1 DEF Shape
<1>20. ASSUME NEW o \in Owners, ReleaseConnection(o) PROVE Shape
  <2>1. TakeMatching({t \in registered : OwnerOf[t] = o})
    BY <1>20 DEF ReleaseConnection
  <2>2. UNCHANGED <<slots, server, slot, kind, db, client, inTransaction, down, late>>
    BY <1>20 DEF ReleaseConnection, runs
  <2> QED
    BY <2>1, <2>2, TakeMatchingBegins DEF Shape
<1>21. ASSUME NEW o \in Owners, CancelOwner(o) PROVE Shape
  <2>1. Begins
    BY <1>21 DEF CancelOwner, Begins, slots, server, runs, TypeOK, TasksOK
  <2> QED
    BY <2>1 DEF Shape
<1>22. ASSUME NEW o \in Owners, ClearOwner(o) PROVE Shape
  <2>1. TakeMatching({t \in registered : OwnerOf[t] = o})
    BY <1>22 DEF ClearOwner
  <2>2. UNCHANGED <<slots, server, slot, kind, db, client, inTransaction, down, late>>
    BY <1>22 DEF ClearOwner, runs
  <2> QED
    BY <2>1, <2>2, TakeMatchingBegins DEF Shape
<1>23. ASSUME NEW x \in Releases, Release(x) PROVE Shape
  BY <1>23 DEF Shape
<1>24. ASSUME NEW x \in Releases, ExpireRelease(x) PROVE Shape
  <2>1. /\ phase[x] \notin {"none", "running"} /\ Moves(x, Settled)
        /\ LeavePinned(x, PinnedBy(x))
    BY <1>24, AfterTaskSettled DEF ExpireRelease, Moves, Settled
  <2>2. KeepsOthers(x) /\ UNCHANGED <<client, frame>>
    BY <1>24 DEF ExpireRelease, runs, KeepsOthers, frame, TypeOK, RunsOK
  <2> QED
    BY <2>1, <2>2, Disjoint DEF Quits, Shape
<1>25. ASSUME NEW t \in Tabs, Sweep(t) PROVE Shape
  BY <1>25 DEF Shape
<1>26. CASE ReleaseAll
  BY <1>26 DEF Shape
<1>27. ASSUME NEW s \in Slots, Tick(s) PROVE Shape
  <2>1. Begins
    BY <1>27 DEF Tick, Begins, slots, server, runs, TypeOK, TasksOK
  <2> QED
    BY <2>1 DEF Shape
<1>28. CASE UNCHANGED <<slotOf, holder, pinned, idle, place, open, phase, slot, tab, kind,
                        db, client, inTransaction, down, late, cancelled, gone, statements>>
  <2>1. Begins
    BY <1>28 DEF Begins
  <2> QED
    BY <2>1 DEF Shape
<1> QED
  BY ZenonT(60), <1>1, <1>2, <1>3, <1>4, <1>5, <1>6, <1>7, <1>8, <1>9, <1>10, <1>11, <1>12,
     <1>13, <1>14, <1>15, <1>16, <1>17, <1>18, <1>19, <1>20, <1>21, <1>22, <1>23, <1>24,
     <1>25, <1>26, <1>27, <1>28
  DEF Next, vars, RunStep, ReleaseStep, Tasks, slots, server, runs, registry

\* A task takes its reference in GetSlot or Ask and drops it whenever it leaves.
LEMMA HeldStep ==
    TypeOK /\ Held /\ Shape => Held'
<1> SUFFICES ASSUME TypeOK /\ Held, Shape PROVE Held'
  OBVIOUS
<1>1. ASSUME NEW k \in Tasks, GetSlot(k) PROVE Held'
  BY <1>1, Disjoint
  DEF GetSlot, server, runs, SlotsOK, Held, TypeOK, TasksOK, Inside
<1>2. ASSUME NEW k \in Tasks, Quits(k) PROVE Held'
  BY <1>2, Disjoint
  DEF Quits, Moves, Settled, LeavePinned, Leave, frame, Held, TypeOK, TasksOK, Inside
<1>3. ASSUME NEW r \in Runs, Lock(r) PROVE Held'
  BY <1>3, Disjoint
  DEF Lock, server, runs, Held, TypeOK, TasksOK, Inside
<1>4. ASSUME NEW r \in Runs, Take(r) PROVE Held'
  BY <1>4, Disjoint
  DEF Take, Held, TypeOK, TasksOK, Inside
<1>5. ASSUME NEW r \in Runs, NEW c \in Clients, Acquire(r, c) PROVE Held'
  BY <1>5, Disjoint
  DEF Acquire, slots, server, runs, Held, TypeOK, TasksOK, Inside
<1>6. ASSUME NEW r \in Runs, NEW e \in Effects, NEW outcome \in {"ok", "error", "refused"},
             Exec(r, e, outcome)
     PROVE Held'
  BY <1>6 DEF Exec, slots, Held
<1>7. ASSUME NEW r \in Runs, Ends(r) PROVE Held'
  BY <1>7, Disjoint
  DEF Ends, Moves, Settled, LeavePinned, Leave, frame, Held, TypeOK, TasksOK, Inside
<1>8. ASSUME NEW r \in Runs, Borrows(r) PROVE Held'
  BY <1>8, Disjoint
  DEF Borrows, frame, Held, TypeOK, TasksOK, Inside
<1>9. ASSUME NEW r \in Runs, Ask(r) PROVE Held'
  BY <1>9, Disjoint
  DEF Ask, slots, server, runs, SlotsOK, Held, TypeOK, TasksOK, Inside
<1>10. ASSUME NEW x \in Releases, Release(x) PROVE Held'
  BY <1>10, Disjoint
  DEF Release, Leave, runs, Held, TypeOK, TasksOK, Inside
<1>11. ASSUME NEW t \in Tabs, Sweep(t) PROVE Held'
  BY <1>11 DEF Sweep, runs, Held
<1>12. CASE ReleaseAll
  BY <1>12 DEF ReleaseAll, runs, Held
<1>13. CASE Begins
  <2>1. ASSUME NEW k \in Tasks
        PROVE slot'[k] \in Slots <=>
            phase'[k] \in {"waiting", "asking"} \/ (phase'[k] \in Inside /\ kind'[k] # "plain")
    <3>1. CASE k \in Runs
      BY <1>13, <2>1, <3>1 DEF Begins, Held, Inside
    <3>2. CASE k \notin Runs
      <4>1. k \in Releases
        BY <2>1, <3>2 DEF Tasks
      <4> QED
        BY <1>13, <2>1, <4>1 DEF Begins, Held, Inside, TypeOK, TasksOK
    <3> QED
      BY <3>1, <3>2
  <2>2. ASSUME NEW r \in Runs PROVE phase'[r] \in {"spawned", "waiting"} => kind'[r] # "plain"
    BY <1>13, <2>2, Disjoint DEF Begins, Held
  <2> QED
    BY <2>1, <2>2 DEF Held
<1> QED
  BY <1>1, <1>2, <1>3, <1>4, <1>5, <1>6, <1>7, <1>8, <1>9, <1>10, <1>11, <1>12, <1>13 DEF Shape

\* The lock is taken by Lock alone and freed by whoever leaves.
LEMMA GuardedStep ==
    TypeOK /\ Held /\ Guarded /\ Shape => Guarded'
<1> SUFFICES ASSUME TypeOK /\ Held /\ Guarded, Shape PROVE Guarded'
  OBVIOUS
<1>1. ASSUME NEW k \in Tasks, GetSlot(k) PROVE Guarded'
  BY <1>1, Disjoint
  DEF GetSlot, server, runs, Held, Guarded, TypeOK, TasksOK, SlotsOK, Inside
<1>2. ASSUME NEW k \in Tasks, Quits(k) PROVE Guarded'
  BY <1>2, Disjoint
  DEF Quits, Moves, Settled, LeavePinned, Leave, frame, Held, Guarded, TypeOK, TasksOK,
      SlotsOK, Inside
<1>3. ASSUME NEW r \in Runs, Lock(r) PROVE Guarded'
  BY <1>3, Disjoint
  DEF Lock, server, runs, Held, Guarded, TypeOK, TasksOK, SlotsOK, Inside
<1>4. ASSUME NEW r \in Runs, Take(r) PROVE Guarded'
  BY <1>4, Disjoint
  DEF Take, Held, Guarded, TypeOK, TasksOK, SlotsOK, Inside
<1>5. ASSUME NEW r \in Runs, NEW c \in Clients, Acquire(r, c) PROVE Guarded'
  BY <1>5, Disjoint
  DEF Acquire, slots, server, runs, Held, Guarded, TypeOK, TasksOK, SlotsOK, Inside
<1>6. ASSUME NEW r \in Runs, NEW e \in Effects, NEW outcome \in {"ok", "error", "refused"},
             Exec(r, e, outcome)
     PROVE Guarded'
  BY <1>6 DEF Exec, slots, Guarded
<1>7. ASSUME NEW r \in Runs, Ends(r) PROVE Guarded'
  <2>1. PICK c : Leave(r, c)
    BY <1>7 DEF Ends, LeavePinned
  <2>2. PICK p \in Settled : phase' = [phase EXCEPT ![r] = p]
    BY <1>7 DEF Ends, Moves
  <2> QED
    BY <2>1, <2>2, Disjoint DEF Leave, Settled, Guarded, TypeOK, TasksOK, SlotsOK, Inside
<1>8. ASSUME NEW r \in Runs, Borrows(r) PROVE Guarded'
  BY <1>8, Disjoint
  DEF Borrows, frame, Held, Guarded, TypeOK, TasksOK, SlotsOK, Inside
<1>9. ASSUME NEW r \in Runs, Ask(r) PROVE Guarded'
  BY <1>9, Disjoint
  DEF Ask, slots, server, runs, Held, Guarded, TypeOK, TasksOK, SlotsOK, Inside
<1>10. ASSUME NEW x \in Releases, Release(x) PROVE Guarded'
  BY <1>10, Disjoint
  DEF Release, Leave, runs, Held, Guarded, TypeOK, TasksOK, SlotsOK, Inside
<1>11. ASSUME NEW t \in Tabs, Sweep(t) PROVE Guarded'
  BY <1>11 DEF Sweep, runs, Guarded
<1>12. CASE ReleaseAll
  BY <1>12 DEF ReleaseAll, runs, Guarded
<1>13. CASE Begins
  BY <1>13, Disjoint
  DEF Begins, Held, Guarded, TypeOK, TasksOK, SlotsOK, Inside
<1> QED
  BY <1>1, <1>2, <1>3, <1>4, <1>5, <1>6, <1>7, <1>8, <1>9, <1>10, <1>11, <1>12, <1>13 DEF Shape

\* A slot is filled again only by the run that emptied it.
LEMMA ExclusiveStep ==
    TypeOK /\ Guarded /\ Exclusive /\ Shape => Exclusive'
<1> SUFFICES ASSUME TypeOK /\ Guarded /\ Exclusive, Shape PROVE Exclusive'
  OBVIOUS
<1>1. ASSUME NEW k \in Tasks, GetSlot(k) PROVE Exclusive'
  BY <1>1, Disjoint
  DEF GetSlot, server, runs, Exclusive, Guarded, Inside, TypeOK, SlotsOK, TasksOK
<1>2. ASSUME NEW k \in Tasks, Quits(k) PROVE Exclusive'
  BY <1>2, Disjoint
  DEF Quits, Moves, Settled, LeavePinned, Leave, frame, PinnedBy, Exclusive, Guarded,
      Inside, TypeOK, SlotsOK, TasksOK
<1>3. ASSUME NEW r \in Runs, Lock(r) PROVE Exclusive'
  BY <1>3, Disjoint
  DEF Lock, server, runs, Exclusive, Guarded, Inside, TypeOK, SlotsOK, TasksOK
<1>4. ASSUME NEW r \in Runs, Take(r) PROVE Exclusive'
  BY <1>4, Disjoint
  DEF Take, PinnedBy, Exclusive, Guarded, Inside, TypeOK, SlotsOK, TasksOK
<1>5. ASSUME NEW r \in Runs, NEW c \in Clients, Acquire(r, c) PROVE Exclusive'
  BY <1>5, Disjoint
  DEF Acquire, slots, server, runs, PinnedBy, Exclusive, Guarded, Inside, TypeOK, SlotsOK,
      TasksOK
<1>6. ASSUME NEW r \in Runs, NEW e \in Effects, NEW outcome \in {"ok", "error", "refused"},
             Exec(r, e, outcome)
     PROVE Exclusive'
  BY <1>6 DEF Exec, slots, Exclusive
<1>7. ASSUME NEW r \in Runs, Ends(r) PROVE Exclusive'
  <2>1. PICK c : Leave(r, c)
    BY <1>7 DEF Ends, LeavePinned
  <2>2. PICK p \in Settled : phase' = [phase EXCEPT ![r] = p]
    BY <1>7 DEF Ends, Moves
  <2>3. phase[r] = "running"
    BY <1>7 DEF Ends
  <2> QED
    BY <2>1, <2>2, <2>3, Disjoint
    DEF Leave, Settled, Exclusive, Guarded, TypeOK, TasksOK, SlotsOK, Inside
<1>8. ASSUME NEW r \in Runs, Borrows(r) PROVE Exclusive'
  BY <1>8, Disjoint
  DEF Borrows, frame, Exclusive, Guarded, Inside, TypeOK, SlotsOK, TasksOK
<1>9. ASSUME NEW r \in Runs, Ask(r) PROVE Exclusive'
  BY <1>9, Disjoint
  DEF Ask, slots, server, runs, Exclusive, Guarded, Inside, TypeOK, SlotsOK, TasksOK
<1>10. ASSUME NEW x \in Releases, Release(x) PROVE Exclusive'
  BY <1>10, Disjoint
  DEF Release, Leave, runs, PinnedBy, Exclusive, Guarded, Inside, TypeOK, SlotsOK, TasksOK
<1>11. ASSUME NEW t \in Tabs, Sweep(t) PROVE Exclusive'
  BY <1>11, Disjoint
  DEF Sweep, server, runs, Exclusive, Guarded, Inside, TypeOK, SlotsOK, TasksOK
<1>12. CASE ReleaseAll
  BY <1>12, Disjoint
  DEF ReleaseAll, server, runs, Exclusive, Guarded, Inside, TypeOK, SlotsOK, TasksOK
<1>13. CASE Begins
  BY <1>13, Disjoint
  DEF Begins, Exclusive, Guarded, Inside, TypeOK, SlotsOK, TasksOK
<1> QED
  BY <1>1, <1>2, <1>3, <1>4, <1>5, <1>6, <1>7, <1>8, <1>9, <1>10, <1>11, <1>12, <1>13 DEF Shape

\* Only connections of the pool, or of the slot that a run is inside, are lent.
LEMMA LentStep ==
    TypeOK /\ Lent /\ Kept /\ Shape => Lent'
<1> SUFFICES ASSUME TypeOK /\ Lent /\ Kept, Shape PROVE Lent'
  OBVIOUS
<1>1. ASSUME NEW k \in Tasks, GetSlot(k) PROVE Lent'
  BY <1>1, Disjoint
  DEF GetSlot, server, runs, Lent, Kept, TypeOK, SlotsOK, TasksOK, RunsOK, ServerOK
<1>2. ASSUME NEW k \in Tasks, Quits(k) PROVE Lent'
  BY <1>2, Disjoint
  DEF Quits, Moves, Settled, LeavePinned, Leave, frame, Put, PinnedBy, Lent, Kept, TypeOK,
      SlotsOK, TasksOK, RunsOK, ServerOK
<1>3. ASSUME NEW r \in Runs, Lock(r) PROVE Lent'
  BY <1>3, Disjoint
  DEF Lock, server, runs, Lent, Kept, TypeOK, SlotsOK, TasksOK, RunsOK, ServerOK
<1>4. ASSUME NEW r \in Runs, Take(r) PROVE Lent'
  BY <1>4, Disjoint
  DEF Take, Put, PinnedBy, Lent, Kept, TypeOK, SlotsOK, TasksOK, RunsOK, ServerOK
<1>5. ASSUME NEW r \in Runs, NEW c \in Clients, Acquire(r, c) PROVE Lent'
  BY <1>5, Disjoint
  DEF Acquire, slots, server, runs, Put, PinnedBy, Lent, Kept, TypeOK, SlotsOK, TasksOK,
      RunsOK, ServerOK
<1>6. ASSUME NEW r \in Runs, NEW e \in Effects, NEW outcome \in {"ok", "error", "refused"},
             Exec(r, e, outcome)
     PROVE Lent'
  BY <1>6 DEF Exec, slots, Lent
<1>7. ASSUME NEW r \in Runs, Ends(r) PROVE Lent'
  BY <1>7, Disjoint
  DEF Ends, Moves, Settled, LeavePinned, Leave, frame, Put, RollbackAndRelease, Lent, Kept,
      TypeOK, SlotsOK, TasksOK, RunsOK, ServerOK
<1>8. ASSUME NEW r \in Runs, Borrows(r) PROVE Lent'
  BY <1>8, Disjoint
  DEF Borrows, frame, Lent, Kept, TypeOK, SlotsOK, TasksOK, RunsOK, ServerOK
<1>9. ASSUME NEW r \in Runs, Ask(r) PROVE Lent'
  BY <1>9, Disjoint
  DEF Ask, slots, server, runs, Lent, Kept, TypeOK, SlotsOK, TasksOK, RunsOK, ServerOK
<1>10. ASSUME NEW x \in Releases, Release(x) PROVE Lent'
  BY <1>10, Disjoint
  DEF Release, Leave, runs, Put, RollbackAndRelease, PinnedBy, Lent, Kept, TypeOK, SlotsOK,
      TasksOK, RunsOK, ServerOK
<1>11. ASSUME NEW t \in Tabs, Sweep(t) PROVE Lent'
  BY <1>11, Disjoint
  DEF Sweep, server, runs, Put, RollbackAndRelease, Lent, Kept, TypeOK, SlotsOK, TasksOK,
      RunsOK, ServerOK
<1>12. CASE ReleaseAll
  BY <1>12, Disjoint
  DEF ReleaseAll, server, runs, Lent, Kept, TypeOK, SlotsOK, TasksOK, RunsOK, ServerOK
<1>13. CASE Begins
  BY <1>13, Disjoint
  DEF Begins, Lent, Kept, TypeOK, SlotsOK, TasksOK, RunsOK, ServerOK
<1> QED
  BY <1>1, <1>2, <1>3, <1>4, <1>5, <1>6, <1>7, <1>8, <1>9, <1>10, <1>11, <1>12, <1>13 DEF Shape

\* A connection is pinned by the run that has it.
LEMMA KeptStep ==
    TypeOK /\ Lent /\ Kept /\ Shape => Kept'
<1> SUFFICES ASSUME TypeOK /\ Lent /\ Kept, Shape PROVE Kept'
  OBVIOUS
<1>1. ASSUME NEW k \in Tasks, GetSlot(k) PROVE Kept'
  BY <1>1 DEF GetSlot, server, runs, Kept
<1>2. ASSUME NEW k \in Tasks, Quits(k) PROVE Kept'
  BY <1>2, Disjoint
  DEF Quits, Moves, Settled, LeavePinned, Leave, frame, Put, PinnedBy, Lent, Kept, TypeOK,
      SlotsOK, TasksOK, RunsOK, ServerOK
<1>3. ASSUME NEW r \in Runs, Lock(r) PROVE Kept'
  BY <1>3 DEF Lock, server, runs, Kept
<1>4. ASSUME NEW r \in Runs, Take(r) PROVE Kept'
  BY <1>4, Disjoint
  DEF Take, Put, PinnedBy, Lent, Kept, TypeOK, SlotsOK, TasksOK, RunsOK, ServerOK
<1>5. ASSUME NEW r \in Runs, NEW c \in Clients, Acquire(r, c) PROVE Kept'
  BY <1>5, Disjoint
  DEF Acquire, slots, server, runs, Put, PinnedBy, Lent, Kept, TypeOK, SlotsOK, TasksOK,
      RunsOK, ServerOK
<1>6. ASSUME NEW r \in Runs, NEW e \in Effects, NEW outcome \in {"ok", "error", "refused"},
             Exec(r, e, outcome)
     PROVE Kept'
  BY <1>6 DEF Exec, slots, Kept
<1>7. ASSUME NEW r \in Runs, Ends(r) PROVE Kept'
  BY <1>7, Disjoint
  DEF Ends, Moves, Settled, LeavePinned, Leave, frame, Put, RollbackAndRelease, Lent, Kept,
      TypeOK, SlotsOK, TasksOK, RunsOK, ServerOK
<1>8. ASSUME NEW r \in Runs, Borrows(r) PROVE Kept'
  BY <1>8 DEF Borrows, frame, Kept
<1>9. ASSUME NEW r \in Runs, Ask(r) PROVE Kept'
  BY <1>9 DEF Ask, slots, server, Kept
<1>10. ASSUME NEW x \in Releases, Release(x) PROVE Kept'
  BY <1>10, Disjoint
  DEF Release, Leave, runs, Put, RollbackAndRelease, PinnedBy, Lent, Kept, TypeOK, SlotsOK,
      TasksOK, RunsOK, ServerOK
<1>11. ASSUME NEW t \in Tabs, Sweep(t) PROVE Kept'
  BY <1>11, Disjoint
  DEF Sweep, server, runs, Put, RollbackAndRelease, Lent, Kept, TypeOK, SlotsOK, TasksOK,
      RunsOK, ServerOK
<1>12. CASE ReleaseAll
  BY <1>12, Disjoint
  DEF ReleaseAll, server, runs, Lent, Kept, TypeOK, SlotsOK, TasksOK, RunsOK, ServerOK
<1>13. CASE Begins
  BY <1>13 DEF Begins, Kept
<1> QED
  BY <1>1, <1>2, <1>3, <1>4, <1>5, <1>6, <1>7, <1>8, <1>9, <1>10, <1>11, <1>12, <1>13 DEF Shape

\* A connection that is left pinned is where its slot can be found, or closed.
LEMMA PinnedOrClosed ==
    ASSUME NEW k, slot[k] \in Slots, NEW c \in Clients, LeavePinned(k, c)
    PROVE \/ place'[c] = "pinned" /\ pinned'[slot[k]] = c
          \/ place'[c] = "closed" /\ ~open'[c]
<1>1. CASE Last(k)
  BY <1>1 DEF LeavePinned, Leave, Put
<1>2. CASE ~Last(k)
  BY <1>2 DEF LeavePinned, Leave, Put
<1> QED
  BY <1>1, <1>2

\* A connection that changes place goes with its run or its slot.
LEMMA PlacedStep ==
    TypeOK /\ Held /\ Guarded /\ Exclusive /\ Lent /\ Kept /\ Placed /\ Shape => Placed'
<1> SUFFICES ASSUME TypeOK /\ Held /\ Guarded /\ Exclusive /\ Lent /\ Kept /\ Placed, Shape
             PROVE Placed'
  OBVIOUS
<1>1. ASSUME NEW k \in Tasks, GetSlot(k) PROVE Placed'
  BY <1>1, Disjoint
  DEF GetSlot, server, runs, Placed, Lent, Kept, Exclusive, Held, Inside, TypeOK, SlotsOK,
      TasksOK, RunsOK, ServerOK
<1>2. ASSUME NEW k \in Tasks, Quits(k) PROVE Placed'
  <2>1. PICK p \in Settled : phase' = [phase EXCEPT ![k] = p]
    BY <1>2 DEF Quits, Moves
  <2>2. Leave(k, PinnedBy(k))
    BY <1>2 DEF Quits, LeavePinned
  <2>3. PICK to \in Places, ended \in BOOLEAN : Put(PinnedBy(k), to, ended)
    BY <1>2 DEF Quits, LeavePinned, Places
  <2>4. phase[k] # "running" /\ client' = client
    BY <1>2 DEF Quits
  <2> SUFFICES ASSUME NEW c \in Clients
               PROVE /\ place'[c] = "used" => \E q \in Runs : phase'[q] = "running" /\ client'[q] = c
                     /\ place'[c] = "pinned" => \E s \in Slots : pinned'[s] = c
                     /\ place'[c] = "closed" => ~open'[c]
    BY DEF Placed
  <2>5. CASE c # PinnedBy(k)
    <3>1. place'[c] = place[c] /\ open'[c] = open[c]
      BY <2>3, <2>5 DEF Put, TypeOK, ServerOK
    <3>2. ASSUME place[c] = "used" PROVE \E q \in Runs : phase'[q] = "running" /\ client'[q] = c
      <4>1. PICK q \in Runs : phase[q] = "running" /\ client[q] = c
        BY <3>2 DEF Placed
      <4> QED
        BY <2>1, <2>4, <4>1, Disjoint DEF TypeOK, TasksOK
    <3>3. ASSUME place[c] = "pinned" PROVE \E u \in Slots : pinned'[u] = c
      <4>1. PICK u \in Slots : pinned[u] = c
        BY <3>3 DEF Placed
      <4> QED
        BY <2>2, <2>5, <4>1, Disjoint DEF Leave, PinnedBy
    <3> QED
      BY <3>1, <3>2, <3>3 DEF Placed
  <2>6. CASE c = PinnedBy(k)
    <3>1. slot[k] \in Slots /\ LeavePinned(k, c)
      BY <1>2, <2>6, Disjoint DEF Quits, PinnedBy
    <3> QED
      BY <3>1, PinnedOrClosed
  <2> QED
    BY <2>5, <2>6
<1>3. ASSUME NEW r \in Runs, Lock(r) PROVE Placed'
  BY <1>3, Disjoint
  DEF Lock, server, runs, Placed, Lent, Kept, Exclusive, Held, Inside, TypeOK, SlotsOK,
      TasksOK, RunsOK, ServerOK
<1>4. ASSUME NEW r \in Runs, Take(r) PROVE Placed'
  BY <1>4, Disjoint
  DEF Take, Put, PinnedBy, Placed, Lent, Kept, Exclusive, Held, Inside, TypeOK, SlotsOK,
      TasksOK, RunsOK, ServerOK
<1>5. ASSUME NEW r \in Runs, NEW c \in Clients, Acquire(r, c) PROVE Placed'
  BY <1>5, Disjoint
  DEF Acquire, slots, server, runs, Put, PinnedBy, Placed, Lent, Kept, Exclusive, Held,
      Inside, TypeOK, SlotsOK, TasksOK, RunsOK, ServerOK
<1>6. ASSUME NEW r \in Runs, NEW e \in Effects, NEW outcome \in {"ok", "error", "refused"},
             Exec(r, e, outcome)
     PROVE Placed'
  BY <1>6, Disjoint
  DEF Exec, slots, server, runs, Placed, Lent, Kept, Exclusive, Held, Inside, TypeOK,
      SlotsOK, TasksOK, RunsOK, ServerOK
<1>7. ASSUME NEW r \in Runs, Ends(r) PROVE Placed'
  <2>1. PICK p \in Settled : phase' = [phase EXCEPT ![r] = p]
    BY <1>7 DEF Ends, Moves
  <2>2. PICK d : Leave(r, d)
    BY <1>7 DEF Ends, LeavePinned
  <2>3. PICK to \in Places, ended \in BOOLEAN : Put(client[r], to, ended)
    BY <1>7 DEF Ends, LeavePinned, RollbackAndRelease, Places
  <2>4. phase[r] = "running" /\ client' = [client EXCEPT ![r] = None]
    BY <1>7 DEF Ends
  <2> SUFFICES ASSUME NEW c \in Clients
               PROVE /\ place'[c] = "used" => \E q \in Runs : phase'[q] = "running" /\ client'[q] = c
                     /\ place'[c] = "pinned" => \E s \in Slots : pinned'[s] = c
                     /\ place'[c] = "closed" => ~open'[c]
    BY DEF Placed
  <2>5. CASE c # client[r]
    <3>1. place'[c] = place[c] /\ open'[c] = open[c]
      BY <2>3, <2>5 DEF Put, TypeOK, ServerOK
    <3>2. ASSUME place[c] = "used" PROVE \E q \in Runs : phase'[q] = "running" /\ client'[q] = c
      <4>1. PICK q \in Runs : phase[q] = "running" /\ client[q] = c
        BY <3>2 DEF Placed
      <4> QED
        BY <2>1, <2>4, <2>5, <4>1, Disjoint DEF TypeOK, TasksOK, RunsOK
    <3>3. ASSUME place[c] = "pinned" PROVE \E u \in Slots : pinned'[u] = c
      <4>1. PICK u \in Slots : pinned[u] = c
        BY <3>3 DEF Placed
      <4> QED
        BY <2>2, <2>4, <4>1, Disjoint DEF Leave, Exclusive
    <3> QED
      BY <3>1, <3>2, <3>3 DEF Placed
  <2>6. CASE c = client[r]
    <3>1. CASE slot[r] \in Slots /\ LeavePinned(r, c)
      BY <3>1, PinnedOrClosed
    <3>2. CASE RollbackAndRelease(c)
      BY <3>2 DEF RollbackAndRelease, Put
    <3>3. CASE Put(c, "pool", FALSE)
      BY <3>3 DEF Put
    <3> QED
      BY <1>7, <2>6, <3>1, <3>2, <3>3 DEF Ends
  <2> QED
    BY <2>5, <2>6
<1>8. ASSUME NEW r \in Runs, Borrows(r) PROVE Placed'
  BY <1>8, Disjoint
  DEF Borrows, frame, Placed, Lent, Kept, Exclusive, Held, Inside, TypeOK, SlotsOK,
      TasksOK, RunsOK, ServerOK
<1>9. ASSUME NEW r \in Runs, Ask(r) PROVE Placed'
  BY <1>9, Disjoint
  DEF Ask, slots, server, runs, Placed, Lent, Kept, Exclusive, Held, Inside, TypeOK,
      SlotsOK, TasksOK, RunsOK, ServerOK
<1>10. ASSUME NEW x \in Releases, Release(x) PROVE Placed'
  <2>1. phase[x] = "waiting" /\ phase' = [phase EXCEPT ![x] = "none"] /\ client' = client
    BY <1>10 DEF Release, runs
  <2>2. Leave(x, None)
    BY <1>10 DEF Release
  <2>3. PICK to \in {"pool", "closed"} : Put(PinnedBy(x), to, TRUE)
    BY <1>10 DEF Release, RollbackAndRelease
  <2> SUFFICES ASSUME NEW c \in Clients
               PROVE /\ place'[c] = "used" => \E q \in Runs : phase'[q] = "running" /\ client'[q] = c
                     /\ place'[c] = "pinned" => \E s \in Slots : pinned'[s] = c
                     /\ place'[c] = "closed" => ~open'[c]
    BY DEF Placed
  <2>5. CASE c # PinnedBy(x)
    <3>1. place'[c] = place[c] /\ open'[c] = open[c]
      BY <2>3, <2>5 DEF Put, TypeOK, ServerOK
    <3>2. ASSUME place[c] = "used" PROVE \E q \in Runs : phase'[q] = "running" /\ client'[q] = c
      <4>1. PICK q \in Runs : phase[q] = "running" /\ client[q] = c
        BY <3>2 DEF Placed
      <4> QED
        BY <2>1, <4>1, Disjoint DEF TypeOK, TasksOK
    <3>3. ASSUME place[c] = "pinned" PROVE \E u \in Slots : pinned'[u] = c
      <4>1. PICK u \in Slots : pinned[u] = c
        BY <3>3 DEF Placed
      <4> QED
        BY <2>2, <2>5, <4>1, Disjoint DEF Leave, PinnedBy
    <3> QED
      BY <3>1, <3>2, <3>3 DEF Placed
  <2>6. CASE c = PinnedBy(x)
    BY <2>3, <2>6 DEF Put
  <2> QED
    BY <2>5, <2>6
<1>11. ASSUME NEW t \in Tabs, Sweep(t) PROVE Placed'
  <2> DEFINE s == slotOf[t]
  <2>1. s \in Slots /\ UNCHANGED <<phase, client>>
    BY <1>11 DEF Sweep, runs
  <2>2. \/ pinned' = pinned /\ UNCHANGED server
        \/ pinned' = [pinned EXCEPT ![s] = None] /\ RollbackAndRelease(pinned[s])
    BY <1>11, Disjoint DEF Sweep, TypeOK, SlotsOK
  <2> HIDE DEF s
  <2>3. CASE pinned' = pinned /\ UNCHANGED server
    BY <2>1, <2>3 DEF server, Placed
  <2>4. CASE pinned' = [pinned EXCEPT ![s] = None] /\ RollbackAndRelease(pinned[s])
    <3>1. PICK to \in {"pool", "closed"} : Put(pinned[s], to, TRUE)
      BY <2>4 DEF RollbackAndRelease
    <3> QED
      BY <2>1, <2>4, <3>1 DEF Put, Placed, TypeOK, SlotsOK, ServerOK
  <2> QED
    BY <2>2, <2>3, <2>4
<1>12. CASE ReleaseAll
  BY <1>12, Disjoint
  DEF ReleaseAll, server, runs, Placed, Lent, Kept, Exclusive, Held, Inside, TypeOK,
      SlotsOK, TasksOK, RunsOK, ServerOK
<1>13. CASE Begins
  BY <1>13, Disjoint
  DEF Begins, Placed, Lent, Kept, Exclusive, Held, Inside, TypeOK, SlotsOK, TasksOK,
      RunsOK, ServerOK
<1> QED
  BY <1>1, <1>2, <1>3, <1>4, <1>5, <1>6, <1>7, <1>8, <1>9, <1>10, <1>11, <1>12, <1>13 DEF Shape

\* Only Take and Acquire give a run a connection.
LEMMA DatabaseStep ==
    TypeOK /\ RightDatabase /\ Shape => RightDatabase'
<1> SUFFICES ASSUME TypeOK /\ RightDatabase, Shape PROVE RightDatabase'
  OBVIOUS
<1>1. ASSUME NEW k \in Tasks, GetSlot(k) PROVE RightDatabase'
  BY <1>1, Disjoint
  DEF GetSlot, server, runs, RightDatabase, TypeOK, SlotsOK, TasksOK, RunsOK, ServerOK
<1>2. ASSUME NEW k \in Tasks, Quits(k) PROVE RightDatabase'
  BY <1>2, Disjoint
  DEF Quits, Moves, Settled, LeavePinned, Leave, frame, RightDatabase, TypeOK, SlotsOK,
      TasksOK, RunsOK, ServerOK
<1>3. ASSUME NEW r \in Runs, Lock(r) PROVE RightDatabase'
  BY <1>3, Disjoint
  DEF Lock, server, runs, RightDatabase, TypeOK, SlotsOK, TasksOK, RunsOK, ServerOK
<1>4. ASSUME NEW r \in Runs, Take(r) PROVE RightDatabase'
  BY <1>4, Disjoint
  DEF Take, PinnedBy, Rejected, RightDatabase, TypeOK, SlotsOK, TasksOK, RunsOK, ServerOK
<1>5. ASSUME NEW r \in Runs, NEW c \in Clients, Acquire(r, c) PROVE RightDatabase'
  BY <1>5, Disjoint
  DEF Acquire, slots, server, runs, RightDatabase, TypeOK, SlotsOK, TasksOK, RunsOK,
      ServerOK
<1>6. ASSUME NEW r \in Runs, NEW e \in Effects, NEW outcome \in {"ok", "error", "refused"},
             Exec(r, e, outcome)
     PROVE RightDatabase'
  BY <1>6 DEF Exec, slots, RightDatabase
<1>7. ASSUME NEW r \in Runs, Ends(r) PROVE RightDatabase'
  BY <1>7, Disjoint
  DEF Ends, Moves, Settled, LeavePinned, Leave, frame, RightDatabase, TypeOK, SlotsOK,
      TasksOK, RunsOK, ServerOK
<1>8. ASSUME NEW r \in Runs, Borrows(r) PROVE RightDatabase'
  BY <1>8, Disjoint
  DEF Borrows, frame, RightDatabase, TypeOK, SlotsOK, TasksOK, RunsOK, ServerOK
<1>9. ASSUME NEW r \in Runs, Ask(r) PROVE RightDatabase'
  BY <1>9, Disjoint
  DEF Ask, slots, server, runs, RightDatabase, TypeOK, SlotsOK, TasksOK, RunsOK, ServerOK
<1>10. ASSUME NEW x \in Releases, Release(x) PROVE RightDatabase'
  BY <1>10, Disjoint
  DEF Release, Leave, runs, RightDatabase, TypeOK, SlotsOK, TasksOK, RunsOK, ServerOK
<1>11. ASSUME NEW t \in Tabs, Sweep(t) PROVE RightDatabase'
  BY <1>11 DEF Sweep, runs, RightDatabase
<1>12. CASE ReleaseAll
  BY <1>12 DEF ReleaseAll, runs, RightDatabase
<1>13. CASE Begins
  BY <1>13, Disjoint
  DEF Begins, RightDatabase, TypeOK, SlotsOK, TasksOK, RunsOK, ServerOK
<1> QED
  BY <1>1, <1>2, <1>3, <1>4, <1>5, <1>6, <1>7, <1>8, <1>9, <1>10, <1>11, <1>12, <1>13 DEF Shape

\* The effect that the program reads from a statement and what the server makes of it
\* agree: if the server has a transaction open afterwards, the run knows.
LEMMA Agree ==
    ASSUME ~Malformed, NEW e \in Effects, NEW before \in BOOLEAN, NEW known \in BOOLEAN,
           NEW outcome \in Outcomes(e, before), ServerAfter(e, outcome, before)
    PROVE (before => known) => InTransactionAfter(e, outcome = "ok", known)
BY DEF Effects, Outcomes, ServerAfter, InTransactionAfter

\* What a run believes of its transaction follows what the server does.
LEMMA BelievedStep ==
    ~Malformed /\ TypeOK /\ Lent /\ Kept /\ PoolIsClean /\ Believed /\ Shape => Believed'
<1> SUFFICES ASSUME ~Malformed /\ TypeOK /\ Lent /\ Kept /\ PoolIsClean /\ Believed, Shape
             PROVE Believed'
  OBVIOUS
<1>1. ASSUME NEW k \in Tasks, GetSlot(k) PROVE Believed'
  BY <1>1, Disjoint
  DEF GetSlot, server, runs, PoolIsClean, Believed, Lent, Kept, TypeOK, SlotsOK, TasksOK,
      RunsOK, ServerOK
<1>2. ASSUME NEW k \in Tasks, Quits(k) PROVE Believed'
  BY <1>2, Disjoint
  DEF Quits, Moves, Settled, LeavePinned, Leave, frame, Put, KeepsOthers, PoolIsClean,
      Believed, Lent, Kept, TypeOK, SlotsOK, TasksOK, RunsOK, ServerOK
<1>3. ASSUME NEW r \in Runs, Lock(r) PROVE Believed'
  BY <1>3, Disjoint
  DEF Lock, server, runs, PoolIsClean, Believed, Lent, Kept, TypeOK, SlotsOK, TasksOK,
      RunsOK, ServerOK
<1>4. ASSUME NEW r \in Runs, Take(r) PROVE Believed'
  BY <1>4, Disjoint
  DEF Take, Put, PinnedBy, PoolIsClean, Believed, Lent, Kept, TypeOK, SlotsOK, TasksOK,
      RunsOK, ServerOK
<1>5. ASSUME NEW r \in Runs, NEW c \in Clients, Acquire(r, c) PROVE Believed'
  BY <1>5, Disjoint
  DEF Acquire, slots, server, runs, Put, PoolIsClean, Believed, Lent, Kept, TypeOK,
      SlotsOK, TasksOK, RunsOK, ServerOK
<1>6. ASSUME NEW r \in Runs, NEW e \in Effects, NEW outcome \in {"ok", "error", "refused"},
             Exec(r, e, outcome)
     PROVE Believed'
  <2>1. /\ phase[r] = "running" /\ client[r] \in Clients /\ e \in Effects
        /\ outcome \in Outcomes(e, open[client[r]])
    BY <1>6 DEF Exec, Lent
  <2>2. open' = [open EXCEPT ![client[r]] = ServerAfter(e, outcome, open[client[r]])]
    BY <1>6 DEF Exec
  <2>3. inTransaction' = [inTransaction EXCEPT ![r] = InTransactionAfter(e, outcome = "ok", inTransaction[r])]
    BY <1>6 DEF Exec
  <2>4. UNCHANGED <<phase, client, down, late>>
    BY <1>6 DEF Exec
  <2>5. open'[client[r]] => inTransaction'[r] \/ client[r] \in late
    <3>1. open[client[r]] \in BOOLEAN /\ inTransaction[r] \in BOOLEAN
      BY <2>1 DEF TypeOK, ServerOK, RunsOK
    <3>2. open[client[r]] => inTransaction[r] \/ client[r] \in late
      BY <2>1 DEF Believed
    <3>3. ServerAfter(e, outcome, open[client[r]]) =>
              InTransactionAfter(e, outcome = "ok", inTransaction[r]) \/ client[r] \in late
      BY <2>1, <3>1, <3>2, Agree
    <3> QED
      BY <2>1, <2>2, <2>3, <3>3 DEF TypeOK, ServerOK, RunsOK
  <2>6. ASSUME NEW q \in Runs, q # r, phase[q] = "running", open'[client[q]]
        PROVE inTransaction'[q] \/ client[q] \in late
    <3>1. client[q] # client[r] /\ client[q] \in Clients
      BY <2>1, <2>6, Disjoint DEF Lent
    <3>2. open[client[q]]
      BY <2>2, <2>6, <3>1 DEF TypeOK, ServerOK
    <3> QED
      BY <2>3, <2>6, <3>2 DEF Believed, TypeOK, RunsOK
  <2> QED
    BY <2>4, <2>5, <2>6 DEF Believed
<1>7. ASSUME NEW r \in Runs, Ends(r) PROVE Believed'
  BY <1>7, Disjoint
  DEF Ends, Moves, Settled, LeavePinned, Leave, frame, Put, RollbackAndRelease,
      KeepsOthers, PoolIsClean, Believed, Lent, Kept, TypeOK, SlotsOK, TasksOK, RunsOK,
      ServerOK
<1>8. ASSUME NEW r \in Runs, Borrows(r) PROVE Believed'
  BY <1>8, Disjoint
  DEF Borrows, frame, PoolIsClean, Believed, Lent, Kept, TypeOK, SlotsOK, TasksOK, RunsOK,
      ServerOK
<1>9. ASSUME NEW r \in Runs, Ask(r) PROVE Believed'
  BY <1>9, Disjoint
  DEF Ask, slots, server, runs, PoolIsClean, Believed, Lent, Kept, TypeOK, SlotsOK,
      TasksOK, RunsOK, ServerOK
<1>10. ASSUME NEW x \in Releases, Release(x) PROVE Believed'
  BY <1>10, Disjoint
  DEF Release, Leave, runs, Put, RollbackAndRelease, PoolIsClean, Believed, Lent, Kept,
      TypeOK, SlotsOK, TasksOK, RunsOK, ServerOK
<1>11. ASSUME NEW t \in Tabs, Sweep(t) PROVE Believed'
  BY <1>11, Disjoint
  DEF Sweep, server, runs, Put, RollbackAndRelease, PoolIsClean, Believed, Lent, Kept,
      TypeOK, SlotsOK, TasksOK, RunsOK, ServerOK
<1>12. CASE ReleaseAll
  BY <1>12, Disjoint
  DEF ReleaseAll, server, runs, PoolIsClean, Believed, Lent, Kept, TypeOK, SlotsOK,
      TasksOK, RunsOK, ServerOK
<1>13. CASE Begins
  BY <1>13, Disjoint
  DEF Begins, PoolIsClean, Believed, Lent, Kept, TypeOK, SlotsOK, TasksOK, RunsOK, ServerOK
<1> QED
  BY <1>1, <1>2, <1>3, <1>4, <1>5, <1>6, <1>7, <1>8, <1>9, <1>10, <1>11, <1>12, <1>13 DEF Shape

\* A rollback leaves the pool clean.
LEMMA RollbackClean ==
    ASSUME PoolIsClean, TypeOK, NEW c, RollbackAndRelease(c), late' = late
    PROVE PoolIsClean'
<1>1. PICK p \in {"pool", "closed"} : Put(c, p, TRUE)
  BY DEF RollbackAndRelease
<1> QED
  BY <1>1 DEF Put, PoolIsClean, TypeOK, ServerOK

\* A connection goes back to the pool after its transaction.
LEMMA PoolStep ==
    TypeOK /\ Lent /\ Placed /\ Believed /\ PoolIsClean /\ Shape => PoolIsClean'
<1> SUFFICES ASSUME TypeOK /\ Lent /\ Placed /\ Believed /\ PoolIsClean, Shape
             PROVE PoolIsClean'
  OBVIOUS
<1>1. ASSUME NEW k \in Tasks, GetSlot(k) PROVE PoolIsClean'
  BY <1>1 DEF GetSlot, server, runs, PoolIsClean
<1>2. ASSUME NEW k \in Tasks, Quits(k) PROVE PoolIsClean'
  BY <1>2, Disjoint
  DEF Quits, Moves, Settled, LeavePinned, Leave, frame, Put, PoolIsClean, Believed, Lent,
      Placed, TypeOK, SlotsOK, TasksOK, RunsOK, ServerOK
<1>3. ASSUME NEW r \in Runs, Lock(r) PROVE PoolIsClean'
  BY <1>3 DEF Lock, server, runs, PoolIsClean
<1>4. ASSUME NEW r \in Runs, Take(r) PROVE PoolIsClean'
  BY <1>4, Disjoint
  DEF Take, Put, PinnedBy, PoolIsClean, Believed, Lent, Placed, TypeOK, SlotsOK, TasksOK,
      RunsOK, ServerOK
<1>5. ASSUME NEW r \in Runs, NEW c \in Clients, Acquire(r, c) PROVE PoolIsClean'
  BY <1>5, Disjoint
  DEF Acquire, slots, server, runs, Put, PoolIsClean, Believed, Lent, Placed, TypeOK,
      SlotsOK, TasksOK, RunsOK, ServerOK
<1>6. ASSUME NEW r \in Runs, NEW e \in Effects, NEW outcome \in {"ok", "error", "refused"},
             Exec(r, e, outcome)
     PROVE PoolIsClean'
  BY <1>6, Disjoint
  DEF Exec, slots, server, runs, PoolIsClean, Believed, Lent, Placed, TypeOK, SlotsOK,
      TasksOK, RunsOK, ServerOK
<1>7. ASSUME NEW r \in Runs, Ends(r) PROVE PoolIsClean'
  <2>1. CASE RollbackAndRelease(client[r])
    BY <1>7, <2>1, RollbackClean DEF Ends, frame
  <2>2. CASE LeavePinned(r, client[r])
    BY <1>7, <2>2 DEF Ends, frame, LeavePinned, Put, PoolIsClean, TypeOK, ServerOK
  <2>3. CASE ~inTransaction[r] /\ Put(client[r], "pool", FALSE)
    BY <1>7, <2>3 DEF Ends, frame, Put, PoolIsClean, Believed, TypeOK, ServerOK
  <2> QED
    BY <1>7, <2>1, <2>2, <2>3 DEF Ends
<1>8. ASSUME NEW r \in Runs, Borrows(r) PROVE PoolIsClean'
  BY <1>8 DEF Borrows, frame, PoolIsClean
<1>9. ASSUME NEW r \in Runs, Ask(r) PROVE PoolIsClean'
  BY <1>9 DEF Ask, slots, server, PoolIsClean
<1>10. ASSUME NEW x \in Releases, Release(x) PROVE PoolIsClean'
  BY <1>10, RollbackClean DEF Release
<1>11. ASSUME NEW t \in Tabs, Sweep(t) PROVE PoolIsClean'
  <2>1. CASE RollbackAndRelease(pinned[slotOf[t]])
    BY <1>11, <2>1, RollbackClean DEF Sweep
  <2>2. CASE UNCHANGED server
    BY <1>11, <2>2 DEF Sweep, server, PoolIsClean
  <2> QED
    BY <1>11, <2>1, <2>2 DEF Sweep
<1>12. CASE ReleaseAll
  BY <1>12, Disjoint
  DEF ReleaseAll, server, runs, PoolIsClean, Believed, Lent, Placed, TypeOK, SlotsOK,
      TasksOK, RunsOK, ServerOK
<1>13. CASE Begins
  BY <1>13 DEF Begins, PoolIsClean
<1> QED
  BY <1>1, <1>2, <1>3, <1>4, <1>5, <1>6, <1>7, <1>8, <1>9, <1>10, <1>11, <1>12, <1>13 DEF Shape

\* Who leaves a slot with a connection in it leaves it to somebody.
LEMMA LeaveReachable ==
    ASSUME TypeOK, Reachable, NEW k \in Tasks, NEW c, Leave(k, c), UNCHANGED slotOf
    PROVE Reachable'
<1> SUFFICES ASSUME NEW s \in Slots, pinned'[s] # None, s \notin Mapped
             PROVE \E j \in Tasks : slot'[j] = s
  BY DEF Reachable, Mapped, Refs
<1>1. CASE s = slot[k]
  <2>1. ~Last(k)
    BY <1>1 DEF Leave
  <2>2. PICK j \in Tasks : slot[j] = s /\ j # k
    BY <1>1, <2>1 DEF Last, Refs
  <2> QED
    BY <2>2 DEF Leave, TypeOK, TasksOK
<1>2. CASE s # slot[k]
  <2>1. pinned[s] # None
    BY <1>2 DEF Leave
  <2>2. PICK j \in Tasks : slot[j] = s
    BY <2>1 DEF Reachable, Refs
  <2> QED
    BY <1>2, <2>2 DEF Leave, TypeOK, TasksOK
<1> QED
  BY <1>1, <1>2

\* A connection stays reachable while no reference to its slot goes.
LEMMA MoreReachable ==
    ASSUME TypeOK, Reachable,
           \A s \in Slots : pinned'[s] # None =>
               /\ pinned[s] # None
               /\ \A t \in Tabs : slotOf[t] = s => slotOf'[t] = s
               /\ \A k \in Tasks : slot[k] = s => slot'[k] = s
    PROVE Reachable'
BY DEF Reachable, Mapped, Refs

\* A slot is dropped, emptied, or found by somebody else.
LEMMA ReachableStep ==
    TypeOK /\ Held /\ Reachable /\ Shape => Reachable'
<1> SUFFICES ASSUME TypeOK /\ Held /\ Reachable, Shape PROVE Reachable'
  OBVIOUS
<1>1. ASSUME NEW k \in Tasks, GetSlot(k) PROVE Reachable'
  <2>1. slot[k] \notin Slots /\ pinned' = pinned
    BY <1>1, Disjoint DEF GetSlot, Held, Inside
  <2>2. \A j \in Tasks : j # k => slot'[j] = slot[j]
    BY <1>1 DEF GetSlot, TypeOK, TasksOK
  <2>3. \A t \in Tabs : slotOf[t] \in Slots => slotOf'[t] = slotOf[t]
    BY <1>1, Disjoint DEF GetSlot, TypeOK, SlotsOK
  <2> QED
    BY <2>1, <2>2, <2>3, MoreReachable
<1>2. ASSUME NEW k \in Tasks, Quits(k) PROVE Reachable'
  <2>1. \E c : Leave(k, c)
    BY <1>2 DEF Quits, LeavePinned
  <2>2. UNCHANGED slotOf
    BY <1>2 DEF Quits, frame
  <2> QED
    BY <2>1, <2>2, LeaveReachable, Disjoint
<1>3. ASSUME NEW r \in Runs, Lock(r) PROVE Reachable'
  BY <1>3 DEF Lock, server, runs, Reachable, Mapped, Refs
<1>4. ASSUME NEW r \in Runs, Take(r) PROVE Reachable'
  BY <1>4, Disjoint
  DEF Take, Held, Reachable, Mapped, Refs, TypeOK, SlotsOK, TasksOK, RunsOK, ServerOK
<1>5. ASSUME NEW r \in Runs, NEW c \in Clients, Acquire(r, c) PROVE Reachable'
  BY <1>5 DEF Acquire, slots, Reachable, Mapped, Refs
<1>6. ASSUME NEW r \in Runs, NEW e \in Effects, NEW outcome \in {"ok", "error", "refused"},
             Exec(r, e, outcome)
     PROVE Reachable'
  BY <1>6 DEF Exec, slots, Reachable, Mapped, Refs
<1>7. ASSUME NEW r \in Runs, Ends(r) PROVE Reachable'
  <2>1. \E c : Leave(r, c)
    BY <1>7 DEF Ends, LeavePinned
  <2>2. UNCHANGED slotOf
    BY <1>7 DEF Ends, frame
  <2> QED
    BY <2>1, <2>2, LeaveReachable, Disjoint
<1>8. ASSUME NEW r \in Runs, Borrows(r) PROVE Reachable'
  BY <1>8 DEF Borrows, frame, Reachable, Mapped, Refs
<1>9. ASSUME NEW r \in Runs, Ask(r) PROVE Reachable'
  <2>1. slot[r] \notin Slots /\ UNCHANGED <<pinned, slotOf>>
    BY <1>9, Disjoint DEF Ask, slots, Held, Inside
  <2>2. \A j \in Tasks : j # r => slot'[j] = slot[j]
    BY <1>9 DEF Ask, TypeOK, TasksOK
  <2> QED
    BY <2>1, <2>2, MoreReachable
<1>10. ASSUME NEW x \in Releases, Release(x) PROVE Reachable'
  <2>1. \E c : Leave(x, c)
    BY <1>10 DEF Release
  <2>2. UNCHANGED slotOf
    BY <1>10 DEF Release
  <2> QED
    BY <2>1, <2>2, LeaveReachable, Disjoint
<1>11. ASSUME NEW t \in Tabs, Sweep(t) PROVE Reachable'
  <2>1. slot' = slot
    BY <1>11 DEF Sweep
  <2>2. ASSUME NEW s \in Slots, pinned'[s] # None
        PROVE pinned[s] # None /\ \A u \in Tabs : slotOf[u] = s => slotOf'[u] = s
    <3>1. CASE s = slotOf[t]
      <4>1. slotOf' = slotOf /\ pinned[s] # None
        BY <1>11, <2>2, <3>1 DEF Sweep, Forgets, TypeOK, SlotsOK
      <4> QED
        BY <4>1
    <3>2. CASE s # slotOf[t]
      <4>1. pinned'[s] = pinned[s]
        BY <1>11, <3>2 DEF Sweep, TypeOK, SlotsOK
      <4>2. slotOf' = slotOf \/ slotOf' = [slotOf EXCEPT ![t] = None]
        BY <1>11 DEF Sweep
      <4> QED
        BY <2>2, <3>2, <4>1, <4>2 DEF TypeOK, SlotsOK
    <3> QED
      BY <3>1, <3>2
  <2> QED
    BY <2>1, <2>2, MoreReachable
<1>12. CASE ReleaseAll
  BY <1>12, Disjoint
  DEF ReleaseAll, server, runs, Held, Reachable, Mapped, Refs, TypeOK, SlotsOK, TasksOK,
      RunsOK, ServerOK
<1>13. CASE Begins
  BY <1>13 DEF Begins, Reachable, Mapped, Refs
<1> QED
  BY <1>1, <1>2, <1>3, <1>4, <1>5, <1>6, <1>7, <1>8, <1>9, <1>10, <1>11, <1>12, <1>13 DEF Shape

\* A new slot is nobody else's, and one with references is not forgotten.
LEMMA OwnSlotsStep ==
    TypeOK /\ Held /\ OwnSlots /\ Shape => OwnSlots'
<1> SUFFICES ASSUME TypeOK /\ Held /\ OwnSlots, Shape PROVE OwnSlots'
  OBVIOUS
<1>1. ASSUME NEW k \in Tasks, GetSlot(k) PROVE OwnSlots'
  <2>1. /\ phase[k] = "spawned" /\ UNCHANGED <<tab, down>>
    BY <1>1 DEF GetSlot
  <2>2. slot[k] \notin Slots
    BY <2>1 DEF Held, Inside
  <2>3. tab[k] \in Tabs
    BY <2>1 DEF TypeOK, TasksOK
  <2>4. CASE slot' = [slot EXCEPT ![k] = slotOf[tab[k]]] /\ slotOf' = slotOf
    BY <2>1, <2>4 DEF OwnSlots, TypeOK, TasksOK
  <2>5. ASSUME slotOf[tab[k]] = None, NEW s \in Slots, s \notin Mapped,
               slot' = [slot EXCEPT ![k] = s], slotOf' = [slotOf EXCEPT ![tab[k]] = s]
        PROVE OwnSlots'
    <3>1. \A t, u \in Tabs : slotOf'[t] = slotOf'[u] /\ slotOf'[t] # None => t = u
      BY <2>3, <2>5 DEF OwnSlots, Mapped, TypeOK, SlotsOK
    <3>2. ASSUME ~down, NEW j \in Tasks, slot'[j] \in Slots PROVE slotOf'[tab[j]] = slot'[j]
      <4>1. CASE j = k
        BY <2>3, <2>5, <4>1 DEF TypeOK, SlotsOK, TasksOK
      <4>2. CASE j # k
        <5>1. slot'[j] = slot[j] /\ slotOf[tab[j]] = slot[j]
          BY <2>5, <3>2, <4>2 DEF OwnSlots, TypeOK, TasksOK
        <5>2. tab[j] # tab[k]
          BY <2>5, <3>2, <5>1, Disjoint
        <5> QED
          BY <2>5, <5>1, <5>2 DEF TypeOK, SlotsOK
      <4> QED
        BY <4>1, <4>2
    <3> QED
      BY <2>1, <3>1, <3>2 DEF OwnSlots
  <2> QED
    BY <1>1, <2>4, <2>5 DEF GetSlot
<1>2. ASSUME NEW k \in Tasks, Quits(k) PROVE OwnSlots'
  <2>1. \A j \in Tasks : slot'[j] \in {slot[j], None}
    BY <1>2 DEF Quits, LeavePinned, Leave, TypeOK, TasksOK
  <2>2. UNCHANGED <<slotOf, tab, down>>
    BY <1>2 DEF Quits, frame
  <2> QED
    BY <2>1, <2>2, Disjoint DEF OwnSlots
<1>3. ASSUME NEW r \in Runs, Lock(r) PROVE OwnSlots'
  BY <1>3 DEF Lock, server, runs, OwnSlots
<1>4. ASSUME NEW r \in Runs, Take(r) PROVE OwnSlots'
  BY <1>4 DEF Take, OwnSlots
<1>5. ASSUME NEW r \in Runs, NEW c \in Clients, Acquire(r, c) PROVE OwnSlots'
  BY <1>5 DEF Acquire, slots, OwnSlots
<1>6. ASSUME NEW r \in Runs, NEW e \in Effects, NEW outcome \in {"ok", "error", "refused"},
             Exec(r, e, outcome)
     PROVE OwnSlots'
  BY <1>6 DEF Exec, slots, OwnSlots
<1>7. ASSUME NEW r \in Runs, Ends(r) PROVE OwnSlots'
  <2>1. \A j \in Tasks : slot'[j] \in {slot[j], None}
    BY <1>7 DEF Ends, LeavePinned, Leave, TypeOK, TasksOK
  <2>2. UNCHANGED <<slotOf, tab, down>>
    BY <1>7 DEF Ends, frame
  <2> QED
    BY <2>1, <2>2, Disjoint DEF OwnSlots
<1>8. ASSUME NEW r \in Runs, Borrows(r) PROVE OwnSlots'
  BY <1>8 DEF Borrows, frame, OwnSlots
<1>9. ASSUME NEW r \in Runs, Ask(r) PROVE OwnSlots'
  BY <1>9, Disjoint
  DEF Ask, slots, server, runs, Held, OwnSlots, Mapped, Refs, TypeOK, SlotsOK, TasksOK,
      RunsOK, ServerOK
<1>10. ASSUME NEW x \in Releases, Release(x) PROVE OwnSlots'
  <2>1. \A j \in Tasks : slot'[j] \in {slot[j], None}
    BY <1>10 DEF Release, Leave, TypeOK, TasksOK
  <2>2. UNCHANGED <<slotOf, tab, down>>
    BY <1>10 DEF Release
  <2> QED
    BY <2>1, <2>2, Disjoint DEF OwnSlots
<1>11. ASSUME NEW t \in Tabs, Sweep(t) PROVE OwnSlots'
  BY <1>11, Disjoint
  DEF Sweep, server, runs, Forgets, Held, OwnSlots, Mapped, Refs, TypeOK, SlotsOK, TasksOK,
      RunsOK, ServerOK
<1>12. CASE ReleaseAll
  BY <1>12, Disjoint
  DEF ReleaseAll, server, runs, Held, OwnSlots, Mapped, Refs, TypeOK, SlotsOK, TasksOK,
      RunsOK, ServerOK
<1>13. CASE Begins
  <2>1. UNCHANGED <<slotOf, slot, down>>
    BY <1>13 DEF Begins
  <2>2. ASSUME NEW k \in Tasks, slot[k] \in Slots PROVE tab'[k] = tab[k]
    BY <1>13, <2>2 DEF Begins, Held, Inside
  <2> QED
    BY <2>1, <2>2 DEF OwnSlots
<1> QED
  BY <1>1, <1>2, <1>3, <1>4, <1>5, <1>6, <1>7, <1>8, <1>9, <1>10, <1>11, <1>12, <1>13 DEF Shape

-----------------------------------------------------------------------------
(***************************************************************************)
(* The theorems.                                                           *)
(***************************************************************************)
SlotInv ==
    /\ TypeOK /\ Held /\ Guarded /\ Exclusive /\ Lent /\ Kept /\ Placed /\ Reachable
    /\ OwnSlots

\* The invariant holds initially.
LEMMA SlotInit == Init => SlotInv
<1> SUFFICES ASSUME Init PROVE SlotInv
  OBVIOUS
<1>1. TypeOK
  BY TypeInit
<1>2. Held /\ Guarded /\ Exclusive
  BY Disjoint DEF Init, Held, Guarded, Exclusive, Inside
<1>3. Lent /\ Kept /\ Placed
  BY Disjoint DEF Init, Lent, Kept, Placed
<1>4. Reachable /\ OwnSlots
  BY Disjoint DEF Init, Reachable, OwnSlots
<1> QED
  BY <1>1, <1>2, <1>3, <1>4 DEF SlotInv

\* Every step keeps the invariant.
LEMMA SlotStep == SlotInv /\ [Next]_vars => SlotInv'
<1> SUFFICES ASSUME SlotInv, [Next]_vars PROVE SlotInv'
  OBVIOUS
<1>1. Shape
  BY StepShape DEF SlotInv
<1>2. TypeOK'
  BY TypeStep DEF SlotInv
<1>3. Held' /\ Guarded' /\ Exclusive'
  BY <1>1, HeldStep, GuardedStep, ExclusiveStep DEF SlotInv
<1>4. Lent' /\ Kept' /\ Placed'
  BY <1>1, LentStep, KeptStep, PlacedStep DEF SlotInv
<1>5. Reachable' /\ OwnSlots'
  BY <1>1, ReachableStep, OwnSlotsStep DEF SlotInv
<1> QED
  BY <1>2, <1>3, <1>4, <1>5 DEF SlotInv

\* References, guards and connections: every run, slot and connection agree on who
\* uses what.
THEOREM SlotsAgree == Spec => []SlotInv
BY SlotInit, SlotStep, PTL DEF Spec

\* A statement runs on the database its run asked for (RightDatabase): a run takes
\* the pinned connection only after check_pinned_database.
THEOREM DatabaseIsRight == Spec => []RightDatabase
<1>1. Init => RightDatabase
  BY Disjoint DEF Init, RightDatabase
<1>2. SlotInv /\ RightDatabase /\ [Next]_vars => RightDatabase'
  BY StepShape, DatabaseStep DEF SlotInv
<1> QED
  BY <1>1, <1>2, SlotsAgree, PTL DEF Spec

\* The connections of a tab: its slot's lock lets one run at a time have one, and
\* then the slot pins none.
LEMMA AtMostOne == SlotInv => OneConnection
<1> SUFFICES ASSUME SlotInv, ~down, NEW t \in Tabs PROVE Cardinality(ConnectionsOf(t)) <= 1
  BY DEF OneConnection
<1> DEFINE using == {q \in Runs : phase[q] = "running" /\ kind[q] # "plain" /\ tab[q] = t}
<1>1. ASSUME NEW r \in using
      PROVE /\ slot[r] = slotOf[t] /\ slotOf[t] \in Slots
            /\ holder[slotOf[t]] = r /\ pinned[slotOf[t]] = None
  <2>1. slot[r] \in Slots
    BY Disjoint DEF SlotInv, Held, Inside
  <2>2. slot[r] = slotOf[t]
    BY <2>1, Disjoint DEF SlotInv, OwnSlots
  <2> QED
    BY <2>1, <2>2, Disjoint DEF SlotInv, Guarded, Exclusive, Inside
<1>2. \A q, r \in using : q = r
  BY <1>1
<1>3. \E c : ConnectionsOf(t) \subseteq {c}
  <2>1. CASE using = {}
    BY <2>1 DEF ConnectionsOf
  <2>2. CASE using # {}
    <3>1. PICK r \in using : TRUE
      BY <2>2
    <3>2. ConnectionsOf(t) \subseteq {client[r]}
      BY <1>1, <1>2, <3>1 DEF ConnectionsOf
    <3> QED
      BY <3>2
  <2> QED
    BY <2>1, <2>2
<1>4. PICK c : ConnectionsOf(t) = {} \/ ConnectionsOf(t) = {c}
  BY <1>3
<1> QED
  BY <1>4, FS_EmptySet, FS_Singleton

\* Until shutdown a tab never has two connections (OneConnection), however its runs,
\* reads, exports and releases overlap, and wherever they are cut short.
THEOREM OneConnectionPerTab == Spec => []OneConnection
BY SlotsAgree, AtMostOne, PTL

CleanInv == Believed /\ PoolIsClean

\* With the invariant, what runs believe and what pools hold stay right.
LEMMA CleanStep ==
    ASSUME ~Malformed
    PROVE SlotInv /\ CleanInv /\ [Next]_vars => CleanInv'
BY StepShape, BelievedStep, PoolStep DEF SlotInv, CleanInv

\* No connection of a pool is inside a transaction (PoolIsClean), if the statements
\* that begin like a COMMIT or ROLLBACK are well-formed.
THEOREM PoolStaysClean == ASSUME ~Malformed PROVE Spec => []PoolIsClean
<1>1. Init => CleanInv
  BY Disjoint DEF Init, CleanInv, Believed, PoolIsClean
<1>2. SlotInv /\ CleanInv /\ [Next]_vars => CleanInv'
  BY CleanStep
<1>3. CleanInv => PoolIsClean
  BY DEF CleanInv
<1> QED
  BY <1>1, <1>2, <1>3, SlotsAgree, PTL DEF Spec

\* A transaction that is open on the server is somebody's to end (NothingStranded).
THEOREM NothingIsStranded == ASSUME ~Malformed PROVE Spec => []NothingStranded
<1>1. SlotInv /\ PoolIsClean => NothingStranded
  <2> SUFFICES ASSUME SlotInv, PoolIsClean, NEW c \in Clients, open[c], c \notin late
               PROVE \/ \E r \in Runs : phase[r] = "running" /\ client[r] = c
                     \/ \E s \in Slots : pinned[s] = c /\ (s \in Mapped \/ Refs(s) # {})
    BY DEF NothingStranded
  <2>1. place[c] \in {"used", "pinned"}
    BY DEF SlotInv, PoolIsClean, Placed, TypeOK, ServerOK, Places
  <2> QED
    BY <2>1, Disjoint DEF SlotInv, Placed, Reachable
<1> QED
  BY <1>1, SlotsAgree, PoolStaysClean, PTL
=============================================================================
