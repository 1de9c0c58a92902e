---------------------------- MODULE TabGridProofs ----------------------------
(***************************************************************************)
(* Proofs about the result grid: which rows replace which, in what order,  *)
(* and that a tab that spins waits for something.                          *)
(***************************************************************************)
EXTENDS TabGrid, SequenceTheorems, WellFoundedInduction, TLAPS

-----------------------------------------------------------------------------
(***************************************************************************)
(* Types.                                                                  *)
(***************************************************************************)
Kinds == {"manual", "refresh", "automatic"}

Asks == [kind : Kinds, kept : SUBSET Edits]

Runs == [kind : Kinds, generation : Nat, shape : 0 .. 1, valid : BOOLEAN]

Grids ==
    [result : Nat, columns : Nat, pending : SUBSET Edits,
     past : Seq(SUBSET Edits), future : Seq(SUBSET Edits), recent : BOOLEAN,
     selected : BOOLEAN, editing : BOOLEAN, loading : BOOLEAN, interval : BOOLEAN,
     shape : 0 .. 1, generation : Nat, runs : SUBSET Runs, fetches : SUBSET Nat,
     queue : Seq(Asks)]

Submissions == [tab : Tabs, edits : SUBSET Edits, pending : SUBSET Edits, sent : BOOLEAN]

TypeOK ==
    /\ grid \in [Tabs -> Grids] /\ active \in Tabs
    /\ submits \subseteq Submissions /\ submitted \in Nat /\ shapes \in Nat
    /\ strayed \in BOOLEAN

-----------------------------------------------------------------------------
(***************************************************************************)
(* The inductive invariant, of a tab.                                      *)
(***************************************************************************)
\* The runs in flight are numbered, and the last has the tab's number.
Numbered(g) ==
    /\ \A r \in g.runs : 1 <= r.generation /\ r.generation <= g.generation
    /\ \A r, q \in g.runs : r.generation = q.generation => r = q

\* What is shown, and the columns that are on their way, are those of one run or another
\* that has begun; and where the latest run has not answered there is no result if it
\* took away the one before.
Shown(g) ==
    /\ g.result <= g.generation /\ g.columns <= g.generation
    /\ \A n \in g.fetches : n <= g.generation
    /\ g.generation \in g.fetches /\ g.result # 0 => g.result = g.generation
    /\ g.result # 0 => g.columns <= g.result
    /\ \A r \in g.runs : r.kind = "manual" /\ r.generation = g.generation => g.result = 0

\* Runs of a table tab follow each other, and those of another tab never wait.
InTurn(t, g) ==
    /\ t \notin Tables => g.queue = <<>>
    /\ t \in Tables => \A r \in g.runs : r.generation = g.generation

Waiting(g) == g.queue # <<>> => g.runs # {}

TabInv(t, g) == Numbered(g) /\ Shown(g) /\ InTurn(t, g) /\ Waiting(g)

\* The latest run has not answered.
Running(g) == \E r \in g.runs : r.generation = g.generation

Sent(t) == \E k \in submits : k.tab = t /\ k.sent

Spinning == ~strayed => \A t \in Tabs : grid[t].loading => Running(grid[t]) \/ Sent(t)

GridInv == (\A t \in Tabs : TabInv(t, grid[t])) /\ Spinning

-----------------------------------------------------------------------------
(***************************************************************************)
(* What the operators do to a tab.                                         *)
(***************************************************************************)
\* A set of naturals has a least element.
LEMMA Least ==
    ASSUME NEW S \in SUBSET Nat, S # {}
    PROVE \E i \in S : \A j \in S : i <= j
<1>1. PICK i \in S : \A j \in S : ~(<<j, i>> \in OpToRel(<, Nat))
  BY WFMin, NatLessThanWellFounded
<1>2. \A j \in S : ~(j < i)
  BY <1>1 DEF OpToRel
<1> QED
  BY <1>2

\* What is left of a queue behind one of its entries.
LEMMA Behind ==
    ASSUME NEW S, NEW s \in Seq(S), NEW i \in DOMAIN s
    PROVE SubSeq(s, i + 1, Len(s)) \in Seq(S) /\ s[i] \in S
OBVIOUS

\* h shows what g shows and waits for the same runs.
Kin(g, h) ==
    /\ h.result = g.result /\ h.columns = g.columns /\ h.generation = g.generation
    /\ h.fetches = g.fetches /\ h.queue = g.queue
    /\ \A q \in h.runs : \E r \in g.runs : q.generation = r.generation /\ q.kind = r.kind
    /\ \A r \in g.runs : \E q \in h.runs : q.generation = r.generation
    /\ Numbered(g) => Numbered(h)

\* A tab keeps the invariant through whatever leaves its result and its runs.
LEMMA KinInv ==
    ASSUME NEW t, NEW g, NEW h, TabInv(t, g), Kin(g, h)
    PROVE TabInv(t, h) /\ (Running(g) => Running(h))
<1>1. Numbered(h)
  BY DEF TabInv, Kin
<1>2. Shown(h)
  BY DEF TabInv, Kin, Shown
<1>3. InTurn(t, h) /\ Waiting(h)
  BY DEF TabInv, Kin, InTurn, Waiting
<1>4. Running(g) => Running(h)
  BY DEF Kin, Running
<1> QED
  BY <1>1, <1>2, <1>3, <1>4 DEF TabInv

\* What a record with the fields of a tab's is.
LEMMA GridFields ==
    ASSUME NEW g \in Grids
    PROVE /\ g.result \in Nat /\ g.columns \in Nat /\ g.pending \in SUBSET Edits
          /\ g.past \in Seq(SUBSET Edits) /\ g.future \in Seq(SUBSET Edits)
          /\ g.recent \in BOOLEAN /\ g.selected \in BOOLEAN /\ g.editing \in BOOLEAN
          /\ g.loading \in BOOLEAN /\ g.interval \in BOOLEAN /\ g.shape \in 0 .. 1
          /\ g.generation \in Nat /\ g.runs \in SUBSET Runs /\ g.fetches \in SUBSET Nat
          /\ g.queue \in Seq(Asks)
BY DEF Grids

\* Two runs that differ in what makes them valid are of one generation.
LEMMA InvalidateKin ==
    ASSUME NEW g \in Grids
    PROVE /\ Invalidate(g) \in Grids /\ Kin(g, Invalidate(g))
          /\ Invalidate(g).loading = g.loading /\ Invalidate(g).pending = g.pending
          /\ Invalidate(g).past = g.past /\ Invalidate(g).editing = g.editing
<1> DEFINE ended == {[r EXCEPT !.valid = FALSE] : r \in g.runs}
           h == [g EXCEPT !.runs = ended]
<1>1. h = Invalidate(g)
  BY DEF Invalidate
<1>2. \A r \in g.runs : /\ [r EXCEPT !.valid = FALSE] \in Runs
                        /\ [r EXCEPT !.valid = FALSE].generation = r.generation
                        /\ [r EXCEPT !.valid = FALSE].kind = r.kind
  BY GridFields DEF Runs
<1>3. ended \in SUBSET Runs
  BY <1>2
<1>4. /\ \A q \in ended : \E r \in g.runs : q.generation = r.generation /\ q.kind = r.kind
                                            /\ q = [r EXCEPT !.valid = FALSE]
      /\ \A r \in g.runs : \E q \in ended : q.generation = r.generation
  BY <1>2
<1> HIDE DEF ended
<1>5. h \in Grids /\ h.runs = ended
  BY <1>3 DEF Grids
<1>6. /\ h.result = g.result /\ h.columns = g.columns /\ h.generation = g.generation
      /\ h.fetches = g.fetches /\ h.queue = g.queue
      /\ h.loading = g.loading /\ h.pending = g.pending /\ h.past = g.past
      /\ h.editing = g.editing
  BY DEF Grids
<1> HIDE DEF h
<1>7. ASSUME Numbered(g) PROVE Numbered(h)
  <2>1. \A q \in ended : 1 <= q.generation /\ q.generation <= h.generation
    BY <1>4, <1>6, <1>7 DEF Numbered
  <2>2. ASSUME NEW q \in ended, NEW p \in ended, q.generation = p.generation PROVE q = p
    <3>1. PICK r \in g.runs : q.generation = r.generation /\ q = [r EXCEPT !.valid = FALSE]
      BY <1>4
    <3>2. PICK s \in g.runs : p.generation = s.generation /\ p = [s EXCEPT !.valid = FALSE]
      BY <1>4
    <3>3. r = s
      BY <1>7, <2>2, <3>1, <3>2 DEF Numbered
    <3> QED
      BY <3>1, <3>2, <3>3
  <2> QED
    BY <1>5, <2>1, <2>2 DEF Numbered
<1>8. Kin(g, h)
  BY <1>4, <1>5, <1>6, <1>7 DEF Kin
<1> QED
  BY <1>1, <1>5, <1>6, <1>8

\* A change of the pending edits leaves the result and the runs.
LEMMA SetPendingKin ==
    ASSUME NEW g \in Grids, NEW pending \in SUBSET Edits
    PROVE LET h == SetPending(g, pending) IN
          /\ h \in Grids /\ Kin(g, h) /\ h.loading = g.loading /\ h.past = g.past
<1> DEFINE p == [g EXCEPT !.pending = pending]
<1>1. /\ p \in Grids /\ p.loading = g.loading /\ p.past = g.past
      /\ p.result = g.result /\ p.columns = g.columns /\ p.generation = g.generation
      /\ p.fetches = g.fetches /\ p.queue = g.queue /\ p.runs = g.runs
  BY DEF Grids
<1>2. SetPending(g, pending) \in {p, Invalidate(p)}
  BY DEF SetPending
<1> HIDE DEF p
<1>3. Kin(g, p)
  BY <1>1 DEF Kin, Numbered
<1>4. /\ Invalidate(p) \in Grids /\ Kin(p, Invalidate(p))
      /\ Invalidate(p).loading = p.loading /\ Invalidate(p).past = p.past
  BY <1>1, InvalidateKin
<1>5. Kin(g, Invalidate(p))
  BY <1>1, <1>4 DEF Kin, Numbered
<1> QED
  BY <1>1, <1>2, <1>3, <1>4, <1>5

\* The tail runs what it finds first.
LEMMA ExecuteInv ==
    ASSUME NEW t, NEW g \in Grids, NEW asked \in Asks,
           Numbered(g), Shown(g), t \notin Tables => g.queue = <<>>, t \in Tables => g.runs = {}
    PROVE LET h == Execute(g, asked) IN
          /\ h \in Grids /\ TabInv(t, h) /\ Running(h)
          /\ h.columns = g.columns /\ h.result \in {0, g.result}
          /\ h.selected => g.selected
<1> DEFINE run == [kind |-> asked.kind, generation |-> g.generation + 1,
                   shape |-> g.shape, valid |-> TRUE]
           next == [g EXCEPT !.generation = @ + 1, !.loading = TRUE, !.runs = @ \cup {run}]
           manual == [next EXCEPT
                         !.result = 0, !.pending = asked.kept, !.past = <<>>, !.future = <<>>,
                         !.recent = FALSE, !.selected = FALSE, !.editing = FALSE]
           h == Execute(g, asked)
<1>1. /\ run \in Runs /\ run.generation = g.generation + 1 /\ run.kind = asked.kind
      /\ asked.kind \in Kinds /\ asked.kept \in SUBSET Edits
  BY GridFields DEF Runs, Asks
<1>2. h = IF Background(asked) THEN next ELSE manual
  BY DEF Execute
<1> HIDE DEF run
<1>0. /\ g.generation + 1 \in Nat /\ g.runs \cup {run} \in SUBSET Runs
      /\ asked.kept \in SUBSET Edits /\ <<>> \in Seq(SUBSET Edits)
  <2>1. g.generation \in Nat /\ g.runs \in SUBSET Runs
    BY GridFields
  <2>2. <<>> \in Seq(SUBSET Edits)
    OBVIOUS
  <2> QED
    BY <1>1, <2>1, <2>2
<1>3. /\ next \in Grids /\ next.generation = g.generation + 1
      /\ next.runs = g.runs \cup {run} /\ next.queue = g.queue /\ next.fetches = g.fetches
      /\ next.columns = g.columns /\ next.result = g.result /\ next.selected = g.selected
  BY <1>0 DEF Grids
<1> HIDE DEF next
<1>4. /\ manual \in Grids /\ manual.generation = next.generation
      /\ manual.runs = next.runs /\ manual.queue = next.queue /\ manual.fetches = next.fetches
      /\ manual.columns = next.columns /\ manual.result = 0 /\ manual.selected = FALSE
  BY <1>0, <1>3 DEF Grids
<1> HIDE DEF manual, h
<1>5. /\ h \in Grids /\ h.generation = g.generation + 1
      /\ h.runs = g.runs \cup {run} /\ h.queue = g.queue /\ h.fetches = g.fetches
      /\ h.columns = g.columns /\ h.result \in {0, g.result}
      /\ h.selected => g.selected
      /\ asked.kind = "manual" => h.result = 0
  BY <1>1, <1>2, <1>3, <1>4 DEF Background
<1>6. /\ g.generation \in Nat /\ g.result \in Nat /\ g.columns \in Nat
      /\ \A r \in g.runs : r.generation \in Nat
      /\ \A n \in g.fetches : n \in Nat
  BY GridFields DEF Runs
<1>7. Numbered(h)
  BY <1>1, <1>5, <1>6 DEF Numbered
<1>8. Shown(h)
  <2>1. \A n \in h.fetches : n < h.generation
    BY <1>5, <1>6 DEF Shown
  <2>2. \A r \in h.runs : r = run \/ (r.generation < h.generation /\ r.generation # h.generation)
    BY <1>5, <1>6 DEF Numbered
  <2>3. h.result <= h.generation /\ h.columns <= h.generation
    BY <1>5, <1>6 DEF Shown
  <2>4. h.result # 0 => h.columns <= h.result
    BY <1>5, <1>6 DEF Shown
  <2>5. \A r \in h.runs : r.kind = "manual" /\ r.generation = h.generation => h.result = 0
    BY <1>1, <1>5, <2>2
  <2>6. h.generation \notin h.fetches /\ \A n \in h.fetches : n <= h.generation
    BY <1>5, <1>6, <2>1
  <2> QED
    BY <2>3, <2>4, <2>5, <2>6 DEF Shown
<1>9. InTurn(t, h) /\ Waiting(h) /\ Running(h)
  BY <1>1, <1>5 DEF InTurn, Waiting, Running
<1> QED
  BY <1>5, <1>7, <1>8, <1>9 DEF TabInv, h

\* When a run has ended, the tab goes on with what waits.
LEMMA ContinueInv ==
    ASSUME NEW t, NEW g \in Grids, NEW here, Numbered(g), Shown(g), InTurn(t, g)
    PROVE LET h == Continue(g, here) IN
          /\ h \in Grids /\ TabInv(t, h)
          /\ Running(h) \/ (h.loading = g.loading /\ ~Running(g))
          /\ h.columns = g.columns /\ h.result \in {0, g.result}
          /\ h.selected => g.selected
<1> DEFINE ready == {i \in DOMAIN g.queue : MayBegin(g, here, g.queue[i])}
           first == CHOOSE j \in ready : \A k \in ready : j <= k
           none == [g EXCEPT !.queue = <<>>]
           rest == [g EXCEPT !.queue = SubSeq(@, first + 1, Len(@))]
           h == Continue(g, here)
<1>1. h = IF g.runs # {} THEN g ELSE IF ready = {} THEN none ELSE Execute(rest, g.queue[first])
  BY DEF Continue
<1>2. /\ g.queue \in Seq(Asks) /\ ready \subseteq DOMAIN g.queue /\ ready \in SUBSET Nat
  BY GridFields
<1>3. ASSUME ready # {} PROVE first \in ready
  BY <1>2, <1>3, Least
<1>4. CASE g.runs # {}
  BY <1>1, <1>4 DEF TabInv, Waiting, Running, InTurn
<1>5. CASE g.runs = {} /\ ready = {}
  <2>1. h = none
    BY <1>1, <1>5
  <2> HIDE DEF h, ready
  <2>2. /\ none \in Grids /\ none.result = g.result /\ none.columns = g.columns
        /\ none.generation = g.generation /\ none.fetches = g.fetches /\ none.runs = g.runs
        /\ none.loading = g.loading /\ none.selected = g.selected /\ none.queue = <<>>
    <3>1. <<>> \in Seq(Asks)
      OBVIOUS
    <3> QED
      BY <3>1 DEF Grids
  <2> HIDE DEF none
  <2>3. Numbered(none) /\ Shown(none) /\ InTurn(t, none) /\ Waiting(none)
    BY <2>2 DEF Numbered, Shown, InTurn, Waiting
  <2>4. ~Running(g)
    BY <1>5 DEF Running
  <2> QED
    BY <2>1, <2>2, <2>3, <2>4 DEF TabInv, h
<1>6. CASE g.runs = {} /\ ready # {}
  <2>1. first \in ready /\ h = Execute(rest, g.queue[first])
    BY <1>1, <1>3, <1>6
  <2>2. first \in DOMAIN g.queue
    BY <1>2, <2>1
  <2> HIDE DEF h, ready, first
  <2>3. SubSeq(g.queue, first + 1, Len(g.queue)) \in Seq(Asks) /\ g.queue[first] \in Asks
    BY <1>2, <2>2, Behind
  <2>4. t \in Tables
    BY <2>2 DEF InTurn
  <2>5. /\ rest \in Grids /\ rest.result = g.result /\ rest.columns = g.columns
        /\ rest.generation = g.generation /\ rest.fetches = g.fetches /\ rest.runs = g.runs
        /\ rest.selected = g.selected
    BY <2>3 DEF Grids
  <2> HIDE DEF rest
  <2>6. Numbered(rest) /\ Shown(rest) /\ rest.runs = {}
    BY <1>6, <2>5 DEF Numbered, Shown
  <2> QED
    BY <2>1, <2>3, <2>4, <2>5, <2>6, ExecuteInv DEF h
<1> QED
  BY <1>4, <1>5, <1>6

\* A run is asked for: it begins, or waits for the one in flight, or is not needed.
LEMMA RequestInv ==
    ASSUME TypeOK, NEW t \in Tabs, NEW asked \in Asks, TabInv(t, grid[t])
    PROVE LET h == Request(t, asked) IN
          /\ h \in Grids /\ TabInv(t, h)
          /\ h.columns = grid[t].columns /\ h.result \in {0, grid[t].result}
          /\ h.loading => Running(h) \/ grid[t].loading
          /\ Running(grid[t]) \/ asked.kind = "manual" => Running(h)
<1> DEFINE g == IF asked.kind = "automatic" THEN grid[t] ELSE Invalidate(grid[t])
           busy == t \in Tables /\ (g.runs # {} \/ g.queue # <<>>)
           later == [g EXCEPT !.queue = Append(@, asked)]
           h == Request(t, asked)
<1>1. h = IF busy /\ asked.kind = "automatic" THEN g
          ELSE IF busy THEN later
          ELSE IF MayBegin(g, active = t, asked) THEN Execute(g, asked) ELSE g
  BY DEF Request
<1>2. g \in Grids /\ Kin(grid[t], g) /\ g.loading = grid[t].loading
  <2>1. grid[t] \in Grids
    BY DEF TypeOK
  <2>2. Kin(grid[t], grid[t])
    BY DEF Kin
  <2> QED
    BY <2>1, <2>2, InvalidateKin
<1> HIDE DEF g, h
<1>3. /\ TabInv(t, g) /\ (Running(grid[t]) => Running(g))
      /\ g.result = grid[t].result /\ g.columns = grid[t].columns
  BY <1>2, KinInv DEF Kin
<1> DEFINE Goal == /\ h \in Grids /\ TabInv(t, h)
                   /\ h.columns = grid[t].columns /\ h.result \in {0, grid[t].result}
                   /\ h.loading => Running(h) \/ grid[t].loading
                   /\ Running(grid[t]) \/ asked.kind = "manual" => Running(h)
<1>4. ASSUME h = g, asked.kind # "manual" PROVE Goal
  BY <1>2, <1>3, <1>4
<1>5. ASSUME busy, h = later PROVE Goal
  <2>1. /\ later \in Grids /\ later.result = g.result /\ later.columns = g.columns
        /\ later.generation = g.generation /\ later.fetches = g.fetches /\ later.runs = g.runs
        /\ later.loading = g.loading
    <3>1. Append(g.queue, asked) \in Seq(Asks)
      BY <1>2, GridFields, AppendProperties
    <3> QED
      BY <1>2, <3>1 DEF Grids
  <2> HIDE DEF later
  <2>2. t \in Tables /\ g.runs # {} /\ Running(later)
    BY <1>3, <1>5, <2>1 DEF TabInv, Waiting, InTurn, Running
  <2>3. Numbered(later) /\ Shown(later) /\ InTurn(t, later) /\ Waiting(later)
    BY <1>3, <2>1, <2>2 DEF TabInv, Numbered, Shown, InTurn, Waiting
  <2> QED
    BY <1>2, <1>3, <1>5, <2>1, <2>2, <2>3 DEF TabInv
<1>6. ASSUME ~busy, h = Execute(g, asked) PROVE Goal
  BY <1>2, <1>3, <1>6, ExecuteInv DEF TabInv, InTurn
<1>7. asked.kind = "manual" => MayBegin(g, active = t, asked)
  BY DEF MayBegin, Background
<1> QED
  BY <1>1, <1>4, <1>5, <1>6, <1>7 DEF h

\* A run ends without a result.
LEMMA FinallyInv ==
    ASSUME NEW t, NEW g \in Grids, NEW r \in g.runs, TabInv(t, g)
    PROVE LET h == Finally(g, r) IN
          /\ h \in Grids /\ Numbered(h) /\ Shown(h) /\ InTurn(t, h)
          /\ h.columns = g.columns /\ h.result = g.result
          /\ h.loading => g.loading /\ (Running(g) => Running(h))
<1> DEFINE h == Finally(g, r)
<1>1. /\ h \in Grids /\ h.result = g.result /\ h.columns = g.columns
      /\ h.generation = g.generation /\ h.fetches = g.fetches /\ h.runs = g.runs \ {r}
      /\ h.queue = g.queue /\ h.loading \in BOOLEAN
      /\ h.loading => g.loading /\ r.generation # g.generation
  BY DEF Finally, Latest, Grids
<1> HIDE DEF h
<1>2. Numbered(h) /\ Shown(h) /\ InTurn(t, h)
  BY <1>1 DEF TabInv, Numbered, Shown, InTurn
<1>3. h.loading /\ Running(g) => Running(h)
  BY <1>1 DEF Running
<1> QED
  BY <1>1, <1>2, <1>3 DEF h

\* A run ends and its result is shown.
LEMMA ShowInv ==
    ASSUME NEW t, NEW g \in Grids, NEW r \in g.runs, TabInv(t, g), Latest(g, r)
    PROVE LET h == Finally(Show(g, r), r) IN
          /\ h \in Grids /\ Numbered(h) /\ Shown(h) /\ InTurn(t, h)
          /\ h.columns = g.columns /\ h.result = r.generation /\ ~h.loading
          /\ Background(r) => ~h.selected
          /\ ~Background(r) => g.result = 0
<1> DEFINE s == Show(g, r)
           h == Finally(s, r)
<1>1. r \in Runs /\ r.generation \in Nat /\ r.generation = g.generation /\ r.kind \in Kinds
  BY GridFields DEF Runs, Latest
<1>2. /\ s \in Grids /\ s.result = r.generation /\ s.columns = g.columns
      /\ s.generation = g.generation /\ s.runs = g.runs /\ s.queue = g.queue
      /\ s.loading = FALSE
      /\ s.fetches \in {g.fetches, g.fetches \cup {r.generation}}
      /\ Background(r) => s.selected = FALSE
  <2>1. g.fetches \cup {r.generation} \in SUBSET Nat
    BY <1>1, GridFields
  <2> QED
    BY <1>1, <2>1 DEF Show, Grids
<1> HIDE DEF s
<1>3. /\ h \in Grids /\ h.result = s.result /\ h.columns = s.columns
      /\ h.generation = s.generation /\ h.fetches = s.fetches /\ h.runs = s.runs \ {r}
      /\ h.queue = s.queue /\ h.loading = FALSE /\ h.selected = s.selected
  BY <1>2 DEF Finally, Latest, Grids
<1> HIDE DEF h
<1>4. Numbered(h) /\ InTurn(t, h)
  BY <1>2, <1>3 DEF TabInv, Numbered, InTurn
<1>5. Shown(h)
  <2>1. \A q \in h.runs : q.generation # g.generation
    BY <1>1, <1>2, <1>3 DEF TabInv, Numbered
  <2>2. g.columns <= g.generation /\ \A n \in h.fetches : n <= g.generation
    BY <1>1, <1>2, <1>3, GridFields DEF TabInv, Shown
  <2> QED
    BY <1>1, <1>2, <1>3, <2>1, <2>2 DEF Shown
<1>6. ~Background(r) => g.result = 0
  BY <1>1 DEF Background, Kinds, TabInv, Shown
<1> QED
  BY <1>2, <1>3, <1>4, <1>5, <1>6 DEF h, s

\* What a run that has ended leaves: h.
Ended(t, g, h) ==
    /\ h \in Grids /\ TabInv(t, h)
    /\ h.loading => Running(h) \/ (g.loading /\ ~Running(g))
    /\ h.columns = g.columns

\* The error of a run, or a result that may not be shown, takes nothing away but what the
\* next run does.
LEMMA FailedInv ==
    ASSUME NEW t, NEW g \in Grids, NEW r \in g.runs, NEW here, TabInv(t, g)
    PROVE LET h == Continue(Finally(g, r), here) IN Ended(t, g, h) /\ h.result \in {0, g.result}
<1> DEFINE f == Finally(g, r)
           h == Continue(f, here)
<1>1. /\ f \in Grids /\ Numbered(f) /\ Shown(f) /\ InTurn(t, f)
      /\ f.columns = g.columns /\ f.result = g.result
      /\ f.loading => g.loading /\ (Running(g) => Running(f))
  BY FinallyInv
<1> HIDE DEF f
<1>2. /\ h \in Grids /\ TabInv(t, h)
      /\ Running(h) \/ (h.loading = f.loading /\ ~Running(f))
      /\ h.columns = f.columns /\ h.result \in {0, f.result}
  BY <1>1, ContinueInv
<1> HIDE DEF h
<1> QED
  BY <1>1, <1>2 DEF Ended, f, h

\* The result of a run is shown where it may, in place of another only by a refresh.
LEMMA AnswerInv ==
    ASSUME NEW t, NEW g \in Grids, NEW r \in g.runs, TabInv(t, g)
    PROVE LET h == Answer(t, g, r) IN
          /\ Ended(t, g, h)
          /\ \/ h.result \in {0, g.result}
             \/ /\ h.result = r.generation /\ Latest(g, r) /\ Applies(t, g, r)
                /\ Background(r) => ~h.selected
                /\ ~Background(r) => g.result = 0
<1> DEFINE h == Answer(t, g, r)
           f == Finally(Show(g, r), r)
<1>1. CASE Applies(t, g, r) /\ Latest(g, r)
  <2>1. h = Continue(f, active = t)
    BY <1>1 DEF Answer
  <2>2. /\ f \in Grids /\ Numbered(f) /\ Shown(f) /\ InTurn(t, f)
        /\ f.columns = g.columns /\ f.result = r.generation /\ ~f.loading
        /\ Background(r) => ~f.selected
        /\ ~Background(r) => g.result = 0
    BY <1>1, ShowInv
  <2> HIDE DEF f
  <2>3. LET c == Continue(f, active = t) IN
        /\ c \in Grids /\ TabInv(t, c)
        /\ Running(c) \/ (c.loading = f.loading /\ ~Running(f))
        /\ c.columns = f.columns /\ c.result \in {0, f.result}
        /\ c.selected => f.selected
    BY <2>2, ContinueInv
  <2> QED
    BY <1>1, <2>1, <2>2, <2>3 DEF Ended
<1>2. CASE ~(Applies(t, g, r) /\ Latest(g, r))
  <2>1. h = Continue(Finally(g, r), active = t)
    BY <1>2 DEF Answer, Show
  <2> QED
    BY <2>1, FailedInv
<1> QED
  BY <1>1, <1>2

-----------------------------------------------------------------------------
(***************************************************************************)
(* What a step does to a tab.                                              *)
(***************************************************************************)
\* The result of the tab's latest run is shown, which may be shown.
Freshly(t, g, h) ==
    \E r \in g.runs : /\ h.result = r.generation /\ Latest(g, r) /\ Applies(t, g, r)
                      /\ Background(r) => ~h.selected
                      /\ ~Background(r) => g.result = 0

\* From g to h.
Fine(t, g, h) ==
    /\ h \in Grids /\ TabInv(t, h)
    /\ h.result \in {0, g.result} \/ Freshly(t, g, h)
    /\ h.columns \in {g.columns, g.generation}

\* A spinner stays only with what it is for, and begins with a run or a submission.
Spun(t, g, h) == h.loading => Running(h) \/ (g.loading /\ ~Running(g)) \/ Sent(t)'

Stepped == /\ grid' \in [Tabs -> Grids]
           /\ \A t \in Tabs : Fine(t, grid[t], grid'[t]) /\ Spun(t, grid[t], grid'[t])

\* A step that leaves a tab's result and its runs is such a step.
LEMMA KinFine ==
    ASSUME NEW t, NEW g, NEW h \in Grids, TabInv(t, g), Kin(g, h), h.loading => g.loading
    PROVE Fine(t, g, h) /\ Spun(t, g, h)
<1>1. TabInv(t, h) /\ (Running(g) => Running(h))
  BY KinInv
<1> QED
  BY <1>1 DEF Fine, Spun, Kin

\* So is one that changes nothing.
LEMMA SameFine ==
    ASSUME NEW t, NEW g \in Grids, TabInv(t, g)
    PROVE Fine(t, g, g) /\ Spun(t, g, g)
<1>1. Kin(g, g)
  BY DEF Kin
<1> QED
  BY <1>1, KinFine

\* A step of one tab leaves the others.
LEMMA Touched ==
    ASSUME TypeOK, \A t \in Tabs : TabInv(t, grid[t]),
           NEW u \in Tabs, NEW h, grid' = [grid EXCEPT ![u] = h],
           Fine(u, grid[u], h), Spun(u, grid[u], h)
    PROVE Stepped
<1>1. h \in Grids
  BY DEF Fine
<1>2. grid' \in [Tabs -> Grids] /\ grid'[u] = h
  BY <1>1 DEF TypeOK
<1>3. ASSUME NEW t \in Tabs, t # u PROVE Fine(t, grid[t], grid'[t]) /\ Spun(t, grid[t], grid'[t])
  <2>1. grid'[t] = grid[t] /\ grid[t] \in Grids
    BY <1>3 DEF TypeOK
  <2> QED
    BY <2>1, SameFine
<1> QED
  BY <1>2, <1>3 DEF Stepped

\* A run is asked for.
LEMMA RequestStepped ==
    ASSUME TypeOK, \A t \in Tabs : TabInv(t, grid[t]), NEW u \in Tabs, NEW asked \in Asks,
           grid' = [grid EXCEPT ![u] = Request(u, asked)]
    PROVE Stepped
<1>1. /\ Request(u, asked) \in Grids /\ TabInv(u, Request(u, asked))
      /\ Request(u, asked).columns = grid[u].columns
      /\ Request(u, asked).result \in {0, grid[u].result}
      /\ Request(u, asked).loading => Running(Request(u, asked)) \/ grid[u].loading
      /\ Running(grid[u]) \/ asked.kind = "manual" => Running(Request(u, asked))
  BY RequestInv
<1>2. Fine(u, grid[u], Request(u, asked)) /\ Spun(u, grid[u], Request(u, asked))
  BY <1>1 DEF Fine, Spun
<1> QED
  BY <1>2, Touched

\* A run of the active tab, or of another, is what may be asked for.
LEMMA AsksTyped ==
    ASSUME NEW kind \in Kinds, NEW kept \in SUBSET Edits
    PROVE Asked(kind, kept) \in Asks /\ Asked(kind, kept).kind = kind
BY DEF Asked, Asks

\* Recording an edit leaves the result and the runs.
LEMMA RecordedKin ==
    ASSUME NEW g \in Grids, NEW pending \in SUBSET Edits, NEW together \in BOOLEAN
    PROVE LET h == Recorded(g, pending, together) IN
          h \in Grids /\ Kin(g, h) /\ h.loading = g.loading
<1> DEFINE p == SetPending(g, pending)
           past == Append(g.past, g.pending)
           kept == IF Len(past) > HistoryLimit THEN Tail(past) ELSE past
           step == [p EXCEPT !.past = kept, !.future = <<>>, !.recent = TRUE]
<1>1. p \in Grids /\ Kin(g, p) /\ p.loading = g.loading
  BY SetPendingKin
<1>2. Recorded(g, pending, together) \in {g, p, step}
  BY DEF Recorded
<1> HIDE DEF p
<1>3. kept \in Seq(SUBSET Edits)
  <2>1. past \in Seq(SUBSET Edits) /\ past # <<>>
    BY GridFields, AppendProperties
  <2> QED
    BY <2>1, HeadTailProperties
<1> HIDE DEF kept
<1>4. /\ step \in Grids /\ step.result = p.result /\ step.columns = p.columns
      /\ step.generation = p.generation /\ step.fetches = p.fetches /\ step.runs = p.runs
      /\ step.queue = p.queue /\ step.loading = p.loading
  <2>1. <<>> \in Seq(SUBSET Edits)
    OBVIOUS
  <2> QED
    BY <1>1, <1>3, <2>1 DEF Grids
<1> HIDE DEF step
<1>5. Kin(g, step) /\ Kin(g, g)
  BY <1>1, <1>4 DEF Kin, Numbered
<1> QED
  BY <1>1, <1>2, <1>4, <1>5

\* A change of the active tab that leaves its result and its runs.
LEMMA Changed ==
    ASSUME TypeOK, \A t \in Tabs : TabInv(t, grid[t]),
           NEW h \in Grids, Kin(grid[active], h), h.loading => grid[active].loading,
           grid' = [grid EXCEPT ![active] = h]
    PROVE Stepped
<1>1. active \in Tabs
  BY DEF TypeOK
<1>2. Fine(active, grid[active], h) /\ Spun(active, grid[active], h)
  BY <1>1, KinFine
<1> QED
  BY <1>1, <1>2, Touched


\* Every step that begins or ends a run is such a step.
LEMMA RunsStepped ==
    ASSUME TypeOK, \A t \in Tabs : TabInv(t, grid[t])
    PROVE /\ \A t \in Tabs : Run(t) => Stepped
          /\ Refresh => Stepped
          /\ Tick => Stepped
          /\ \A t \in Tabs : \A r \in grid[t].runs : Answered(t, r) \/ RunFailed(t, r) => Stepped
<1>1. \A kind \in Kinds : Asked(kind, {}) \in Asks
  BY AsksTyped
<1>2. active \in Tabs /\ {"manual", "refresh", "automatic"} = Kinds
  BY DEF TypeOK, Kinds
<1>3. ASSUME NEW t \in Tabs, Run(t) PROVE Stepped
  BY <1>1, <1>2, <1>3, RequestStepped DEF Run
<1>4. ASSUME Refresh PROVE Stepped
  <2>1. PICK kind \in {"manual", "refresh"} :
          grid' = [grid EXCEPT ![active] = Request(active, Asked(kind, {}))]
    BY <1>4 DEF Refresh
  <2> QED
    BY <1>1, <1>2, <2>1, RequestStepped
<1>5. ASSUME Tick PROVE Stepped
  BY <1>1, <1>2, <1>5, RequestStepped DEF Tick
<1>6. ASSUME NEW t \in Tabs, NEW r \in grid[t].runs, Answered(t, r) \/ RunFailed(t, r)
      PROVE Stepped
  <2>1. grid[t] \in Grids
    BY DEF TypeOK
  <2>2. CASE Answered(t, r)
    <3>1. /\ Ended(t, grid[t], Answer(t, grid[t], r))
          /\ \/ Answer(t, grid[t], r).result \in {0, grid[t].result}
             \/ Freshly(t, grid[t], Answer(t, grid[t], r))
      BY <2>1, AnswerInv DEF Freshly
    <3>2. /\ Fine(t, grid[t], Answer(t, grid[t], r))
          /\ Spun(t, grid[t], Answer(t, grid[t], r))
      BY <3>1 DEF Fine, Spun, Ended
    <3> QED
      BY <2>2, <3>2, Touched DEF Answered
  <2>3. CASE RunFailed(t, r)
    <3> DEFINE h == Continue(Finally(grid[t], r), active = t)
    <3>1. Ended(t, grid[t], h) /\ h.result \in {0, grid[t].result}
      BY <2>1, FailedInv
    <3>2. Fine(t, grid[t], h) /\ Spun(t, grid[t], h)
      BY <3>1 DEF Fine, Spun, Ended
    <3>3. grid' = [grid EXCEPT ![t] = h]
      BY <2>3 DEF RunFailed
    <3> QED
      BY <3>2, <3>3, Touched
  <2> QED
    BY <1>6, <2>2, <2>3
<1> QED
  BY <1>3, <1>4, <1>5, <1>6

\* Columns that are not those of the latest run are dropped; the run goes on meanwhile, or
\* has its result.
LEMMA ColumnsStepped ==
    ASSUME TypeOK, \A t \in Tabs : TabInv(t, grid[t]), NEW t \in Tabs, NEW n \in grid[t].fetches,
           ColumnsArrive(t, n)
    PROVE Stepped
<1> DEFINE g == grid[t]
           left == [g EXCEPT !.fetches = @ \ {n}]
           h == IF n = left.generation THEN [left EXCEPT !.columns = n] ELSE left
<1>1. grid' = [grid EXCEPT ![t] = h]
  BY DEF ColumnsArrive
<1>2. g \in Grids /\ TabInv(t, g) /\ n \in Nat
  <2>1. g \in Grids
    BY DEF TypeOK
  <2> QED
    BY <2>1, GridFields
<1> HIDE DEF g
<1>3. /\ h \in Grids /\ h.result = g.result /\ h.generation = g.generation
      /\ h.fetches = g.fetches \ {n} /\ h.runs = g.runs /\ h.queue = g.queue
      /\ h.loading = g.loading
      /\ h.columns = (IF n = g.generation THEN n ELSE g.columns)
  BY <1>2 DEF Grids
<1> HIDE DEF h
<1>4. Numbered(h) /\ InTurn(t, h) /\ Waiting(h) /\ (Running(g) => Running(h))
  BY <1>2, <1>3 DEF TabInv, Numbered, InTurn, Waiting, Running
<1>5. Shown(h)
  BY <1>2, <1>3, GridFields DEF TabInv, Shown, g
<1>6. Fine(t, g, h) /\ Spun(t, g, h)
  BY <1>2, <1>3, <1>4, <1>5 DEF Fine, Spun, TabInv
<1> QED
  BY <1>1, <1>6, Touched DEF g

\* The spinner ends.
LEMMA LoadingKin ==
    ASSUME NEW g \in Grids, NEW b \in BOOLEAN
    PROVE /\ [g EXCEPT !.loading = b] \in Grids /\ Kin(g, [g EXCEPT !.loading = b])
          /\ [g EXCEPT !.loading = b].loading = b
<1> DEFINE h == [g EXCEPT !.loading = b]
<1>1. /\ h \in Grids /\ h.result = g.result /\ h.columns = g.columns
      /\ h.generation = g.generation /\ h.fetches = g.fetches /\ h.runs = g.runs
      /\ h.queue = g.queue /\ h.loading = b
  BY DEF Grids
<1> HIDE DEF h
<1>2. Kin(g, h)
  BY <1>1 DEF Kin, Numbered
<1> QED
  BY <1>1, <1>2 DEF h


\* A tab with the same result and the same runs.
LEMMA AlikeKin ==
    ASSUME NEW g, NEW p, NEW h, Kin(g, p),
           h.result = p.result, h.columns = p.columns, h.generation = p.generation,
           h.fetches = p.fetches, h.runs = p.runs, h.queue = p.queue
    PROVE Kin(g, h)
BY DEF Kin, Numbered

\* Edits leave the results and the runs, or make the runs invalid.
LEMMA EditsStepped ==
    ASSUME TypeOK, \A t \in Tabs : TabInv(t, grid[t]), NEW pending \in SUBSET Edits,
           EditCells(pending) \/ EditRows(pending) \/ DeleteRows(pending) \/ Rollback(pending)
    PROVE Stepped
<1> DEFINE g == grid[active]
<1>1. g \in Grids
  BY DEF TypeOK
<1>2. PICK together \in BOOLEAN :
          LET h == Recorded(g, pending, together) IN
          \/ grid' = [grid EXCEPT ![active] = h]
          \/ grid' = [grid EXCEPT ![active] = [h EXCEPT !.selected = FALSE]]
  BY DEF EditCells, EditRows, DeleteRows, Rollback, Change
<1> DEFINE p == Recorded(g, pending, together)
           h == [p EXCEPT !.selected = FALSE]
<1>3. p \in Grids /\ Kin(g, p) /\ p.loading = g.loading
  BY <1>1, RecordedKin
<1> HIDE DEF p
<1>4. /\ h \in Grids /\ h.result = p.result /\ h.columns = p.columns
      /\ h.generation = p.generation /\ h.fetches = p.fetches /\ h.runs = p.runs
      /\ h.queue = p.queue /\ h.loading = p.loading
  BY <1>3 DEF Grids
<1>5. grid' = [grid EXCEPT ![active] = p] \/ grid' = [grid EXCEPT ![active] = h]
  BY <1>2 DEF p
<1> HIDE DEF h
<1>6. Kin(g, h)
  BY <1>3, <1>4, AlikeKin
<1> QED
  BY <1>3, <1>4, <1>5, <1>6, Changed

\* So do undo and redo.
LEMMA HistoryStepped ==
    ASSUME TypeOK, \A t \in Tabs : TabInv(t, grid[t]), Undo \/ Redo
    PROVE Stepped
<1> DEFINE g == grid[active]
<1>1. g \in Grids /\ g.past \in Seq(SUBSET Edits) /\ g.future \in Seq(SUBSET Edits)
      /\ g.pending \in SUBSET Edits
  <2>1. g \in Grids
    BY DEF TypeOK
  <2> QED
    BY <2>1, GridFields
<1>2. ASSUME NEW pending \in SUBSET Edits, NEW past \in Seq(SUBSET Edits),
             NEW future \in Seq(SUBSET Edits),
             grid' = [grid EXCEPT ![active] = [SetPending(g, pending) EXCEPT
                          !.past = past, !.future = future, !.recent = FALSE]]
      PROVE Stepped
  <2> DEFINE p == SetPending(g, pending)
             h == [p EXCEPT !.past = past, !.future = future, !.recent = FALSE]
  <2>1. p \in Grids /\ Kin(g, p) /\ p.loading = g.loading
    BY <1>1, SetPendingKin
  <2> HIDE DEF p
  <2>2. /\ h \in Grids /\ h.result = p.result /\ h.columns = p.columns
        /\ h.generation = p.generation /\ h.fetches = p.fetches /\ h.runs = p.runs
        /\ h.queue = p.queue /\ h.loading = p.loading
    BY <2>1 DEF Grids
  <2>3. grid' = [grid EXCEPT ![active] = h]
    BY <1>2 DEF p
  <2> HIDE DEF h
  <2>4. Kin(g, h)
    BY <2>1, <2>2, AlikeKin
  <2> QED
    BY <2>1, <2>2, <2>3, <2>4, Changed
<1>3. ASSUME NEW pending \in SUBSET Edits
      PROVE SetPending(g, pending).past = g.past /\ SetPending(g, pending).future = g.future
  BY <1>1 DEF SetPending, Invalidate, Grids
<1>4. CASE Undo
  <2>1. g.past # <<>>
    BY <1>4 DEF Undo
  <2>2. /\ g.past[Len(g.past)] \in SUBSET Edits
        /\ SubSeq(g.past, 1, Len(g.past) - 1) \in Seq(SUBSET Edits)
    BY <1>1, <2>1
  <2>3. <<g.pending>> \o g.future \in Seq(SUBSET Edits)
    BY <1>1
  <2>4. grid' = [grid EXCEPT ![active] = [SetPending(g, g.past[Len(g.past)]) EXCEPT
                   !.past = SubSeq(g.past, 1, Len(g.past) - 1),
                   !.future = <<g.pending>> \o g.future, !.recent = FALSE]]
    BY <1>3, <1>4, <2>2 DEF Undo, Change
  <2> QED
    BY <1>2, <2>2, <2>3, <2>4
<1>5. CASE Redo
  <2>1. g.future # <<>>
    BY <1>5 DEF Redo
  <2>2. Head(g.future) \in SUBSET Edits /\ Tail(g.future) \in Seq(SUBSET Edits)
    BY <1>1, <2>1, HeadTailProperties
  <2>3. Append(g.past, g.pending) \in Seq(SUBSET Edits)
    BY <1>1, AppendProperties
  <2>4. grid' = [grid EXCEPT ![active] = [SetPending(g, Head(g.future)) EXCEPT
                   !.past = Append(g.past, g.pending), !.future = Tail(g.future),
                   !.recent = FALSE]]
    BY <1>3, <1>5, <2>2 DEF Redo, Change
  <2> QED
    BY <1>2, <2>2, <2>3, <2>4
<1> QED
  BY <1>4, <1>5

\* So do the selection, an editor, the timer's interval and what the tab asks for.
LEMMA SettingsStepped ==
    ASSUME TypeOK, \A t \in Tabs : TabInv(t, grid[t]),
           NEW b \in BOOLEAN, NEW shape \in 0 .. 1,
           Select(b) \/ SetEditing(b) \/ Configure(b) \/ Reshape(shape)
    PROVE Stepped
<1> DEFINE g == grid[active]
           e == [g EXCEPT !.editing = b]
<1>1. g \in Grids /\ Kin(g, g)
  BY DEF TypeOK, Kin
<1>2. ASSUME NEW h, h \in {[g EXCEPT !.selected = b], e, [g EXCEPT !.interval = b],
                           [g EXCEPT !.shape = shape]}
      PROVE h \in Grids /\ Kin(g, h) /\ h.loading = g.loading
  <2>1. /\ h \in Grids /\ h.result = g.result /\ h.columns = g.columns
        /\ h.generation = g.generation /\ h.fetches = g.fetches /\ h.runs = g.runs
        /\ h.queue = g.queue /\ h.loading = g.loading
    BY <1>1, <1>2 DEF Grids
  <2> QED
    BY <1>1, <2>1, AlikeKin
<1>3. e \in Grids /\ Kin(g, e) /\ e.loading = g.loading
  BY <1>2
<1>4. CASE Select(b) \/ Configure(b) \/ Reshape(shape)
  <2>1. PICK h : /\ h \in {[g EXCEPT !.selected = b], e, [g EXCEPT !.interval = b],
                           [g EXCEPT !.shape = shape]}
                 /\ grid' = [grid EXCEPT ![active] = h]
    BY <1>4 DEF Select, Configure, Reshape, Change
  <2> QED
    BY <1>2, <2>1, Changed
<1>5. CASE SetEditing(b)
  <2>1. grid' = [grid EXCEPT ![active] = Invalidate(e)]
    BY <1>5 DEF SetEditing, Change
  <2> HIDE DEF e
  <2>2. /\ Invalidate(e) \in Grids /\ Kin(e, Invalidate(e))
        /\ Invalidate(e).loading = e.loading
    BY <1>3, InvalidateKin
  <2>3. Kin(g, Invalidate(e))
    BY <1>3, <2>2 DEF Kin
  <2> QED
    BY <1>3, <2>1, <2>2, <2>3, Changed
<1> QED
  BY <1>4, <1>5

\* A tab that is shown, and the one that is left.
LEMMA ActivateStepped ==
    ASSUME TypeOK, \A t \in Tabs : TabInv(t, grid[t]), NEW u \in Tabs, Activate(u)
    PROVE Stepped
<1> DEFINE g == grid[active]
           e == [g EXCEPT !.editing = FALSE]
           s == IF grid[u].pending = {} THEN grid[u] ELSE Invalidate(grid[u])
<1>1. g \in Grids /\ grid[u] \in Grids /\ active \in Tabs /\ u # active
  BY DEF TypeOK, Activate
<1>2. e \in Grids /\ Kin(g, e) /\ e.loading = g.loading
  <2>1. /\ e \in Grids /\ e.result = g.result /\ e.columns = g.columns
        /\ e.generation = g.generation /\ e.fetches = g.fetches /\ e.runs = g.runs
        /\ e.queue = g.queue /\ e.loading = g.loading
    BY <1>1 DEF Grids
  <2> QED
    BY <2>1 DEF Kin, Numbered
<1>3. /\ grid' \in [Tabs -> Grids] /\ grid'[active] = Invalidate(e) /\ grid'[u] = s
      /\ \A t \in Tabs : t # active /\ t # u => grid'[t] = grid[t]
      /\ Invalidate(e) \in Grids /\ Kin(e, Invalidate(e)) /\ Invalidate(e).loading = e.loading
      /\ s \in Grids /\ Kin(grid[u], s) /\ s.loading = grid[u].loading
  <2> HIDE DEF e
  <2>1. Invalidate(e) \in Grids /\ Kin(e, Invalidate(e)) /\ Invalidate(e).loading = e.loading
    BY <1>2, InvalidateKin
  <2>2. Kin(grid[u], grid[u])
    BY DEF Kin
  <2>3. s \in Grids /\ Kin(grid[u], s) /\ s.loading = grid[u].loading
    BY <1>1, <2>2, InvalidateKin
  <2>4. grid' = [grid EXCEPT ![active] = Invalidate(e), ![u] = s]
    BY <1>1 DEF Activate, e, TypeOK
  <2> HIDE DEF s
  <2> QED
    BY <1>1, <2>1, <2>3, <2>4 DEF TypeOK
<1> HIDE DEF e, s
<1>4. Kin(g, Invalidate(e))
  BY <1>2, <1>3 DEF Kin
<1>5. Fine(active, g, grid'[active]) /\ Spun(active, g, grid'[active])
  BY <1>1, <1>2, <1>3, <1>4, KinFine
<1>6. Fine(u, grid[u], grid'[u]) /\ Spun(u, grid[u], grid'[u])
  BY <1>1, <1>3, KinFine
<1>7. ASSUME NEW t \in Tabs, t # active, t # u
      PROVE Fine(t, grid[t], grid'[t]) /\ Spun(t, grid[t], grid'[t])
  <2>1. grid[t] \in Grids
    BY DEF TypeOK
  <2> QED
    BY <1>3, <1>7, <2>1, SameFine
<1> QED
  BY <1>3, <1>5, <1>6, <1>7 DEF Stepped


\* What a step that leaves every tab as it is does.
LEMMA NothingStepped ==
    ASSUME TypeOK, \A t \in Tabs : TabInv(t, grid[t]), grid' = grid
    PROVE Stepped
<1>1. \A t \in Tabs : grid[t] \in Grids
  BY DEF TypeOK
<1> QED
  BY <1>1, SameFine DEF Stepped, TypeOK

\* A submission that is sent keeps its tab spinning; its answer begins a run, or nothing.
LEMMA SubmissionsStepped ==
    ASSUME TypeOK, \A t \in Tabs : TabInv(t, grid[t]), NEW k \in submits,
           Confirmed(k) \/ Stored(k) \/ StoreFailed(k)
    PROVE Stepped
<1>1. /\ k.tab \in Tabs /\ k.pending \ k.edits \in SUBSET Edits /\ grid[k.tab] \in Grids
      /\ k \in Submissions /\ active \in Tabs
  BY DEF TypeOK, Submissions
<1>2. CASE Stored(k)
  <2>1. Asked("manual", k.pending \ k.edits) \in Asks
    BY <1>1, AsksTyped DEF Kinds
  <2> QED
    BY <1>1, <1>2, <2>1, RequestStepped DEF Stored
<1>3. CASE grid' = [grid EXCEPT ![k.tab].loading = FALSE]
  <2> DEFINE h == [grid[k.tab] EXCEPT !.loading = FALSE]
  <2>1. h \in Grids /\ Kin(grid[k.tab], h) /\ h.loading = FALSE
    BY <1>1, LoadingKin
  <2>2. grid' = [grid EXCEPT ![k.tab] = h]
    BY <1>3
  <2> HIDE DEF h
  <2>3. Fine(k.tab, grid[k.tab], h) /\ Spun(k.tab, grid[k.tab], h)
    BY <1>1, <2>1, KinFine
  <2> QED
    BY <1>1, <2>2, <2>3, Touched
<1>4. CASE /\ grid' = [grid EXCEPT ![k.tab].loading = TRUE]
           /\ submits' = (submits \ {k}) \cup {[k EXCEPT !.sent = TRUE]}
  <2> DEFINE h == [grid[k.tab] EXCEPT !.loading = TRUE]
  <2>1. h \in Grids /\ Kin(grid[k.tab], h)
    BY <1>1, LoadingKin
  <2>2. grid' = [grid EXCEPT ![k.tab] = h]
    BY <1>4
  <2> HIDE DEF h
  <2>3. TabInv(k.tab, h)
    BY <1>1, <2>1, KinInv
  <2>4. [k EXCEPT !.sent = TRUE].tab = k.tab /\ [k EXCEPT !.sent = TRUE].sent
    BY <1>1 DEF Submissions
  <2>5. Sent(k.tab)'
    <3>1. \E q \in submits' : q.tab = k.tab /\ q.sent
      BY <1>4, <2>4
    <3> QED
      BY <3>1 DEF Sent
  <2>6. Fine(k.tab, grid[k.tab], h) /\ Spun(k.tab, grid[k.tab], h)
    BY <2>1, <2>3, <2>5 DEF Fine, Spun, Kin
  <2> QED
    BY <1>1, <2>2, <2>6, Touched
<1>5. CASE grid' = grid
  BY <1>5, NothingStepped
<1> QED
  BY <1>2, <1>3, <1>4, <1>5 DEF Confirmed, StoreFailed

\* Every step is such a step.
LEMMA EveryStep ==
    ASSUME TypeOK, \A t \in Tabs : TabInv(t, grid[t]), [Next]_vars
    PROVE Stepped
<1>1. ASSUME NEW t \in Tabs, Stop(t) PROVE Stepped
  <2> DEFINE h == [grid[t] EXCEPT !.loading = FALSE]
  <2>1. h \in Grids /\ Kin(grid[t], h) /\ h.loading = FALSE
    BY LoadingKin DEF TypeOK
  <2>2. grid' = [grid EXCEPT ![t] = h]
    BY <1>1 DEF Stop
  <2> HIDE DEF h
  <2>3. Fine(t, grid[t], h) /\ Spun(t, grid[t], h)
    BY <2>1, KinFine
  <2> QED
    BY <2>2, <2>3, Touched
<1>2. ASSUME NEW edits \in SUBSET Edits, Submit(edits) PROVE Stepped
  BY <1>2, NothingStepped DEF Submit
<1>3. CASE UNCHANGED vars
  BY <1>3, NothingStepped DEF vars
<1>4. ASSUME NEW shape \in 0 .. 1, Reshape(shape) PROVE Stepped
  BY <1>4, SettingsStepped
<1>5. ASSUME NEW b \in BOOLEAN, Select(b) \/ SetEditing(b) \/ Configure(b) PROVE Stepped
  BY <1>5, SettingsStepped
<1> QED
  BY <1>1, <1>2, <1>3, <1>4, <1>5, RunsStepped, ColumnsStepped, EditsStepped, HistoryStepped,
     ActivateStepped, SubmissionsStepped
  DEF Next

-----------------------------------------------------------------------------
(***************************************************************************)
(* The invariants.                                                         *)
(***************************************************************************)
\* The variables keep their types in a step.
LEMMA TypeStep ==
    ASSUME TypeOK, \A t \in Tabs : TabInv(t, grid[t]), [Next]_vars
    PROVE TypeOK'
<1>1. grid' \in [Tabs -> Grids]
  BY EveryStep DEF Stepped
<1>2. active' \in Tabs
  BY DEF TypeOK, Next, vars, Others, Change, Run, Stop, Activate, Answered, RunFailed,
         ColumnsArrive, Refresh, Tick, Undo, Redo, EditCells, EditRows, DeleteRows, Rollback,
         Select, SetEditing, Configure, Reshape, Submit, Confirmed, Stored, StoreFailed
<1>3. submitted' \in Nat /\ shapes' \in Nat /\ strayed' \in BOOLEAN
  <2>1. submitted' = submitted \/ submitted' = submitted + 1
    BY ZenonT(60)
    DEF Next, vars, Others, Change, Run, Stop, Activate, Answered, RunFailed,
         ColumnsArrive, Refresh, Tick, Undo, Redo, EditCells, EditRows, DeleteRows, Rollback,
         Select, SetEditing, Configure, Reshape, Submit, Confirmed, Stored, StoreFailed
  <2>2. shapes' = shapes \/ shapes' = shapes + 1
    BY ZenonT(60)
    DEF Next, vars, Others, Change, Run, Stop, Activate, Answered, RunFailed,
         ColumnsArrive, Refresh, Tick, Undo, Redo, EditCells, EditRows, DeleteRows, Rollback,
         Select, SetEditing, Configure, Reshape, Submit, Confirmed, Stored, StoreFailed
  <2>3. strayed' = strayed \/ \E k \in submits : Stored(k)
    BY ZenonT(60)
    DEF Next, vars, Others, Change, Run, Stop, Activate, Answered, RunFailed,
         ColumnsArrive, Refresh, Tick, Undo, Redo, EditCells, EditRows, DeleteRows, Rollback,
         Select, SetEditing, Configure, Reshape, Submit, Confirmed, Stored, StoreFailed
  <2>4. ASSUME NEW k \in submits, Stored(k) PROVE strayed' \in BOOLEAN
    BY <2>4 DEF Stored
  <2> QED
    BY <2>1, <2>2, <2>3, <2>4 DEF TypeOK
<1>4. submits' \subseteq Submissions
  <2>1. ASSUME NEW edits \in SUBSET Edits, Submit(edits) PROVE submits' \subseteq Submissions
    <3>1. grid[active].pending \in SUBSET Edits
      BY GridFields DEF TypeOK
    <3> DEFINE made == [tab |-> active, edits |-> edits,
                        pending |-> grid[active].pending, sent |-> FALSE]
    <3>2. made \in Submissions
      BY <3>1 DEF Submissions, TypeOK
    <3>3. submits' = submits \cup {made}
      BY <2>1 DEF Submit
    <3> QED
      BY <3>2, <3>3 DEF TypeOK
  <2>2. ASSUME NEW k \in submits, Confirmed(k) \/ Stored(k) \/ StoreFailed(k)
        PROVE submits' \subseteq Submissions
    <3>1. k \in Submissions
      BY DEF TypeOK
    <3>2. [k EXCEPT !.sent = TRUE] \in Submissions
      BY <3>1 DEF Submissions
    <3> QED
      BY <2>2, <3>2 DEF Confirmed, Stored, StoreFailed, TypeOK
  <2>3. CASE submits' = submits
    BY <2>3 DEF TypeOK
  <2> QED
    BY <2>1, <2>2, <2>3
    DEF Next, vars, Others, Change, Run, Stop, Activate, Answered, RunFailed, ColumnsArrive,
        Refresh, Tick, Undo, Redo, EditCells, EditRows, DeleteRows, Rollback, Select,
        SetEditing, Configure, Reshape
<1> QED
  BY <1>1, <1>2, <1>3, <1>4 DEF TypeOK

\* A spinner that is there for a submission stays as long as that is on its way, or goes
\* with it, or a run begins in the tab, which is the active one if nothing has strayed.
LEMMA SpinningStep ==
    ASSUME TypeOK, GridInv, [Next]_vars
    PROVE Spinning'
<1> SUFFICES ASSUME ~strayed', NEW t \in Tabs, grid'[t].loading
             PROVE Running(grid'[t]) \/ Sent(t)'
  BY DEF Spinning
<1>1. Running(grid'[t]) \/ (grid[t].loading /\ ~Running(grid[t])) \/ Sent(t)'
  BY EveryStep DEF GridInv, Stepped, Spun
<1>2. strayed => strayed'
  BY DEF TypeOK, Next, vars, Others, Change, Run, Stop, Activate, Answered, RunFailed,
         ColumnsArrive, Refresh, Tick, Undo, Redo, EditCells, EditRows, DeleteRows, Rollback,
         Select, SetEditing, Configure, Reshape, Submit, Confirmed, Stored, StoreFailed
<1>3. SUFFICES ASSUME Sent(t) PROVE Running(grid'[t]) \/ Sent(t)'
  BY <1>1, <1>2 DEF GridInv, Spinning
<1>4. PICK q \in submits : q.tab = t /\ q.sent
  BY <1>3 DEF Sent
<1>5. CASE submits \subseteq submits'
  BY <1>4, <1>5 DEF Sent
<1>6. ASSUME NEW k \in submits, Confirmed(k) PROVE Sent(t)'
  BY <1>4, <1>6 DEF Confirmed, Sent
<1>7. ASSUME NEW k \in submits, Stored(k) PROVE Running(grid'[t]) \/ Sent(t)'
  <2>1. CASE q # k
    BY <1>4, <1>7, <2>1 DEF Stored, Sent
  <2>2. CASE q = k
    <3>1. t = active /\ active \in Tabs /\ k.pending \ k.edits \in SUBSET Edits
      BY <1>4, <1>7, <2>2 DEF Stored, TypeOK, Submissions
    <3>2. Asked("manual", k.pending \ k.edits) \in Asks
          /\ Asked("manual", k.pending \ k.edits).kind = "manual"
      BY <3>1, AsksTyped DEF Kinds
    <3>3. Running(Request(active, Asked("manual", k.pending \ k.edits)))
      BY <3>1, <3>2, RequestInv DEF GridInv
    <3> QED
      BY <1>7, <3>1, <3>3 DEF Stored, TypeOK
  <2> QED
    BY <2>1, <2>2
<1>8. ASSUME NEW k \in submits, StoreFailed(k) PROVE Running(grid'[t]) \/ Sent(t)'
  <2>1. CASE q # k
    BY <1>4, <1>8, <2>1 DEF StoreFailed, Sent
  <2>2. CASE q = k
    <3>1. grid[t] \in Grids
      BY DEF TypeOK
    <3>2. grid'[t] = [grid[t] EXCEPT !.loading = FALSE]
      BY <1>4, <1>8, <2>2 DEF StoreFailed, TypeOK
    <3>3. grid'[t].loading = FALSE
      BY <3>1, <3>2, LoadingKin
    <3> QED
      BY <3>3
  <2> QED
    BY <2>1, <2>2
<1> QED
  BY <1>5, <1>6, <1>7, <1>8
  DEF Next, vars, Others, Change, Run, Stop, Activate, Answered, RunFailed, ColumnsArrive,
      Refresh, Tick, Undo, Redo, EditCells, EditRows, DeleteRows, Rollback, Select,
      SetEditing, Configure, Reshape, Submit

\* Both hold initially.
LEMMA GridInit == Init => TypeOK /\ GridInv
<1> SUFFICES ASSUME Init PROVE TypeOK /\ GridInv
  OBVIOUS
<1>1. <<>> \in Seq(SUBSET Edits) /\ <<>> \in Seq(Asks)
  OBVIOUS
<1>2. Empty \in Grids
  BY <1>1 DEF Empty, Grids
<1>3. TypeOK
  BY <1>2 DEF Init, TypeOK
<1>4. \A t \in Tabs : grid[t] = Empty
  BY DEF Init
<1>5. \A t : TabInv(t, Empty)
  BY DEF Empty, TabInv, Numbered, Shown, InTurn, Waiting
<1>6. Empty.loading = FALSE
  BY DEF Empty
<1> QED
  BY <1>3, <1>4, <1>5, <1>6 DEF GridInv, Spinning

\* Every step keeps both.
LEMMA GridStep == TypeOK /\ GridInv /\ [Next]_vars => (TypeOK /\ GridInv)'
<1> SUFFICES ASSUME TypeOK, GridInv, [Next]_vars PROVE TypeOK' /\ GridInv'
  OBVIOUS
<1>1. \A t \in Tabs : TabInv(t, grid[t])
  BY DEF GridInv
<1>2. TypeOK' /\ Stepped /\ Spinning'
  BY <1>1, TypeStep, EveryStep, SpinningStep
<1>3. \A t \in Tabs : TabInv(t, grid'[t])
  BY <1>2 DEF Stepped, Fine
<1>4. (\A t \in Tabs : TabInv(t, grid[t]))'
  BY <1>3
<1> QED
  BY <1>2, <1>4 DEF GridInv

\* The inductive invariant holds of every behaviour.
LEMMA GridAlways == Spec => [](TypeOK /\ GridInv)
BY GridInit, GridStep, PTL DEF Spec

\* A tab that shows its spinner waits for something (LoadingMeansBusy), for any tabs, any
\* number of runs that overlap or wait, and any submissions.
THEOREM SpinnersEnd == Spec => []LoadingMeansBusy
<1>1. GridInv => LoadingMeansBusy
  BY DEF GridInv, Spinning, LoadingMeansBusy, Running, Sent
<1> QED
  BY <1>1, GridAlways, PTL

\* No older result follows a newer one, and no columns are newer than the rows that they
\* describe (ResultsInOrder), however runs overlap.
THEOREM OrderHolds == Spec => ResultsInOrder
<1> DEFINE InOrder ==
      \A t \in Tabs :
        /\ grid'[t].result # 0 => grid'[t].result >= grid[t].result
        /\ grid'[t].columns >= grid[t].columns
        /\ grid'[t].result # 0 => grid'[t].columns <= grid'[t].result
<1>1. ASSUME TypeOK, GridInv, [Next]_vars PROVE InOrder
  <2> SUFFICES ASSUME NEW t \in Tabs
               PROVE /\ grid'[t].result # 0 => grid'[t].result >= grid[t].result
                     /\ grid'[t].columns >= grid[t].columns
                     /\ grid'[t].result # 0 => grid'[t].columns <= grid'[t].result
    OBVIOUS
  <2> DEFINE g == grid[t]
             h == grid'[t]
  <2>1. g \in Grids /\ TabInv(t, g) /\ Fine(t, g, h)
    BY <1>1, EveryStep DEF GridInv, Stepped, TypeOK
  <2> HIDE DEF g, h
  <2>2. /\ g.result \in Nat /\ g.columns \in Nat /\ g.generation \in Nat
        /\ h.result \in Nat /\ h.columns \in Nat
    BY <2>1, GridFields DEF Fine
  <2>3. h.result \in {0, g.result, g.generation} /\ h.columns \in {g.columns, g.generation}
    BY <2>1 DEF Fine, Freshly, Latest
  <2>4. h.result # 0 => h.result >= g.result
    BY <2>1, <2>2, <2>3 DEF TabInv, Shown
  <2>5. h.columns >= g.columns
    BY <2>1, <2>2, <2>3 DEF TabInv, Shown
  <2>6. h.result # 0 => h.columns <= h.result
    BY <2>1 DEF Fine, TabInv, Shown
  <2> QED
    BY <2>4, <2>5, <2>6 DEF g, h
<1>2. TypeOK /\ GridInv /\ [Next]_vars => [InOrder]_vars
  BY <1>1
<1> QED
  BY <1>2, GridAlways, PTL DEF Spec, ResultsInOrder

\* Rows give way to others in place only where nothing is edited, pending or selected, and
\* for a refresh that nothing has overtaken (RowsStayUnderEdits).
THEOREM RowsHold == Spec => RowsStayUnderEdits
<1> DEFINE Under ==
      \A t \in Tabs : Replaced(t) =>
        /\ grid[t].pending = {} /\ ~grid[t].editing /\ t = active
        /\ ~grid'[t].selected
        /\ \E r \in grid[t].runs :
            /\ r.generation = grid'[t].result /\ r.valid /\ r.shape = grid[t].shape
            /\ r.kind = "automatic" => ~grid[t].selected
<1>1. ASSUME TypeOK, GridInv, [Next]_vars PROVE Under
  <2> SUFFICES ASSUME NEW t \in Tabs, Replaced(t)
               PROVE /\ grid[t].pending = {} /\ ~grid[t].editing /\ t = active
                     /\ ~grid'[t].selected
                     /\ \E r \in grid[t].runs :
                         /\ r.generation = grid'[t].result /\ r.valid /\ r.shape = grid[t].shape
                         /\ r.kind = "automatic" => ~grid[t].selected
    OBVIOUS
  <2>1. Freshly(t, grid[t], grid'[t])
    BY <1>1, EveryStep DEF GridInv, Stepped, Fine, Replaced
  <2>2. PICK r \in grid[t].runs :
          /\ grid'[t].result = r.generation /\ Applies(t, grid[t], r)
          /\ Background(r) => ~grid'[t].selected
          /\ ~Background(r) => grid[t].result = 0
    BY <2>1 DEF Freshly
  <2>3. Background(r)
    BY <2>2 DEF Replaced
  <2>4. r.valid /\ CanApply(grid[t], active = t, r.kind, r.shape)
    BY <2>2, <2>3 DEF Applies
  <2> QED
    BY <2>2, <2>3, <2>4 DEF CanApply
<1>2. TypeOK /\ GridInv /\ [Next]_vars => [Under]_vars
  BY <1>1
<1> QED
  BY <1>2, GridAlways, PTL DEF Spec, RowsStayUnderEdits
=============================================================================
