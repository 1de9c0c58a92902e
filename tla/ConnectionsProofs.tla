-------------------------- MODULE ConnectionsProofs --------------------------
(***************************************************************************)
(* Proofs about the connections of the user interface: what is shown of    *)
(* each comes from its latest attempt, nothing shows its spinner for ever, *)
(* and the list, the entries and the active connection agree unless state  *)
(* that was captured before an await has overwritten newer state.          *)
(***************************************************************************)
EXTENDS Connections, WellFoundedInduction, TLAPS

-----------------------------------------------------------------------------
(***************************************************************************)
(* filter.                                                                 *)
(***************************************************************************)
\* A set of naturals has a least element.
LEMMA Least ==
    ASSUME NEW S \in SUBSET Nat, S # {}
    PROVE \E i \in S : \A j \in S : i <= j
<1>1. PICK i \in S : \A j \in S : ~(<<j, i>> \in OpToRel(<, Nat))
  BY WFMin, NatLessThanWellFounded
<1>2. \A j \in S : ~(j < i)
  BY <1>1 DEF OpToRel
<1> QED
  BY <1>2

Members(s) == {s[i] : i \in DOMAIN s}

NoneTwice(s) == \A i, j \in DOMAIN s : s[i] = s[j] => i = j

\* What is appended.
LEMMA Appended ==
    ASSUME NEW S, NEW s \in Seq(S), NEW x \in S
    PROVE /\ Append(s, x) \in Seq(S)
          /\ Members(Append(s, x)) = Members(s) \cup {x}
          /\ NoneTwice(s) /\ x \notin Members(s) => NoneTwice(Append(s, x))
<1> DEFINE t == Append(s, x)
<1>1. /\ t \in Seq(S) /\ Len(t) = Len(s) + 1 /\ Len(s) \in Nat
      /\ \A i \in 1 .. Len(s) : t[i] = s[i]
      /\ t[Len(s) + 1] = x
  OBVIOUS
<1> HIDE DEF t
<1>2. DOMAIN t = DOMAIN s \cup {Len(s) + 1} /\ DOMAIN s = 1 .. Len(s)
  BY <1>1
<1>3. Members(t) = Members(s) \cup {x}
  BY <1>1, <1>2 DEF Members
<1>4. ASSUME NoneTwice(s), x \notin Members(s) PROVE NoneTwice(t)
  BY <1>1, <1>2, <1>4 DEF NoneTwice, Members
<1> QED
  BY <1>1, <1>3, <1>4 DEF t

\* f holds what is kept of each prefix of s, up to the n-th.
Keeps(f, s, cs, n) ==
    f = [i \in 0 .. n |-> IF i = 0 THEN <<>>
                          ELSE IF s[i] \in cs THEN f[i - 1] ELSE Append(f[i - 1], s[i])]

\* The recursion in Without defines a function.
LEMMA KeepsExists ==
    ASSUME NEW S, NEW s \in Seq(S), NEW cs
    PROVE \A n \in Nat : \E f : Keeps(f, s, cs, n)
<1> DEFINE bad == {n \in Nat : ~\E f : Keeps(f, s, cs, n)}
<1> SUFFICES ASSUME bad # {} PROVE FALSE
  OBVIOUS
<1>1. PICK n \in bad : \A m \in bad : n <= m
  BY Least
<1>2. \E f : Keeps(f, s, cs, 0)
  <2> WITNESS [i \in 0 .. 0 |-> <<>>]
  <2> QED
    BY DEF Keeps
<1>3. n # 0 /\ n \in Nat /\ n - 1 \in Nat
  BY <1>1, <1>2
<1>4. PICK f : Keeps(f, s, cs, n - 1)
  BY <1>1, <1>3
<1> DEFINE g == [i \in 0 .. n |-> IF i < n THEN f[i]
                                  ELSE IF s[n] \in cs THEN f[n - 1]
                                  ELSE Append(f[n - 1], s[n])]
<1>5. Keeps(g, s, cs, n)
  <2>1. \A i \in 0 .. n :
          g[i] = IF i = 0 THEN <<>>
                 ELSE IF s[i] \in cs THEN g[i - 1] ELSE Append(g[i - 1], s[i])
    <3> SUFFICES ASSUME NEW i \in 0 .. n
                 PROVE g[i] = IF i = 0 THEN <<>>
                              ELSE IF s[i] \in cs THEN g[i - 1] ELSE Append(g[i - 1], s[i])
      OBVIOUS
    <3>1. CASE i = n
      <4>1. n - 1 \in 0 .. n /\ n - 1 < n
        BY <1>3
      <4>2. g[n - 1] = f[n - 1]
        BY <4>1
      <4> QED
        BY <1>3, <3>1, <4>2
    <3>2. CASE i < n
      <4>1. i \in 0 .. n - 1
        BY <1>3, <3>2
      <4>2. f[i] = IF i = 0 THEN <<>>
                   ELSE IF s[i] \in cs THEN f[i - 1] ELSE Append(f[i - 1], s[i])
        BY <1>4, <4>1 DEF Keeps
      <4>3. g[i] = f[i]
        BY <3>2
      <4>4. i # 0 => i - 1 \in 0 .. n /\ i - 1 < n
        BY <1>3, <3>2
      <4>5. i # 0 => g[i - 1] = f[i - 1]
        BY <4>4
      <4> QED
        BY <4>2, <4>3, <4>5
    <3> QED
      BY <1>3, <3>1, <3>2
  <2> HIDE DEF g
  <2>2. g = [i \in 0 .. n |-> g[i]]
    BY DEF g
  <2> QED
    BY <2>1, <2>2 DEF Keeps
<1> QED
  BY <1>1, <1>5

\* filter keeps the order of the others: nothing appears twice that did not before.
LEMMA Filtered ==
    ASSUME NEW S, NEW s \in Seq(S), NEW cs
    PROVE /\ Without(s, cs) \in Seq(S)
          /\ Members(Without(s, cs)) = Members(s) \ cs
          /\ NoneTwice(s) => NoneTwice(Without(s, cs))
<1> DEFINE f == CHOOSE g : Keeps(g, s, cs, Len(s))
<1>1. Keeps(f, s, cs, Len(s))
  BY KeepsExists
<1>2. Without(s, cs) = f[Len(s)]
  BY DEF Without, Keeps
<1> HIDE DEF f
<1> DEFINE Right(n) ==
      /\ f[n] \in Seq(S)
      /\ Members(f[n]) = {s[i] : i \in 1 .. n} \ cs
      /\ NoneTwice(s) => NoneTwice(f[n])
    wrong == {n \in 0 .. Len(s) : ~Right(n)}
<1>3. f[0] = <<>> /\ \A n \in 1 .. Len(s) :
        f[n] = IF s[n] \in cs THEN f[n - 1] ELSE Append(f[n - 1], s[n])
  <2>1. \A i \in 0 .. Len(s) :
          f[i] = IF i = 0 THEN <<>>
                 ELSE IF s[i] \in cs THEN f[i - 1] ELSE Append(f[i - 1], s[i])
    BY <1>1, Zenon DEF Keeps
  <2>2. Len(s) \in Nat
    OBVIOUS
  <2> QED
    BY <2>1, <2>2
<1>4. Right(0)
  BY <1>3 DEF Members, NoneTwice
<1>5. ASSUME NEW n \in 1 .. Len(s), Right(n - 1) PROVE Right(n)
  <2>1. 1 .. n = (1 .. n - 1) \cup {n}
    OBVIOUS
  <2>2. {s[i] : i \in 1 .. n} = {s[i] : i \in 1 .. n - 1} \cup {s[n]}
    BY <2>1
  <2>3. CASE s[n] \in cs
    BY <1>3, <1>5, <2>2, <2>3
  <2>4. CASE s[n] \notin cs
    <3> DEFINE old == f[n - 1]
               new == Append(old, s[n])
    <3>6. n \in DOMAIN s
      OBVIOUS
    <3>1. f[n] = new /\ old \in Seq(S) /\ s[n] \in S
      <4>1. f[n] = new
        BY <1>3, <2>4
      <4>2. old \in Seq(S)
        BY <1>5
      <4>3. s[n] \in S
        BY <3>6
      <4> QED
        BY <4>1, <4>2, <4>3
    <3>2. /\ new \in Seq(S) /\ Members(new) = Members(old) \cup {s[n]}
          /\ NoneTwice(old) /\ s[n] \notin Members(old) => NoneTwice(new)
      BY <3>1, Appended
    <3> HIDE DEF old, new
    <3>3. Members(old) = {s[i] : i \in 1 .. n - 1} \ cs
      BY <1>5 DEF old
    <3>4. ASSUME NoneTwice(s) PROVE s[n] \notin {s[i] : i \in 1 .. n - 1}
      BY <3>4 DEF NoneTwice
    <3>5. NoneTwice(s) => NoneTwice(old)
      BY <1>5 DEF old
    <3>7. Members(new) = {s[i] : i \in 1 .. n} \ cs
      BY <2>2, <2>4, <3>2, <3>3
    <3> QED
      BY <3>1, <3>2, <3>3, <3>4, <3>5, <3>7
  <2> QED
    BY <2>3, <2>4
<1> HIDE DEF Right
<1>6. wrong = {}
  <2> SUFFICES ASSUME wrong # {} PROVE FALSE
    OBVIOUS
  <2>1. wrong \in SUBSET Nat
    OBVIOUS
  <2>2. PICK n \in wrong : \A m \in wrong : n <= m
    BY <2>1, Least
  <2>3. n # 0 /\ n \in 1 .. Len(s)
    BY <1>4
  <2>4. n - 1 \in 0 .. Len(s) /\ n - 1 \notin wrong
    BY <2>2, <2>3
  <2> QED
    BY <1>5, <2>3, <2>4
<1>7. Right(Len(s))
  BY <1>6
<1>8. Members(s) = {s[i] : i \in 1 .. Len(s)}
  BY DEF Members
<1> QED
  BY <1>2, <1>7, <1>8 DEF Right
-----------------------------------------------------------------------------
(***************************************************************************)
(* The inductive invariant.                                                *)
(***************************************************************************)
Cells == [Names -> SUBSET {"loading", "loaded"}]

\* What a call in flight has captured.
Sound(k) ==
    /\ k.conn \in Conns
    /\ k.op \in {"connect", "disconnect", "detach", "schema", "select", "database",
                 "available", "tables"}
    /\ k.op = "connect" =>
           k \in [op : {"connect"}, conn : Conns, attempt : Nat \ {0}, tested : BOOLEAN,
                  activate : BOOLEAN, previous : Conns \cup {None}]
    /\ k.op \in {"disconnect", "detach"} => k.open \in Seq(Conns)
    /\ k.op = "schema" => k.name \in Names /\ k.layout \in ByUpdates
    /\ k.op = "select" => k.names \subseteq Names /\ k.known \in Cells /\ k.layout \in ByUpdates
    /\ k.op = "database" => k.name \in Names /\ k.known \in Cells
    /\ k.op = "available" => k.known \in Cells

TypeOK ==
    /\ open \in Seq(Conns) /\ active \in Conns \cup {None}
    /\ data \in [Conns -> Entries \cup {None}]
    /\ attempts \in [Conns -> Nat] /\ attempted \in Nat
    /\ \A k \in calls : Sound(k)
    /\ {revision, list, version} \subseteq Nat
    /\ loads \subseteq [version : Nat, from : Nat]

\* The calls of connect that are under way are numbered.
Attempts == {k \in calls : k.op = "connect"}

Numbered ==
    /\ \A k \in Attempts : k.attempt <= attempted
    /\ \A k, q \in Attempts : k.attempt = q.attempt => k = q
    /\ \A c \in Conns : attempts[c] <= attempted

Current(c) == \E k \in Flying(c, "connect") : IsCurrentAttempt(k)

\* As long as the attempt in charge is under way nothing is shown of the connection, and
\* its layout is not known.
Unfinished(c) ==
    data[c] # None =>
        /\ Current(c) => data[c].layout = None /\ ~data[c].connected
        /\ data[c].connected => data[c].from # 0

\* A schema is loaded for the layout of the connection, or before that is known.
Belongs(k, entry) ==
    k.layout = entry.layout \/ (entry.layout = None /\ k.layout = "schemas")

Spins(c) ==
    data[c] # None /\ data[c].layout \in ByUpdates \cup {None} =>
        \A n \in Names : "loading" \in data[c].cells[n] =>
            \E k \in Flying(c, "schema") : k.name = n /\ Belongs(k, data[c])

ConnInv ==
    /\ Numbered /\ LatestAttempt
    /\ \A c \in Conns : Unfinished(c) /\ Spins(c)

\* The saved connections that a load asks for are no older than those that are shown.
Fresh ==
    /\ list <= revision
    /\ \A k \in loads : k.version <= version /\ k.from <= revision
    /\ \A k, q \in loads : k.version = q.version => k = q
    /\ \A k \in loads : k.version = version => list <= k.from
-----------------------------------------------------------------------------
(***************************************************************************)
(* Steps.                                                                  *)
(***************************************************************************)
\* What there is of a connection stays, or goes, or an entry with nothing but updates is made.
\* Spinners are those of calls under way, and what is loaded stays.
Changes(c) ==
    \/ data'[c] = None /\ attempts'[c] \in {attempts[c], 0}
    \/ /\ data'[c] # None
       /\ Flying(c, "disconnect") \subseteq Flying(c, "disconnect")'
       /\ \/ attempts'[c] = attempts[c]
          \/ attempts'[c] = 0 /\ Flying(c, "disconnect")' # {}
       /\ \/ /\ data[c] = None
             /\ ~data'[c].connecting /\ ~data'[c].connected /\ data'[c].layout = None
             /\ data'[c].cells = NothingLoaded
          \/ /\ data[c] # None
             /\ data'[c].connecting = data[c].connecting
             /\ data'[c].connected = data[c].connected
             /\ data'[c].from = data[c].from /\ data'[c].layout = data[c].layout
             /\ Spins(c)'
             /\ data[c].layout \in ByUpdates =>
                    \A n \in Names : "loaded" \in data[c].cells[n] => data'[c].cells[n] # {}

\* Attempts go on, those that are in charge of a connection that stays, or end.
Carried ==
    /\ \A k \in Attempts' : \E q \in Attempts : q.conn = k.conn /\ q.attempt = k.attempt
    /\ \A k, q \in Attempts' : k.attempt = q.attempt => k = q
    /\ \A q \in Attempts : IsCurrentAttempt(q) /\ data'[q.conn] # None =>
           \E k \in Attempts' : q.conn = k.conn /\ q.attempt = k.attempt

\* No attempt begins or succeeds.
Passing == attempted' = attempted /\ Carried /\ \A c \in Conns : Changes(c)

\* None fails either, or goes on.
Aside == attempted' = attempted /\ Attempts' = Attempts /\ \A c \in Conns : Changes(c)

\* What has been loaded of a schema stays, or is loaded again.
Survives ==
    \A c \in Conns : Same(c) =>
        \A n \in Names : "loaded" \in data[c].cells[n] => data'[c].cells[n] # {}

\* The parts agree unless a race is noted.
Agrees == races \subseteq races' /\ (Agree /\ races' = {} => Agree')

Stepped == TypeOK' /\ ConnInv' /\ Survives /\ Agrees

\* A record of Entries, and one with other cells.
LEMMA EntryFields ==
    ASSUME NEW e \in Entries
    PROVE /\ e.connecting \in BOOLEAN /\ e.connected \in BOOLEAN /\ e.from \in Nat
          /\ e.layout \in Layouts \cup {None} /\ e.cells \in Cells
          /\ e # None
BY ConnectionsAssumption DEF Entries, Cells

LEMMA WithCells ==
    ASSUME NEW e \in Entries, NEW cells \in Cells
    PROVE /\ [e EXCEPT !.cells = cells] \in Entries
          /\ [e EXCEPT !.cells = cells].connecting = e.connecting
          /\ [e EXCEPT !.cells = cells].connected = e.connected
          /\ [e EXCEPT !.cells = cells].from = e.from
          /\ [e EXCEPT !.cells = cells].layout = e.layout
          /\ [e EXCEPT !.cells = cells].cells = cells
BY DEF Entries, Cells

LEMMA ConnectingFields ==
    /\ NothingLoaded \in Cells
    /\ Connecting \in Entries /\ Connecting.connecting /\ ~Connecting.connected
    /\ Connecting.from = 0 /\ Connecting.layout = None /\ Connecting.cells = NothingLoaded
BY DEF Connecting, NothingLoaded, Entries, Cells

\* The entry that updates make.
LEMMA EntryOf ==
    ASSUME TypeOK, NEW c \in Conns
    PROVE /\ Entry(c) \in Entries
          /\ data[c] # None => Entry(c) = data[c] /\ data[c] \in Entries
          /\ data[c] = None => /\ ~Entry(c).connecting /\ ~Entry(c).connected
                               /\ Entry(c).from = 0 /\ Entry(c).layout = None
                               /\ Entry(c).cells = NothingLoaded
<1>1. data[c] \in Entries \cup {None}
  BY DEF TypeOK
<1>2. CASE data[c] # None
  BY <1>1, <1>2 DEF Entry
<1>3. CASE data[c] = None
  <2>1. Entry(c) = [Connecting EXCEPT !.connecting = FALSE]
    BY <1>3 DEF Entry
  <2> QED
    BY <1>3, <2>1, ConnectingFields DEF Entries
<1> QED
  BY <1>2, <1>3

\* What such steps do to the invariant.
LEMMA PassingInv ==
    ASSUME TypeOK, ConnInv, TypeOK', Passing
    PROVE ConnInv' /\ Survives
<1>1. Carried /\ \A c \in Conns : Changes(c)
  BY DEF Passing
<1>2. \A k \in Attempts : k.attempt # 0 /\ k.attempt \in Nat
  BY DEF Attempts, TypeOK, Sound
<1>3. Numbered'
  <2>1. attempted \in Nat /\ \A c \in Conns : attempts[c] \in Nat
    BY DEF TypeOK
  <2>2. \A c \in Conns : attempts'[c] <= attempted
    BY <1>1, <2>1 DEF Changes, ConnInv, Numbered
  <2>3. \A k \in Attempts' : k.attempt <= attempted
    BY <1>1 DEF Carried, ConnInv, Numbered
  <2> QED
    BY <1>1, <2>2, <2>3 DEF Passing, Carried, Numbered
<1>4. ASSUME NEW c \in Conns, Current(c)' PROVE Current(c) /\ attempts'[c] = attempts[c]
  <2>1. PICK k \in Attempts' : k.conn = c /\ attempts'[c] = k.attempt
    BY <1>4 DEF Current, Flying, IsCurrentAttempt, Attempts
  <2>2. PICK q \in Attempts : q.conn = c /\ attempts'[c] = q.attempt
    BY <1>1, <2>1 DEF Carried
  <2>3. attempts'[c] = attempts[c]
    BY <1>1, <1>2, <2>2 DEF Changes
  <2> QED
    BY <2>2, <2>3 DEF Current, Flying, IsCurrentAttempt, Attempts
<1>5. LatestAttempt'
  <2> SUFFICES ASSUME NEW c \in Conns, data'[c] # None, Flying(c, "disconnect")' = {}
               PROVE /\ data'[c].connected => data'[c].from = attempts'[c]
                     /\ data'[c].connecting =>
                            (\E k \in Flying(c, "connect") : IsCurrentAttempt(k))'
    BY DEF LatestAttempt
  <2>1. Changes(c) /\ attempts'[c] = attempts[c] /\ Flying(c, "disconnect") = {}
    BY <1>1 DEF Changes
  <2>2. CASE data[c] = None
    BY <2>1, <2>2 DEF Changes
  <2>3. CASE data[c] # None
    <3>1. /\ data[c].connected => data[c].from = attempts[c]
          /\ data[c].connecting => \E k \in Flying(c, "connect") : IsCurrentAttempt(k)
      BY <2>1, <2>3 DEF ConnInv, LatestAttempt
    <3>2. data'[c].connecting = data[c].connecting /\ data'[c].connected = data[c].connected
          /\ data'[c].from = data[c].from
      BY <2>1, <2>3 DEF Changes
    <3>3. ASSUME NEW q \in Flying(c, "connect"), IsCurrentAttempt(q)
          PROVE (\E k \in Flying(c, "connect") : IsCurrentAttempt(k))'
      <4>1. q \in Attempts /\ q.conn = c
        BY DEF Flying, Attempts
      <4>2. PICK k \in Attempts' : q.conn = k.conn /\ q.attempt = k.attempt
        BY <1>1, <3>3, <4>1 DEF Carried
      <4> QED
        BY <2>1, <3>3, <4>1, <4>2 DEF IsCurrentAttempt, Flying, Attempts
    <3> QED
      BY <2>1, <3>1, <3>2, <3>3
  <2> QED
    BY <2>2, <2>3
<1>6. ASSUME NEW c \in Conns PROVE Unfinished(c)'
  BY <1>1, <1>4 DEF Unfinished, Changes, ConnInv
<1>7. ASSUME NEW c \in Conns PROVE Spins(c)'
  BY <1>1, ConnectingFields DEF Spins, Changes, NothingLoaded
<1>8. Survives
  BY <1>1 DEF Survives, Same, Connected, Changes
<1> QED
  BY <1>3, <1>5, <1>6, <1>7, <1>8 DEF ConnInv

LEMMA AsideInv ==
    ASSUME TypeOK, ConnInv, TypeOK', Aside
    PROVE ConnInv' /\ Survives
<1>1. Carried
  BY DEF Aside, Carried, ConnInv, Numbered
<1> QED
  BY <1>1, PassingInv DEF Passing, Aside

-----------------------------------------------------------------------------
(***************************************************************************)
(* Steps that begin a call, or change nothing of what is open.             *)
(***************************************************************************)
\* Calls are added; the attempts they give up wait for a disconnect.
Quiet ==
    /\ UNCHANGED <<open, data, attempted, races>>
    /\ active' \in {active} \cup Opened
    /\ attempts' \in [Conns -> Nat]
    /\ \A c \in Conns : \/ attempts'[c] = attempts[c]
                        \/ attempts'[c] = 0 /\ Flying(c, "disconnect")' # {}
    /\ calls \subseteq calls'
    /\ \A k \in calls' \ calls : Sound(k) /\ k.op # "connect"

LEMMA QuietStep ==
    ASSUME TypeOK, ConnInv, Quiet, UNCHANGED saved
    PROVE Stepped
<1>1. Opened \subseteq Conns
  BY DEF Opened, TypeOK
<1>2. TypeOK'
  BY <1>1 DEF TypeOK, Quiet, saved
<1>3. Aside
  <2>1. Attempts' = Attempts
    BY DEF Quiet, Attempts
  <2>2. ASSUME NEW c \in Conns PROVE Changes(c)
    <3>1. /\ Flying(c, "disconnect") \subseteq Flying(c, "disconnect")'
          /\ Flying(c, "schema") \subseteq Flying(c, "schema")'
      BY DEF Quiet, Flying
    <3>2. attempts'[c] = attempts[c] \/ (attempts'[c] = 0 /\ Flying(c, "disconnect")' # {})
      BY DEF Quiet
    <3>3. data' = data
      BY DEF Quiet
    <3>4. CASE data[c] = None
      BY <3>2, <3>3, <3>4 DEF Changes
    <3>5. CASE data[c] # None
      <4>1. Spins(c)'
        BY <3>1, <3>3 DEF ConnInv, Spins
      <4> QED
        BY <3>1, <3>2, <3>3, <3>5, <4>1 DEF Changes
    <3> QED
      BY <3>4, <3>5
  <2> QED
    BY <2>1, <2>2 DEF Aside, Quiet
<1>4. Agrees
  BY DEF Agrees, Agree, Quiet, Opened
<1> QED
  BY <1>2, <1>3, <1>4, AsideInv DEF Stepped

LEMMA BeginningsStepped ==
    ASSUME TypeOK, ConnInv, NEW c \in Conns,
           \/ Disconnect(c) \/ OpenInNewWindow(c) \/ SwitchConnection(c)
           \/ RefreshSelection(c) \/ RefreshTables(c)
    PROVE Stepped
<1>1. CASE Disconnect(c)
  <2>1. /\ Leaving(c).op = "disconnect" /\ Leaving(c).conn = c /\ Sound(Leaving(c))
        /\ Leaving(c) \in calls'
    BY <1>1 DEF Disconnect, Call, Leaving, Sound, TypeOK
  <2>2. Flying(c, "disconnect")' # {}
    BY <2>1 DEF Flying
  <2> QED
    BY <1>1, <2>1, <2>2, QuietStep DEF Disconnect, Call, Quiet, TypeOK
<1>2. CASE OpenInNewWindow(c)
  <2>1. Sound([op |-> "detach", conn |-> c, open |-> open])
    BY DEF Sound, TypeOK
  <2> QED
    BY <1>2, <2>1, QuietStep DEF OpenInNewWindow, Call, Quiet, TypeOK
<1>3. CASE SwitchConnection(c)
  BY <1>3, QuietStep DEF SwitchConnection, Quiet, TypeOK
<1>4. CASE RefreshSelection(c)
  <2>1. data[c].cells \in Cells
    BY <1>4, EntryOf, EntryFields DEF RefreshSelection, Flat, Connected
  <2>2. Sound([op |-> "available", conn |-> c, known |-> data[c].cells])
    BY <2>1 DEF Sound
  <2> QED
    BY <1>4, <2>2, QuietStep DEF RefreshSelection, Call, Quiet, TypeOK
<1>5. CASE RefreshTables(c)
  <2>1. Sound([op |-> "tables", conn |-> c])
    BY DEF Sound
  <2> QED
    BY <1>5, <2>1, QuietStep DEF RefreshTables, Call, Quiet, TypeOK
<1> QED
  BY <1>1, <1>2, <1>3, <1>4, <1>5

LEMMA DisablePluginStepped ==
    ASSUME TypeOK, ConnInv, NEW cs \in SUBSET Conns, DisablePlugin(cs)
    PROVE Stepped
<1>1. ASSUME NEW c \in cs
      PROVE Leaving(c).op = "disconnect" /\ Leaving(c).conn = c /\ Sound(Leaving(c))
            /\ Leaving(c) \in calls'
  BY DEF DisablePlugin, Leaving, Sound, TypeOK
<1>2. \A c \in cs : Flying(c, "disconnect")' # {}
  BY <1>1 DEF Flying
<1>3. /\ attempts' \in [Conns -> Nat]
      /\ \A c \in Conns : attempts'[c] = attempts[c] \/ (c \in cs /\ attempts'[c] = 0)
  <2>1. attempts' = [c \in Conns |-> IF c \in cs THEN 0 ELSE attempts[c]]
    BY DEF DisablePlugin
  <2>2. attempts \in [Conns -> Nat]
    BY DEF TypeOK
  <2> QED
    BY <2>1, <2>2
<1>4. calls' = calls \cup {Leaving(c) : c \in cs}
  BY DEF DisablePlugin
<1>5. \A k \in calls' \ calls : Sound(k) /\ k.op # "connect"
  BY <1>1, <1>4
<1> QED
  BY <1>2, <1>3, <1>4, <1>5, QuietStep DEF DisablePlugin, Quiet

\* A selection is stored, or asked for.
LEMMA SelectStepped ==
    ASSUME TypeOK, ConnInv, NEW c \in Conns,
           \/ \E ns \in SUBSET Names :
                SetSelectedSchemas(c, ns) \/ SetSelectedSchemasForDatabase(c, ns)
           \/ \E n \in Names : LoadNestedSchemas(c, n)
    PROVE Stepped
<1>1. data[c] # None /\ data[c].layout \in ByUpdates
  BY DEF SetSelectedSchemas, SetSelectedSchemasForDatabase, LoadNestedSchemas, Shown, Connected,
         ByUpdates
<1>2. data[c].cells \in Cells
  BY <1>1, EntryOf, EntryFields
<1>3. ASSUME NEW names \in SUBSET Names, StartSelect(c, names) PROVE Stepped
  <2>1. Sound([op |-> "select", conn |-> c, names |-> names, layout |-> data[c].layout,
               known |-> data[c].cells])
    BY <1>1, <1>2 DEF Sound
  <2> QED
    BY <1>3, <2>1, QuietStep DEF StartSelect, Call, Quiet, TypeOK
<1> QED
  BY <1>3 DEF SetSelectedSchemas, SetSelectedSchemasForDatabase, LoadNestedSchemas
-----------------------------------------------------------------------------
(***************************************************************************)
(* Connections go.                                                         *)
(***************************************************************************)
Gone(cs) ==
    /\ data' = [c \in Conns |-> IF c \in cs THEN None ELSE data[c]]
    /\ attempts' \in [Conns -> Nat] /\ attempted' = attempted
    /\ \A c \in Conns : attempts'[c] = attempts[c] \/ (c \in cs /\ attempts'[c] = 0)
    /\ calls' \subseteq calls
    /\ \A k \in calls \ calls' :
           k.op = "detach" \/ (k.op = "disconnect" /\ k.conn \in cs)
    /\ open' \in Seq(Conns) /\ active' \in Conns \cup {None}
    /\ races \subseteq races'
    /\ Agree /\ races' = {} =>
           /\ Members(open') = Members(open) \ cs /\ NoneTwice(open')
           /\ active' \in Members(open') \cup {None}

LEMMA GoneStep ==
    ASSUME TypeOK, ConnInv, NEW cs \in SUBSET Conns, Gone(cs), UNCHANGED saved
    PROVE Stepped
<1>1. data \in [Conns -> Entries \cup {None}] /\ data' \in [Conns -> Entries \cup {None}]
  BY DEF TypeOK, Gone
<1>2. TypeOK'
  BY <1>1 DEF TypeOK, Gone, saved
<1>3. Aside
  <2>1. Attempts' = Attempts
    BY DEF Gone, Attempts
  <2>2. ASSUME NEW c \in cs PROVE Changes(c)
    BY <1>1 DEF Gone, Changes
  <2>3. ASSUME NEW c \in Conns \ cs PROVE Changes(c)
    <3>1. /\ Flying(c, "disconnect") \subseteq Flying(c, "disconnect")'
          /\ Flying(c, "schema") \subseteq Flying(c, "schema")'
      BY <2>3 DEF Gone, Flying
    <3>2. data'[c] = data[c] /\ attempts'[c] = attempts[c]
      BY <1>1, <2>3 DEF Gone
    <3>3. Spins(c)'
      BY <3>1, <3>2 DEF ConnInv, Spins
    <3> QED
      BY <3>1, <3>2, <3>3 DEF Changes
  <2> QED
    BY <2>2, <2>3, <2>1 DEF Aside, Gone
<1>4. Agrees
  <2> SUFFICES ASSUME Agree, races' = {} PROVE Agree'
    BY DEF Agrees, Gone
  <2>1. /\ Members(open') = Members(open) \ cs /\ NoneTwice(open')
        /\ active' \in Members(open') \cup {None}
    BY DEF Gone
  <2>2. \A c \in Conns : data'[c] # None <=> data[c] # None /\ c \notin cs
    BY DEF Gone
  <2> QED
    BY <2>1, <2>2 DEF Agree, Opened, Members, NoneTwice
<1> QED
  BY <1>2, <1>3, <1>4, AsideInv DEF Stepped

\* The first of a list is one of it.
LEMMA FirstOf ==
    ASSUME NEW S, NEW s \in Seq(S)
    PROVE First(s) \in Members(s) \cup {None} /\ Members(s) \subseteq S
BY DEF First, Members

LEMMA DisconnectedStepped ==
    ASSUME TypeOK, ConnInv, NEW k \in calls, Disconnected(k)
    PROVE Stepped
<1> DEFINE remaining == Without(k.open, {k.conn})
<1>1. k.conn \in Conns /\ k.open \in Seq(Conns) /\ k.op = "disconnect"
  BY DEF Disconnected, TypeOK, Sound
<1>2. /\ remaining \in Seq(Conns)
      /\ Members(remaining) = Members(k.open) \ {k.conn}
      /\ NoneTwice(k.open) => NoneTwice(remaining)
  BY <1>1, Filtered
<1> HIDE DEF remaining
<1>3. First(remaining) \in Members(remaining) \cup {None} /\ Members(remaining) \subseteq Conns
  BY <1>2, FirstOf
<1>4. /\ open' = remaining /\ calls' = calls \ {k}
      /\ data' = [data EXCEPT ![k.conn] = None]
      /\ active' = IF k.active THEN First(remaining) ELSE active
      /\ UNCHANGED <<attempts, attempted, saved>>
      /\ races' = IF \/ k.open # open \/ attempts[k.conn] # 0
                     \/ ~k.active /\ active = k.conn
                  THEN races \cup {"disconnect"} ELSE races
  BY DEF Disconnected, remaining
<1>5. data' = [c \in Conns |-> IF c \in {k.conn} THEN None ELSE data[c]]
  BY <1>4 DEF TypeOK
<1>6. ASSUME Agree, races' = {}
      PROVE /\ Members(open') = Members(open) \ {k.conn} /\ NoneTwice(open')
            /\ active' \in Members(open') \cup {None}
  <2>1. k.open = open /\ (k.active \/ active # k.conn)
    BY <1>4, <1>6
  <2>2. NoneTwice(open) /\ active \in Members(open) \cup {None}
    BY <1>6 DEF Agree, NoneTwice, Opened, Members
  <2> QED
    BY <1>2, <1>3, <1>4, <2>1, <2>2
<1>7. Gone({k.conn})
  BY <1>1, <1>2, <1>3, <1>4, <1>5, <1>6 DEF Gone, TypeOK
<1> QED
  BY <1>1, <1>4, <1>7, GoneStep

\* What Drop does, and that the list is left without the connections.
LEMMA DropGone ==
    ASSUME TypeOK, NEW cs \in SUBSET Conns, NEW next, Drop(cs, next),
           attempted' = attempted, races \subseteq races',
           calls' \subseteq calls, \A k \in calls \ calls' : k.op = "detach",
           next \in Conns \cup {None},
           Agree /\ races' = {} => next \in (Opened \ cs) \cup {None}
    PROVE Gone(cs)
<1>1. /\ Without(open, cs) \in Seq(Conns)
      /\ Members(Without(open, cs)) = Members(open) \ cs
      /\ NoneTwice(open) => NoneTwice(Without(open, cs))
  BY Filtered DEF TypeOK
<1>2. attempts' = [c \in Conns |-> IF c \in cs THEN 0 ELSE attempts[c]]
  BY DEF Drop
<1>3. /\ attempts' \in [Conns -> Nat]
      /\ \A c \in Conns : attempts'[c] = attempts[c] \/ (c \in cs /\ attempts'[c] = 0)
  BY <1>2 DEF TypeOK
<1>4. Agree => NoneTwice(open)
  BY DEF Agree, NoneTwice
<1>5. Opened = Members(open)
  BY DEF Opened, Members
<1>6. open' = Without(open, cs) /\ active' = next
      /\ data' = [c \in Conns |-> IF c \in cs THEN None ELSE data[c]]
  BY DEF Drop
<1> QED
  BY <1>1, <1>3, <1>4, <1>5, <1>6 DEF Gone

LEMMA DroppedStepped ==
    ASSUME TypeOK, ConnInv, NEW cs \in SUBSET Conns, Dropped(cs)
    PROVE Stepped
<1> DEFINE left == Without(open, cs)
           next == IF active \in cs THEN First(left) ELSE active
<1>1. left \in Seq(Conns) /\ Members(left) = Members(open) \ cs
  BY Filtered DEF TypeOK
<1>2. First(left) \in Members(left) \cup {None} /\ Members(left) \subseteq Conns
  BY <1>1, FirstOf
<1>3. /\ Drop(cs, next)
      /\ UNCHANGED <<attempted, calls, saved, races>>
  BY DEF Dropped
<1> HIDE DEF left
<1>4. next \in Conns \cup {None}
  BY <1>2 DEF TypeOK
<1>5. Agree => next \in (Opened \ cs) \cup {None}
  BY <1>1, <1>2 DEF Agree, Opened, Members
<1> HIDE DEF next
<1>6. Gone(cs)
  BY <1>3, <1>4, <1>5, DropGone
<1> QED
  BY <1>3, <1>6, GoneStep

LEMMA DetachedStepped ==
    ASSUME TypeOK, ConnInv, NEW k \in calls, Detached(k)
    PROVE Stepped
<1> DEFINE left == Without(k.open, {k.conn})
           next == IF active = k.conn THEN First(left) ELSE active
<1>1. k.conn \in Conns /\ k.open \in Seq(Conns) /\ k.op = "detach"
  BY DEF Detached, TypeOK, Sound
<1>2. left \in Seq(Conns) /\ Members(left) = Members(k.open) \ {k.conn}
  BY <1>1, Filtered
<1>3. First(left) \in Members(left) \cup {None} /\ Members(left) \subseteq Conns
  BY <1>2, FirstOf
<1>4. /\ calls' = calls \ {k} /\ UNCHANGED <<attempted, saved>>
      /\ \/ UNCHANGED <<open, active, data, attempts, races>>
         \/ /\ Drop({k.conn}, next)
            /\ races' = IF active = k.conn /\ next \notin Opened \cup {None}
                        THEN races \cup {"detach"} ELSE races
  BY DEF Detached
<1> HIDE DEF left
<1>5. CASE UNCHANGED <<open, active, data, attempts, races>>
  <2>1. data' = [c \in Conns |-> IF c \in {} THEN None ELSE data[c]]
    BY <1>5 DEF TypeOK
  <2>2. Agree => NoneTwice(open) /\ active \in Members(open) \cup {None}
    BY DEF Agree, NoneTwice, Opened, Members
  <2>3. Gone({})
    BY <1>1, <1>4, <1>5, <2>1, <2>2 DEF Gone, TypeOK
  <2> QED
    BY <1>4, <2>3, GoneStep
<1>6. CASE /\ Drop({k.conn}, next)
           /\ races' = IF active = k.conn /\ next \notin Opened \cup {None}
                       THEN races \cup {"detach"} ELSE races
  <2>1. next \in Conns \cup {None}
    BY <1>3 DEF TypeOK
  <2>2. ASSUME Agree, races' = {} PROVE next \in (Opened \ {k.conn}) \cup {None}
    <3>1. CASE active = k.conn
      <4>1. next \in Opened \cup {None}
        BY <1>6, <2>2, <3>1
      <4>2. next # k.conn
        BY <1>1, <1>2, <1>3, <3>1, ConnectionsAssumption
      <4> QED
        BY <4>1, <4>2
    <3>2. CASE active # k.conn
      BY <2>2, <3>2 DEF Agree
    <3> QED
      BY <3>1, <3>2
  <2>3. races \subseteq races'
    BY <1>6
  <2> HIDE DEF next
  <2>4. Gone({k.conn})
    BY <1>1, <1>4, <1>6, <2>1, <2>2, <2>3, DropGone
  <2> QED
    BY <1>1, <1>4, <2>4, GoneStep
<1> QED
  BY <1>4, <1>5, <1>6

LEMMA DroppingsStepped ==
    ASSUME TypeOK, ConnInv,
           \/ \E c \in Conns : HealthFailed(c)
           \/ \E cs \in SUBSET Conns : MetadataInvalidated(cs)
    PROVE Stepped
BY DroppedStepped DEF HealthFailed, MetadataInvalidated
-----------------------------------------------------------------------------
(***************************************************************************)
(* What is loaded of a connection is written.                              *)
(***************************************************************************)
\* Calls other than those of connect and disconnect begin and end.
Loading(c) ==
    /\ UNCHANGED <<open, active, attempts, attempted>>
    /\ \A k \in calls' \ calls : Sound(k) /\ k.op \notin {"connect", "disconnect"}
    /\ \A k \in calls \ calls' : /\ k.op \notin {"connect", "disconnect"}
                                 /\ k.op = "schema" => k.conn = c

Writes(c) ==
    /\ data' \in [Conns -> Entries \cup {None}]
    /\ \A d \in Conns \ {c} : data'[d] = data[d]
    /\ races \subseteq races'
    /\ \/ data[c] = None /\ data'[c] = None
       \/ data[c] = None /\ data'[c] = Entry(c) /\ races' # {}
       \/ /\ data[c] # None
          /\ \E cells \in Cells : data'[c] = [data[c] EXCEPT !.cells = cells]
          /\ Spins(c)'
          /\ data[c].layout \in ByUpdates =>
                 \A n \in Names : "loaded" \in data[c].cells[n] => data'[c].cells[n] # {}

LEMMA WriteStep ==
    ASSUME TypeOK, ConnInv, NEW c \in Conns, Loading(c), Writes(c), UNCHANGED saved
    PROVE Stepped
<1>1. TypeOK'
  BY DEF TypeOK, Loading, Writes, saved
<1>2. Attempts' = Attempts
  BY DEF Loading, Attempts
<1>3. \A d \in Conns : Flying(d, "disconnect") \subseteq Flying(d, "disconnect")'
  BY DEF Loading, Flying
<1>4. ASSUME NEW d \in Conns \ {c} PROVE Changes(d)
  <2>1. data'[d] = data[d] /\ attempts'[d] = attempts[d]
    BY <1>4 DEF Writes, Loading
  <2>2. Flying(d, "schema") \subseteq Flying(d, "schema")'
    BY <1>4 DEF Loading, Flying
  <2>3. Spins(d)'
    BY <2>1, <2>2 DEF ConnInv, Spins
  <2> QED
    BY <1>3, <2>1, <2>3 DEF Changes
<1>5. Changes(c)
  <2>1. attempts'[c] = attempts[c]
    BY DEF Loading
  <2>2. CASE data[c] = None /\ data'[c] = None
    BY <2>1, <2>2 DEF Changes
  <2>3. CASE data[c] = None /\ data'[c] = Entry(c)
    <3>1. Entry(c) # None
      BY EntryOf, EntryFields
    <3> QED
      BY <1>3, <2>1, <2>3, <3>1, EntryOf DEF Changes
  <2>4. CASE /\ data[c] # None
             /\ \E cells \in Cells : data'[c] = [data[c] EXCEPT !.cells = cells]
             /\ Spins(c)'
             /\ data[c].layout \in ByUpdates =>
                    \A n \in Names : "loaded" \in data[c].cells[n] => data'[c].cells[n] # {}
    <3>1. data[c] \in Entries
      BY <2>4, EntryOf
    <3>2. PICK cells \in Cells : data'[c] = [data[c] EXCEPT !.cells = cells]
      BY <2>4
    <3>3. /\ data'[c] \in Entries
          /\ data'[c].connecting = data[c].connecting /\ data'[c].connected = data[c].connected
          /\ data'[c].from = data[c].from /\ data'[c].layout = data[c].layout
      BY <3>1, <3>2, WithCells
    <3>4. data'[c] # None
      BY <3>3, EntryFields
    <3> QED
      BY <1>3, <2>1, <2>4, <3>3, <3>4 DEF Changes
  <2> QED
    BY <2>2, <2>3, <2>4 DEF Writes
<1>6. Aside
  BY <1>2, <1>4, <1>5 DEF Aside, Loading
<1>7. Agrees
  <2> SUFFICES ASSUME Agree, races' = {} PROVE Agree'
    BY DEF Agrees, Writes
  <2>1. \A d \in Conns : data[d] # None <=> data'[d] # None
    <3>1. CASE data[c] = None
      BY <3>1 DEF Writes
    <3>2. CASE data[c] # None
      <4>1. PICK cells \in Cells : data'[c] = [data[c] EXCEPT !.cells = cells]
        BY <3>2 DEF Writes
      <4>2. data'[c] \in Entries
        BY <3>2, <4>1, EntryOf, WithCells
      <4> QED
        BY <3>2, <4>2, EntryFields DEF Writes
    <3> QED
      BY <3>1, <3>2
  <2> QED
    BY <2>1 DEF Agree, Opened, Loading
<1> QED
  BY <1>1, <1>6, <1>7, AsideInv DEF Stepped

\* updateConnectionData, of the map of databases or without it.
LEMMA DatabasesWritten ==
    ASSUME TypeOK, ConnInv, NEW c \in Conns, Flying(c, "schema")' = Flying(c, "schema"),
           \/ \E cells \in Cells : UpdateDatabases(c, cells)
           \/ Update(c, Entry(c))
    PROVE Writes(c)
<1>1. PICK cells \in Cells : Update(c, Entry(c)) \/ UpdateDatabases(c, cells)
  <2>1. NothingLoaded \in Cells
    BY ConnectingFields
  <2> QED
    BY <2>1
<1>2. Entry(c) \in Entries /\ (data[c] # None => Entry(c) = data[c])
  BY EntryOf
<1>3. None \notin Layouts
  BY ConnectionsAssumption
<1> DEFINE e == IF Entry(c).layout = "flat" /\ ~Update(c, Entry(c))
                THEN [Entry(c) EXCEPT !.cells = cells] ELSE Entry(c)
<1>4. Update(c, e)
  BY <1>1 DEF UpdateDatabases
<1>5. e \in Entries /\ \E x \in Cells : e = [Entry(c) EXCEPT !.cells = x]
  <2>1. Entry(c) = [Entry(c) EXCEPT !.cells = Entry(c).cells] /\ Entry(c).cells \in Cells
    BY <1>2, EntryFields DEF Entries
  <2> QED
    BY <1>2, <2>1, WithCells
<1>6. Entry(c).layout # "flat" => e = Entry(c)
  OBVIOUS
<1>7. e.layout = Entry(c).layout
  BY <1>2, WithCells
<1> HIDE DEF e
<1>8. /\ data' = [data EXCEPT ![c] = e] /\ races \subseteq races'
      /\ data[c] = None => races' # {}
  BY <1>4 DEF Update
<1>9. data'[c] = e
  BY <1>8 DEF TypeOK
<1>10. CASE data[c] = None
  <2>1. e = Entry(c)
    BY <1>3, <1>6, <1>10, EntryOf DEF Layouts
  <2> QED
    BY <1>5, <1>8, <1>9, <1>10, <2>1 DEF Writes, TypeOK
<1>11. CASE data[c] # None
  <2>1. CASE e = data[c]
    <3>1. Spins(c)'
      BY <1>9, <2>1 DEF ConnInv, Spins
    <3>2. \A n \in Names : "loaded" \in data[c].cells[n] => data'[c].cells[n] # {}
      BY <1>9, <2>1
    <3> QED
      BY <1>2, <1>5, <1>8, <1>9, <1>11, <3>1, <3>2 DEF Writes, TypeOK
  <2>2. CASE e.layout = "flat"
    <3>1. e.layout \notin ByUpdates \cup {None}
      BY <1>3, <2>2 DEF ByUpdates, Layouts
    <3>2. Spins(c)'
      BY <1>9, <3>1 DEF Spins
    <3> QED
      BY <1>2, <1>5, <1>7, <1>8, <1>9, <1>11, <3>1, <3>2 DEF Writes, TypeOK
  <2> QED
    BY <1>2, <1>6, <1>7, <1>11, <2>1, <2>2
<1> QED
  BY <1>10, <1>11
\* Nothing is written.
LEMMA NothingWritten ==
    ASSUME TypeOK, ConnInv, NEW c \in Conns, Flying(c, "schema") \subseteq Flying(c, "schema")',
           UNCHANGED <<data, races>>
    PROVE Writes(c)
<1>1. CASE data[c] = None
  BY <1>1 DEF Writes, TypeOK
<1>2. CASE data[c] # None
  <2>1. Spins(c)'
    BY DEF ConnInv, Spins
  <2>2. data[c] \in Entries
    BY <1>2, EntryOf
  <2>3. data[c] = [data[c] EXCEPT !.cells = data[c].cells] /\ data[c].cells \in Cells
    BY <2>2, EntryFields DEF Entries
  <2>4. \A n \in Names : "loaded" \in data[c].cells[n] => data[c].cells[n] # {}
    OBVIOUS
  <2> QED
    BY <1>2, <2>1, <2>3, <2>4 DEF Writes, TypeOK
<1> QED
  BY <1>1, <1>2

LEMMA DatabaseCallsStepped ==
    ASSUME TypeOK, ConnInv, NEW c \in Conns,
           \/ \E n \in Names : LoadDatabaseData(c, n) \/ RefreshDatabaseData(c, n)
           \/ \E ns \in SUBSET Names : SetSelectedDatabases(c, ns)
    PROVE Stepped
<1>1. data[c] # None /\ data[c].cells \in Cells
  BY EntryOf, EntryFields
  DEF LoadDatabaseData, RefreshDatabaseData, SetSelectedDatabases, Flat, Connected
<1>2. ASSUME NEW n \in Names, NEW fresh
      PROVE DatabaseCall(c, n, fresh).op = "database" /\ Sound(DatabaseCall(c, n, fresh))
  BY <1>1 DEF DatabaseCall, Sound
<1>3. ASSUME \E cells \in Cells : UpdateDatabases(c, cells),
             NEW ns \in SUBSET Names, NEW fresh,
             calls' = calls \cup {DatabaseCall(c, n, fresh) : n \in ns},
             UNCHANGED <<open, active, attempts, attempted, saved>>
      PROVE Stepped
  <2>1. Loading(c) /\ Flying(c, "schema")' = Flying(c, "schema")
    BY <1>2, <1>3 DEF Loading, Flying
  <2>2. Writes(c)
    BY <1>3, <2>1, DatabasesWritten
  <2> QED
    BY <1>3, <2>1, <2>2, WriteStep
<1>4. ASSUME NEW n \in Names, LoadDatabaseData(c, n) PROVE Stepped
  <2>1. [data[c].cells EXCEPT ![n] = {"loading"}] \in Cells
    BY <1>1 DEF Cells
  <2>2. calls' = calls \cup {DatabaseCall(c, m, TRUE) : m \in {n}}
    BY <1>4 DEF LoadDatabaseData, Call
  <2> QED
    BY <1>3, <1>4, <2>1, <2>2 DEF LoadDatabaseData
<1>5. ASSUME NEW n \in Names, RefreshDatabaseData(c, n) PROVE Stepped
  <2>1. [data[c].cells EXCEPT ![n] = @ \cup {"loading"}] \in Cells
    BY <1>1 DEF Cells
  <2>2. calls' = calls \cup {DatabaseCall(c, m, FALSE) : m \in {n}}
    BY <1>5 DEF RefreshDatabaseData, Call
  <2> QED
    BY <1>3, <1>5, <2>1, <2>2 DEF RefreshDatabaseData
<1>6. ASSUME NEW ns \in SUBSET Names, SetSelectedDatabases(c, ns) PROVE Stepped
  <2> DEFINE missing == {n \in ns : data[c].cells[n] = {}}
  <2>1. [n \in Names |-> IF n \in ns THEN data[c].cells[n] ELSE {}] \in Cells
    BY <1>1 DEF Cells
  <2>2. \A last \in missing : [data[c].cells EXCEPT ![last] = {"loading"}] \in Cells
    BY <1>1 DEF Cells
  <2>3. \E cells \in Cells : UpdateDatabases(c, cells)
    BY <1>6, <2>1, <2>2 DEF SetSelectedDatabases
  <2>4. calls' = calls \cup {DatabaseCall(c, n, TRUE) : n \in missing}
    BY <1>6 DEF SetSelectedDatabases
  <2>5. UNCHANGED <<open, active, attempts, attempted, saved>> /\ missing \in SUBSET Names
    BY <1>6 DEF SetSelectedDatabases
  <2> HIDE DEF missing
  <2> QED
    BY <1>3, <2>3, <2>4, <2>5
<1> QED
  BY <1>4, <1>5, <1>6

LEMMA DatabaseAnswersStepped ==
    ASSUME TypeOK, ConnInv, NEW k \in calls,
           DatabaseAnswered(k) \/ SelectionRefreshed(k) \/ TablesRefreshed(k)
    PROVE Stepped
<1>1. Sound(k) /\ k.conn \in Conns /\ k.op \in {"database", "available", "tables"}
  BY DEF TypeOK, Sound, DatabaseAnswered, SelectionRefreshed, TablesRefreshed
<1>2. calls' = calls \ {k} /\ UNCHANGED <<open, active, attempts, attempted, saved>>
  BY DEF DatabaseAnswered, SelectionRefreshed, TablesRefreshed
<1>3. Loading(k.conn) /\ Flying(k.conn, "schema")' = Flying(k.conn, "schema")
  BY <1>1, <1>2 DEF Loading, Flying
<1>4. CASE DatabaseAnswered(k)
  <2>1. k.known \in Cells /\ k.name \in Names
    BY <1>1, <1>4 DEF Sound, DatabaseAnswered
  <2>2. \A failed \in BOOLEAN :
          [k.known EXCEPT ![k.name] =
              IF failed /\ ~k.fresh THEN @ \ {"loading"} ELSE {"loaded"}] \in Cells
    BY <2>1 DEF Cells
  <2>3. \E cells \in Cells : UpdateDatabases(k.conn, cells)
    BY <1>4, <2>2 DEF DatabaseAnswered
  <2> QED
    BY <1>1, <1>2, <1>3, <2>3, DatabasesWritten, WriteStep
<1>5. CASE SelectionRefreshed(k)
  <2>1. k.known \in Cells
    BY <1>1, <1>5 DEF Sound, SelectionRefreshed
  <2>2. \A ns \in SUBSET Names : [n \in Names |-> IF n \in ns THEN k.known[n] ELSE {}] \in Cells
    BY <2>1 DEF Cells
  <2>3. CASE UNCHANGED <<data, races>>
    BY <1>1, <1>2, <1>3, <2>3, NothingWritten, WriteStep
  <2>4. CASE \E cells \in Cells : UpdateDatabases(k.conn, cells)
    BY <1>1, <1>2, <1>3, <2>4, DatabasesWritten, WriteStep
  <2> QED
    BY <1>5, <2>2, <2>3, <2>4 DEF SelectionRefreshed
<1>6. CASE TablesRefreshed(k)
  BY <1>1, <1>2, <1>3, <1>6, DatabasesWritten, WriteStep DEF TablesRefreshed
<1> QED
  BY <1>4, <1>5, <1>6

\* updateSchemaData and updateNestedDatabaseData: a spinner that they write, or leave, is
\* that of a call, and they end no call but those they answer.
LEMMA SchemasWritten ==
    ASSUME TypeOK, ConnInv, NEW c \in Conns, NEW layout \in ByUpdates, NEW cells \in Cells,
           UpdateSchemas(c, layout, cells), Loading(c),
           \A k \in calls \ calls' : k.op = "schema" => k.layout = layout,
           data[c] # None => \A n \in Names :
               /\ "loaded" \in data[c].cells[n] => cells[n] # {}
               /\ "loading" \in cells[n] =>
                    \/ \E k \in Flying(c, "schema")' : k.name = n /\ k.layout = layout
                    \/ /\ "loading" \in data[c].cells[n]
                       /\ \A k \in calls \ calls' : k.op = "schema" => k.name # n
    PROVE Writes(c)
<1>1. CASE data[c] = None
  BY <1>1 DEF UpdateSchemas, Writes, TypeOK
<1>2. CASE data[c] # None
  <2> DEFINE matches == \/ data[c].layout = layout
                        \/ data[c].layout = None /\ layout = "schemas"
  <2>1. data[c] \in Entries /\ data \in [Conns -> Entries \cup {None}] /\ races' = races
    BY <1>2, EntryOf DEF TypeOK, UpdateSchemas
  <2>2. CASE matches
    <3>1. data' = [data EXCEPT ![c].cells = cells]
      BY <1>2, <2>2 DEF UpdateSchemas
    <3>2. /\ data'[c] = [data[c] EXCEPT !.cells = cells]
          /\ \A d \in Conns \ {c} : data'[d] = data[d]
      BY <2>1, <3>1
    <3>3. data'[c].cells = cells /\ data'[c].layout = data[c].layout /\ data'[c] \in Entries
      BY <2>1, <3>2, WithCells
    <3>4. data' \in [Conns -> Entries \cup {None}]
      BY <2>1, <3>1, <3>3
    <3>5. Spins(c)'
      <4> SUFFICES ASSUME NEW n \in Names, "loading" \in cells[n],
                          data[c].layout \in ByUpdates \cup {None}
                   PROVE \E k \in Flying(c, "schema")' : k.name = n /\ Belongs(k, data'[c])
        BY <3>3 DEF Spins
      <4>1. CASE \E k \in Flying(c, "schema")' : k.name = n /\ k.layout = layout
        BY <2>2, <3>3, <4>1 DEF Belongs
      <4>2. CASE /\ "loading" \in data[c].cells[n]
                 /\ \A k \in calls \ calls' : k.op = "schema" => k.name # n
        <5>1. PICK k \in Flying(c, "schema") : k.name = n /\ Belongs(k, data[c])
          BY <1>2, <4>2 DEF ConnInv, Spins
        <5>2. k \in Flying(c, "schema")'
          BY <4>2, <5>1 DEF Flying
        <5> QED
          BY <3>3, <5>1, <5>2 DEF Belongs
      <4> QED
        BY <1>2, <4>1, <4>2
    <3> QED
      BY <1>2, <2>1, <3>2, <3>3, <3>4, <3>5 DEF Writes
  <2>3. CASE ~matches
    <3>1. data' = data
      BY <2>3 DEF UpdateSchemas
    <3>2. \A k \in Flying(c, "schema") : Belongs(k, data[c]) => k \in Flying(c, "schema")'
      BY <2>3 DEF Flying, Belongs
    <3>3. Spins(c)'
      BY <3>1, <3>2 DEF ConnInv, Spins
    <3>4. data[c] = [data[c] EXCEPT !.cells = data[c].cells] /\ data[c].cells \in Cells
      BY <2>1, EntryFields DEF Entries
    <3>5. \A n \in Names : "loaded" \in data[c].cells[n] => data[c].cells[n] # {}
      OBVIOUS
    <3> QED
      BY <1>2, <2>1, <3>1, <3>3, <3>4, <3>5 DEF Writes
  <2> QED
    BY <2>2, <2>3
<1> QED
  BY <1>1, <1>2
\* Schemas begin to load.
LEMMA SchemaCallsStepped ==
    ASSUME TypeOK, ConnInv, NEW c \in Conns, NEW n \in Names,
           \/ LoadSchemaData(c, n) \/ LoadNestedSchemaData(c, n)
           \/ RefreshSchemaData(c, n) \/ RefreshNestedSchemaData(c, n)
    PROVE Stepped
<1>1. data[c] # None /\ data[c].layout \in ByUpdates
  BY DEF LoadSchemaData, LoadNestedSchemaData, RefreshSchemaData, RefreshNestedSchemaData,
         Shown, Connected, ByUpdates
<1>2. data[c].cells \in Cells
  BY <1>1, EntryOf, EntryFields
<1>3. ASSUME NEW fresh, NEW cell \in SUBSET {"loading", "loaded"},
             "loaded" \in data[c].cells[n] => cell # {},
             UpdateSchemas(c, data[c].layout, [data[c].cells EXCEPT ![n] = cell]),
             calls' = calls \cup {SchemaCall(c, n, fresh)},
             UNCHANGED <<open, active, attempts, attempted, saved>>
      PROVE Stepped
  <2> DEFINE call == SchemaCall(c, n, fresh)
             cells == [data[c].cells EXCEPT ![n] = cell]
  <2>1. /\ call.op = "schema" /\ call.conn = c /\ call.name = n /\ call.layout = data[c].layout
        /\ Sound(call)
    BY <1>1 DEF SchemaCall, Sound
  <2>2. call \in Flying(c, "schema")' /\ Loading(c) /\ calls \subseteq calls'
    BY <1>3, <2>1 DEF Flying, Loading
  <2>3. cells \in Cells /\ cells[n] = cell /\ \A m \in Names \ {n} : cells[m] = data[c].cells[m]
    BY <1>2 DEF Cells
  <2>4. UpdateSchemas(c, data[c].layout, cells)
    BY <1>3
  <2> HIDE DEF call, cells
  <2>5. \A m \in Names :
          /\ "loaded" \in data[c].cells[m] => cells[m] # {}
          /\ "loading" \in cells[m] =>
               \/ \E k \in Flying(c, "schema")' : k.name = m /\ k.layout = data[c].layout
               \/ /\ "loading" \in data[c].cells[m]
                  /\ \A k \in calls \ calls' : k.op = "schema" => k.name # m
    BY <1>3, <2>1, <2>2, <2>3
  <2>6. Writes(c)
    BY <1>1, <2>2, <2>3, <2>4, <2>5, SchemasWritten
  <2> QED
    BY <1>3, <2>2, <2>6, WriteStep
<1>4. CASE StartLoad(c, n)
  BY <1>3, <1>4 DEF StartLoad, Call
<1>5. CASE StartRefresh(c, n)
  <2>1. data[c].cells[n] \cup {"loading"} \in SUBSET {"loading", "loaded"}
    BY <1>2 DEF Cells
  <2>2. [data[c].cells EXCEPT ![n] = @ \cup {"loading"}]
          = [data[c].cells EXCEPT ![n] = data[c].cells[n] \cup {"loading"}]
    BY <1>2 DEF Cells
  <2> QED
    BY <1>3, <1>5, <2>1, <2>2 DEF StartRefresh, Call
<1> QED
  BY <1>4, <1>5
  DEF LoadSchemaData, LoadNestedSchemaData, RefreshSchemaData, RefreshNestedSchemaData

LEMMA SchemaAnsweredStepped ==
    ASSUME TypeOK, ConnInv, NEW k \in calls, SchemaAnswered(k)
    PROVE Stepped
<1> DEFINE c == k.conn
           before == Entry(c).cells
<1>1. /\ k.op = "schema" /\ c \in Conns /\ k.name \in Names /\ k.layout \in ByUpdates
      /\ calls' = calls \ {k} /\ UNCHANGED <<open, active, attempts, attempted, saved>>
  BY DEF SchemaAnswered, TypeOK, Sound
<1>2. PICK failed \in BOOLEAN :
        UpdateSchemas(c, k.layout,
            [before EXCEPT
                ![k.name] = IF failed /\ ~k.fresh THEN @ \ {"loading"} ELSE {"loaded"}])
  BY DEF SchemaAnswered
<1> DEFINE cell == IF failed /\ ~k.fresh THEN before[k.name] \ {"loading"} ELSE {"loaded"}
           cells == [before EXCEPT ![k.name] = cell]
<1>3. before \in Cells /\ (data[c] # None => before = data[c].cells)
  BY <1>1, EntryOf, EntryFields
<1>4. cells \in Cells /\ UpdateSchemas(c, k.layout, cells)
  BY <1>1, <1>2, <1>3 DEF Cells
<1>5. /\ cells[k.name] = cell /\ \A m \in Names \ {k.name} : cells[m] = before[m]
      /\ "loading" \notin cell /\ ("loaded" \in before[k.name] => cell # {})
  BY <1>1, <1>3 DEF Cells
<1>6. Loading(c)
  BY <1>1 DEF Loading
<1> HIDE DEF cells, cell, before
<1>7. data[c] # None => \A n \in Names :
        /\ "loaded" \in data[c].cells[n] => cells[n] # {}
        /\ "loading" \in cells[n] =>
             \/ \E q \in Flying(c, "schema")' : q.name = n /\ q.layout = k.layout
             \/ /\ "loading" \in data[c].cells[n]
                /\ \A q \in calls \ calls' : q.op = "schema" => q.name # n
  BY <1>1, <1>3, <1>5
<1>8. Writes(c)
  BY <1>1, <1>4, <1>6, <1>7, SchemasWritten
<1> QED
  BY <1>1, <1>6, <1>8, WriteStep

LEMMA SchemasSelectedStepped ==
    ASSUME TypeOK, ConnInv, NEW k \in calls, SchemasSelected(k)
    PROVE Stepped
<1> DEFINE c == k.conn
           before == Entry(c).cells
           missing == {n \in k.names : k.known[n] = {}}
           cells == [n \in Names |-> IF n \in missing THEN {"loading"} ELSE before[n]]
           call(n) == [op |-> "schema", conn |-> c, name |-> n, fresh |-> TRUE,
                       layout |-> k.layout]
<1>1. /\ k.op = "select" /\ c \in Conns /\ missing \subseteq Names /\ k.layout \in ByUpdates
      /\ UNCHANGED <<open, active, attempts, attempted, saved>>
  BY DEF SchemasSelected, TypeOK, Sound
<1>2. calls' = (calls \ {k}) \cup {call(n) : n \in missing}
  BY DEF SchemasSelected
<1>3. \A n \in Names : /\ call(n).op = "schema" /\ call(n).conn = c /\ call(n).name = n
                       /\ call(n).layout = k.layout /\ Sound(call(n))
  BY <1>1 DEF Sound
<1>4. before \in Cells /\ (data[c] # None => before = data[c].cells)
  BY <1>1, EntryOf, EntryFields
<1>5. cells \in Cells
  BY <1>4 DEF Cells
<1>6. \/ UpdateSchemas(c, k.layout, cells)
      \/ data[c] = None /\ Update(c, Entry(c))
  BY DEF SchemasSelected, Selected
<1>7. \A n \in Names : cells[n] = IF n \in missing THEN {"loading"} ELSE before[n]
  OBVIOUS
<1> HIDE DEF cells, before, missing, call
<1>8. Loading(c)
  BY <1>1, <1>2, <1>3 DEF Loading
<1>9. CASE UpdateSchemas(c, k.layout, cells)
  <2>1. \A n \in missing : call(n) \in Flying(c, "schema")'
    BY <1>1, <1>2, <1>3 DEF Flying
  <2>2. data[c] # None => \A n \in Names :
          /\ "loaded" \in data[c].cells[n] => cells[n] # {}
          /\ "loading" \in cells[n] =>
               \/ \E q \in Flying(c, "schema")' : q.name = n /\ q.layout = k.layout
               \/ /\ "loading" \in data[c].cells[n]
                  /\ \A q \in calls \ calls' : q.op = "schema" => q.name # n
    BY <1>1, <1>2, <1>3, <1>4, <1>7, <2>1
  <2>3. \A q \in calls \ calls' : q.op # "schema"
    BY <1>1, <1>2
  <2>4. Writes(c)
    BY <1>1, <1>5, <1>8, <1>9, <2>2, <2>3, SchemasWritten
  <2> QED
    BY <1>1, <1>8, <2>4, WriteStep
<1>10. CASE data[c] = None /\ Update(c, Entry(c))
  <2>1. Entry(c) \in Entries
    BY <1>1, EntryOf
  <2>2. Writes(c)
    BY <1>1, <1>10, <2>1 DEF Update, Writes, TypeOK
  <2> QED
    BY <1>1, <1>8, <2>2, WriteStep
<1> QED
  BY <1>6, <1>9, <1>10
-----------------------------------------------------------------------------
(***************************************************************************)
(* connect.                                                                *)
(***************************************************************************)
\* An attempt begins, and is in charge.
LEMMA BeginStepped ==
    ASSUME TypeOK, ConnInv, NEW c \in Conns, NEW activate \in BOOLEAN,
           NEW seen \in Seq(Conns), NEW previous \in Conns \cup {None},
           Begin(c, activate, seen, previous), races \subseteq races',
           races' = {} => (c \in Opened <=> c \in Members(seen))
    PROVE Stepped
<1> DEFINE call == [op |-> "connect", conn |-> c, attempt |-> attempted + 1, tested |-> FALSE,
                    activate |-> activate, previous |-> previous]
<1>1. /\ attempted \in Nat /\ attempted + 1 \in Nat \ {0} /\ attempted + 1 # attempted
      /\ \A d \in Conns : attempts[d] \in Nat /\ attempts[d] <= attempted
  BY DEF TypeOK, ConnInv, Numbered
<1>2. /\ call.op = "connect" /\ call.conn = c /\ call.attempt = attempted + 1 /\ Sound(call)
  BY <1>1 DEF Sound
<1>3. /\ calls' = calls \cup {call} /\ attempted' = attempted + 1
      /\ attempts' = [attempts EXCEPT ![c] = attempted + 1]
      /\ open' = IF \E i \in DOMAIN seen : seen[i] = c THEN open ELSE Append(open, c)
      /\ data' = [data EXCEPT ![c] = Connecting]
      /\ active' = IF activate THEN c ELSE active
      /\ UNCHANGED saved
  BY DEF Begin, Call
<1> HIDE DEF call
<1>4. /\ attempts'[c] = attempted + 1 /\ data'[c] = Connecting
      /\ \A d \in Conns \ {c} : attempts'[d] = attempts[d] /\ data'[d] = data[d]
      /\ attempts' \in [Conns -> Nat] /\ data' \in [Conns -> Entries \cup {None}]
  BY <1>1, <1>3, ConnectingFields DEF TypeOK
<1>5. Connecting # None
  BY ConnectingFields, EntryFields
<1>6. TypeOK'
  <2>1. open' \in Seq(Conns)
    BY <1>3 DEF TypeOK
  <2>2. \A k \in calls' : Sound(k)
    BY <1>2, <1>3 DEF TypeOK
  <2> QED
    BY <1>1, <1>3, <1>4, <2>1, <2>2 DEF TypeOK, saved
<1>7. \A k \in Attempts : k.attempt \in Nat /\ k.attempt <= attempted
  BY DEF Attempts, TypeOK, Sound, ConnInv, Numbered
<1>8. Attempts' = Attempts \cup {call}
  BY <1>2, <1>3 DEF Attempts
<1>9. Numbered'
  <2>1. \A k \in Attempts' : k.attempt <= attempted'
    BY <1>1, <1>2, <1>3, <1>7, <1>8
  <2>2. \A d \in Conns : attempts'[d] <= attempted'
    BY <1>1, <1>3, <1>4
  <2>3. \A k, q \in Attempts' : k.attempt = q.attempt => k = q
    <3>1. \A k \in Attempts : k.attempt # attempted + 1
      BY <1>1, <1>7
    <3> QED
      BY <1>2, <1>8, <3>1 DEF ConnInv, Numbered
  <2> QED
    BY <2>1, <2>2, <2>3 DEF Numbered
<1>10. ASSUME NEW d \in Conns \ {c}
       PROVE /\ Flying(d, "connect")' = Flying(d, "connect")
             /\ Flying(d, "disconnect")' = Flying(d, "disconnect")
             /\ Flying(d, "schema")' = Flying(d, "schema")
  BY <1>2, <1>3, <1>10 DEF Flying
<1>11. LatestAttempt'
  <2> SUFFICES ASSUME NEW d \in Conns, data'[d] # None, Flying(d, "disconnect")' = {}
               PROVE /\ data'[d].connected => data'[d].from = attempts'[d]
                     /\ data'[d].connecting =>
                            (\E k \in Flying(d, "connect") : IsCurrentAttempt(k))'
    BY DEF LatestAttempt
  <2>1. CASE d = c
    <3>1. \E k \in calls' : k.op = "connect" /\ k.conn = d /\ attempts'[d] = k.attempt
      BY <1>2, <1>3, <1>4, <2>1
    <3>2. (\E k \in Flying(d, "connect") : IsCurrentAttempt(k))'
      BY <3>1 DEF Flying, IsCurrentAttempt
    <3> QED
      BY <1>4, <2>1, <3>2, ConnectingFields
  <2>2. CASE d # c
    <3>1. /\ data[d].connected => data[d].from = attempts[d]
          /\ data[d].connecting => \E k \in Flying(d, "connect") : IsCurrentAttempt(k)
      BY <1>4, <1>10, <2>2 DEF ConnInv, LatestAttempt
    <3>2. ASSUME NEW k \in Flying(d, "connect"), IsCurrentAttempt(k)
          PROVE k \in Flying(d, "connect")' /\ IsCurrentAttempt(k)'
      BY <1>4, <1>10, <2>2, <3>2 DEF IsCurrentAttempt, Flying
    <3> QED
      BY <1>4, <2>2, <3>1, <3>2
  <2> QED
    BY <2>1, <2>2
<1>12. ASSUME NEW d \in Conns PROVE Unfinished(d)' /\ Spins(d)'
  <2>1. CASE d = c
    BY <1>4, <2>1, ConnectingFields DEF Unfinished, Spins, NothingLoaded
  <2>2. CASE d # c
    <3>1. Current(d)' => Current(d)
      BY <1>4, <1>10, <2>2 DEF Current, IsCurrentAttempt, Flying
    <3> QED
      BY <1>4, <1>10, <2>2, <3>1 DEF Unfinished, Spins, ConnInv
  <2> QED
    BY <2>1, <2>2
<1>13. Survives
  <2> SUFFICES ASSUME NEW d \in Conns, Same(d)
               PROVE \A n \in Names : "loaded" \in data[d].cells[n] => data'[d].cells[n] # {}
    BY DEF Survives
  <2>1. CASE d = c
    BY <1>4, <2>1, ConnectingFields DEF Same, Connected, ConnInv, Unfinished
  <2>2. CASE d # c
    BY <1>4, <2>2
  <2> QED
    BY <2>1, <2>2
<1>14. Agrees
  <2> SUFFICES ASSUME Agree, races' = {} PROVE Agree'
    BY DEF Agrees
  <2>1. c \in Opened <=> c \in Members(seen)
    OBVIOUS
  <2>2. open' = IF c \in Opened THEN open ELSE Append(open, c)
    BY <1>3, <2>1 DEF Members
  <2>3. Opened' = Opened \cup {c} /\ NoneTwice(open')
    <3>1. CASE c \in Opened
      BY <2>2, <3>1 DEF Opened, Agree, NoneTwice
    <3>2. CASE c \notin Opened
      <4>1. open \in Seq(Conns) /\ NoneTwice(open)
        BY DEF TypeOK, Agree, NoneTwice
      <4>2. open' = Append(open, c)
        BY <2>2, <3>2
      <4>3. Members(open') = Members(open) \cup {c} /\ NoneTwice(open')
        BY <3>2, <4>1, <4>2, Appended DEF Opened, Members
      <4>4. Opened = Members(open) /\ Opened' = Members(open')
        BY DEF Opened, Members
      <4> QED
        BY <4>3, <4>4
    <3> QED
      BY <3>1, <3>2
  <2>4. active' \in Opened' \cup {None}
    BY <1>3, <2>3 DEF Agree
  <2>5. \A d \in Conns : d \in Opened' <=> data'[d] # None
    BY <1>4, <1>5, <2>3 DEF Agree
  <2> QED
    BY <2>3, <2>4, <2>5 DEF Agree, NoneTwice
<1> QED
  BY <1>6, <1>9, <1>11, <1>12, <1>13, <1>14 DEF Stepped, ConnInv

LEMMA ConnectStepped ==
    ASSUME TypeOK, ConnInv, NEW c \in Conns, Connect(c) \/ Restore(c)
    PROVE Stepped
<1>1. CASE Connect(c)
  <2>1. Begin(c, TRUE, open, active) /\ races' = races
    BY <1>1 DEF Connect
  <2>2. open \in Seq(Conns) /\ active \in Conns \cup {None} /\ Opened = Members(open)
    BY DEF TypeOK, Opened, Members
  <2> QED
    BY <2>1, <2>2, BeginStepped
<1>2. CASE Restore(c)
  <2>1. PICK activate \in BOOLEAN : Begin(c, activate, <<>>, None)
    BY <1>2 DEF Restore
  <2>2. races' = IF c \in Opened THEN races \cup {"restore"} ELSE races
    BY <1>2 DEF Restore
  <2>3. <<>> \in Seq(Conns) /\ Members(<<>>) = {}
    BY DEF Members
  <2>4. races \subseteq races' /\ (races' = {} => (c \in Opened <=> c \in Members(<<>>)))
    BY <2>2, <2>3
  <2> QED
    BY <2>1, <2>3, <2>4, BeginStepped
<1> QED
  BY <1>1, <1>2
\* What an attempt that ends, or goes on, leaves of the connections.
LEMMA AttemptEnds ==
    ASSUME TypeOK, ConnInv, NEW k \in Attempts,
           calls' = calls \ {k} \/ calls' = (calls \ {k}) \cup {[k EXCEPT !.tested = TRUE]},
           UNCHANGED attempts,
           \A d \in Conns : data'[d] \in {data[d], None, Entry(d)}
    PROVE /\ \A q \in calls' : Sound(q)
          /\ \A d \in Conns : /\ Flying(d, "schema")' = Flying(d, "schema")
                              /\ Flying(d, "disconnect")' = Flying(d, "disconnect")
                              /\ Changes(d)
          /\ \A q \in Attempts' : \E p \in Attempts : p.conn = q.conn /\ p.attempt = q.attempt
          /\ \A p, q \in Attempts' : p.attempt = q.attempt => p = q
          /\ \A q \in Attempts \ {k} : q \in Attempts'
<1> DEFINE next == [k EXCEPT !.tested = TRUE]
<1>1. Sound(k) /\ k.op = "connect" /\ k.conn \in Conns
  BY DEF TypeOK, Attempts, Sound
<1>2. /\ next.op = "connect" /\ next.conn = k.conn /\ next.attempt = k.attempt /\ Sound(next)
  BY <1>1 DEF Sound
<1> HIDE DEF next
<1>3. calls' = calls \ {k} \/ calls' = (calls \ {k}) \cup {next}
  BY DEF next
<1>4. \A q \in calls' : Sound(q)
  BY <1>2, <1>3 DEF TypeOK
<1>5. ASSUME NEW d \in Conns
      PROVE /\ Flying(d, "schema")' = Flying(d, "schema")
            /\ Flying(d, "disconnect")' = Flying(d, "disconnect")
  BY <1>1, <1>2, <1>3 DEF Flying
<1>6. ASSUME NEW d \in Conns PROVE Changes(d)
  <2>1. data'[d] \in {data[d], None, Entry(d)} /\ attempts'[d] = attempts[d]
    OBVIOUS
  <2>2. CASE data'[d] = None
    BY <2>1, <2>2 DEF Changes
  <2>3. CASE data'[d] # None /\ data[d] = None
    BY <1>5, <2>1, <2>3, EntryOf DEF Changes
  <2>4. CASE data'[d] # None /\ data[d] # None
    <3>1. data'[d] = data[d]
      BY <2>1, <2>4, EntryOf
    <3>2. Spins(d)'
      BY <1>5, <3>1 DEF Spins, ConnInv
    <3> QED
      BY <1>5, <2>1, <2>4, <3>1, <3>2 DEF Changes
  <2> QED
    BY <2>2, <2>3, <2>4
<1>7. Attempts' = Attempts \ {k} \/ Attempts' = (Attempts \ {k}) \cup {next}
  BY <1>2, <1>3 DEF Attempts
<1>8. \A p, q \in Attempts' : p.attempt = q.attempt => p = q
  BY <1>2, <1>7 DEF ConnInv, Numbered
<1>9. \A q \in Attempts' : \E p \in Attempts : p.conn = q.conn /\ p.attempt = q.attempt
  BY <1>2, <1>7
<1> QED
  BY <1>4, <1>5, <1>6, <1>7, <1>8, <1>9

LEMMA TestedStepped ==
    ASSUME TypeOK, ConnInv, NEW k \in calls, Tested(k)
    PROVE Stepped
<1> DEFINE c == k.conn
<1>1. k \in Attempts /\ c \in Conns
  BY DEF Tested, Attempts, TypeOK, Sound
<1>2. UNCHANGED <<open, active, attempts, attempted, saved>>
  BY DEF Tested
<1>3. Entry(c) \in Entries /\ Entry(c) # None
  BY <1>1, EntryOf, EntryFields
<1>4. CASE IsCurrentAttempt(k)
  <2> DEFINE next == [k EXCEPT !.tested = TRUE]
  <2>1. calls' = (calls \ {k}) \cup {next} /\ Update(c, Entry(c))
    BY <1>4 DEF Tested
  <2>2. /\ data' = [data EXCEPT ![c] = Entry(c)] /\ races \subseteq races'
        /\ data[c] = None => races' # {}
    BY <2>1 DEF Update
  <2>3. /\ data' \in [Conns -> Entries \cup {None}]
        /\ \A d \in Conns : data'[d] \in {data[d], Entry(d)}
        /\ \A d \in Conns : data[d] # None => data'[d] = data[d]
        /\ \A d \in Conns \ {c} : data'[d] = data[d]
    BY <1>1, <1>3, <2>2, EntryOf DEF TypeOK
  <2>4. /\ (\A q \in calls' : Sound(q)) /\ (\A d \in Conns : Changes(d))
        /\ \A q \in Attempts' : \E p \in Attempts : p.conn = q.conn /\ p.attempt = q.attempt
        /\ \A p, q \in Attempts' : p.attempt = q.attempt => p = q
        /\ \A q \in Attempts \ {k} : q \in Attempts'
    BY <1>1, <1>2, <2>1, <2>3, AttemptEnds
  <2>5. TypeOK'
    BY <1>2, <2>3, <2>4 DEF TypeOK, saved
  <2>6. next \in Attempts' /\ next.conn = k.conn /\ next.attempt = k.attempt
    BY <1>1, <2>1 DEF Attempts, TypeOK, Sound
  <2>7. Carried
    BY <2>4, <2>6 DEF Carried
  <2>8. ConnInv' /\ Survives
    BY <1>2, <2>4, <2>5, <2>7, PassingInv DEF Passing
  <2>9. Agrees
    BY <1>2, <1>3, <2>2, <2>3 DEF Agrees, Agree, Opened
  <2> QED
    BY <2>5, <2>8, <2>9 DEF Stepped
<1>5. CASE ~IsCurrentAttempt(k)
  <2>1. calls' = calls \ {k} /\ UNCHANGED <<data, races>>
    BY <1>5 DEF Tested
  <2>2. /\ (\A q \in calls' : Sound(q)) /\ (\A d \in Conns : Changes(d))
        /\ \A q \in Attempts' : \E p \in Attempts : p.conn = q.conn /\ p.attempt = q.attempt
        /\ \A p, q \in Attempts' : p.attempt = q.attempt => p = q
        /\ \A q \in Attempts \ {k} : q \in Attempts'
    BY <1>1, <1>2, <2>1, AttemptEnds
  <2>3. TypeOK'
    BY <1>2, <2>1, <2>2 DEF TypeOK, saved
  <2>4. Carried
    BY <1>5, <2>2 DEF Carried
  <2>5. ConnInv' /\ Survives
    BY <1>2, <2>2, <2>3, <2>4, PassingInv DEF Passing
  <2>6. Agrees
    BY <1>2, <2>1 DEF Agrees, Agree, Opened
  <2> QED
    BY <2>3, <2>5, <2>6 DEF Stepped
<1> QED
  BY <1>4, <1>5

\* An attempt fails: the one in charge takes its connection away.
LEMMA FailedStepped ==
    ASSUME TypeOK, ConnInv, NEW k \in calls, Failed(k)
    PROVE Stepped
<1> DEFINE c == k.conn
           left == Without(open, {c})
<1>1. k \in Attempts /\ c \in Conns /\ k.previous \in Conns \cup {None}
  BY DEF Failed, Attempts, TypeOK, Sound
<1>2. calls' = calls \ {k} /\ UNCHANGED <<attempts, attempted, saved>>
  BY DEF Failed
<1>3. /\ left \in Seq(Conns) /\ Members(left) = Members(open) \ {c}
      /\ NoneTwice(open) => NoneTwice(left)
  BY <1>1, Filtered DEF TypeOK
<1>4. Opened = Members(open) /\ (Agree => NoneTwice(open))
  BY DEF Opened, Members, Agree, NoneTwice
<1>5. Opened' = Members(open')
  BY DEF Opened, Members
<1>6. \/ /\ IsCurrentAttempt(k) /\ open' = left /\ data' = [data EXCEPT ![c] = None]
         /\ active' = IF k.activate /\ active = c THEN k.previous ELSE active
         /\ races' = IF active' \in Opened' \cup {None} THEN races ELSE races \cup {"previous"}
      \/ /\ ~IsCurrentAttempt(k) /\ UNCHANGED <<active, data>>
         /\ \/ UNCHANGED <<open, races>>
            \/ /\ open' = left
               /\ races' = IF c \in Opened THEN races \cup {"failure"} ELSE races
  BY DEF Failed, Fail, Opened
<1> HIDE DEF left
<1>7. /\ \A d \in Conns : data'[d] \in {data[d], None}
      /\ \A d \in Conns \ {c} : data'[d] = data[d]
      /\ data' \in [Conns -> Entries \cup {None}]
      /\ IsCurrentAttempt(k) => data'[c] = None
  BY <1>1, <1>6 DEF TypeOK
<1>8. /\ (\A q \in calls' : Sound(q)) /\ (\A d \in Conns : Changes(d))
      /\ \A q \in Attempts' : \E p \in Attempts : p.conn = q.conn /\ p.attempt = q.attempt
      /\ \A p, q \in Attempts' : p.attempt = q.attempt => p = q
      /\ \A q \in Attempts \ {k} : q \in Attempts'
  BY <1>1, <1>2, <1>7, AttemptEnds
<1>9. TypeOK'
  BY <1>1, <1>2, <1>3, <1>6, <1>7, <1>8 DEF TypeOK, saved
<1>10. Carried
  BY <1>7, <1>8 DEF Carried
<1>11. ConnInv' /\ Survives
  BY <1>2, <1>8, <1>9, <1>10, PassingInv DEF Passing
<1>12. Agrees
  <2> SUFFICES ASSUME Agree, races' = {} PROVE Agree'
    BY <1>6 DEF Agrees
  <2>1. CASE IsCurrentAttempt(k)
    <3>1. active' \in Opened' \cup {None} /\ Opened' = Opened \ {c} /\ NoneTwice(open')
      BY <1>3, <1>4, <1>5, <1>6, <2>1
    <3>2. \A d \in Conns : d \in Opened' <=> data'[d] # None
      BY <1>7, <2>1, <3>1 DEF Agree
    <3> QED
      BY <3>1, <3>2 DEF Agree, NoneTwice
  <2>2. CASE ~IsCurrentAttempt(k)
    <3>1. Opened' = Opened /\ NoneTwice(open') /\ UNCHANGED <<active, data>>
      BY <1>3, <1>4, <1>5, <1>6, <2>2
    <3> QED
      BY <3>1 DEF Agree, NoneTwice
  <2> QED
    BY <2>1, <2>2
<1> QED
  BY <1>9, <1>11, <1>12 DEF Stepped
\* What an attempt that succeeds has loaded.
LEMMA Outcome ==
    ASSUME TypeOK, NEW k \in Attempts, IsCurrentAttempt(k),
           LoadedFlat(k) \/ LoadedNested(k) \/ LoadedSchemas(k) \/ LoadedPlain(k)
    PROVE \E layout \in Layouts, cells \in Cells :
            /\ Update(k.conn, [Entry(k.conn) EXCEPT
                   !.connecting = FALSE, !.connected = TRUE, !.from = k.attempt,
                   !.layout = layout, !.cells = cells])
            /\ \/ \A n \in Names : "loading" \notin cells[n]
               \/ layout = "schemas" /\ cells = Entry(k.conn).cells
<1>1. /\ NothingLoaded \in Cells /\ \A n \in Names : "loading" \notin NothingLoaded[n]
      /\ \A m \in Names : One(m) \in Cells /\ \A n \in Names : "loading" \notin One(m)[n]
  BY DEF NothingLoaded, One, Cells
<1>2. Entry(k.conn).cells \in Cells
  BY EntryOf, EntryFields DEF Attempts, TypeOK, Sound
<1>3. CASE LoadedFlat(k) \/ LoadedNested(k)
  BY <1>1, <1>3 DEF LoadedFlat, LoadedNested, Preloaded, Finish, Layouts
<1>4. CASE LoadedSchemas(k)
  BY <1>1, <1>2, <1>4 DEF LoadedSchemas, Finish, Layouts
<1>5. CASE LoadedPlain(k)
  BY <1>1, <1>5 DEF LoadedPlain, Finish, Layouts
<1> QED
  BY <1>3, <1>4, <1>5

LEMMA LoadedStepped ==
    ASSUME TypeOK, ConnInv, NEW k \in calls, Loaded(k)
    PROVE Stepped
<1> DEFINE c == k.conn
<1>1. /\ k \in Attempts /\ c \in Conns /\ k.attempt \in Nat \ {0} /\ k.op = "connect"
      /\ calls' = calls \ {k} /\ UNCHANGED <<open, active, attempts, attempted, saved>>
  BY DEF Loaded, Attempts, TypeOK, Sound
<1>2. Entry(c) \in Entries
  BY <1>1, EntryOf
<1>3. CASE ~IsCurrentAttempt(k)
  <2>1. UNCHANGED <<data, races>>
    BY <1>3 DEF Loaded, LoadedFlat, LoadedNested, LoadedSchemas, LoadedPlain, Preloaded, Finish
  <2>2. /\ (\A q \in calls' : Sound(q)) /\ (\A d \in Conns : Changes(d))
        /\ \A q \in Attempts' : \E p \in Attempts : p.conn = q.conn /\ p.attempt = q.attempt
        /\ \A p, q \in Attempts' : p.attempt = q.attempt => p = q
        /\ \A q \in Attempts \ {k} : q \in Attempts'
    BY <1>1, <2>1, AttemptEnds
  <2>3. TypeOK'
    BY <1>1, <2>1, <2>2 DEF TypeOK, saved
  <2>4. Carried
    BY <1>3, <2>2 DEF Carried
  <2>5. ConnInv' /\ Survives
    BY <1>1, <2>2, <2>3, <2>4, PassingInv DEF Passing
  <2>6. Agrees
    BY <1>1, <2>1 DEF Agrees, Agree, Opened
  <2> QED
    BY <2>3, <2>5, <2>6 DEF Stepped
<1>4. CASE IsCurrentAttempt(k)
  <2>1. PICK layout \in Layouts, cells \in Cells :
          /\ Update(c, [Entry(c) EXCEPT
                 !.connecting = FALSE, !.connected = TRUE, !.from = k.attempt,
                 !.layout = layout, !.cells = cells])
          /\ \/ \A n \in Names : "loading" \notin cells[n]
             \/ layout = "schemas" /\ cells = Entry(c).cells
    BY <1>1, <1>4, Outcome DEF Loaded
  <2> DEFINE e == [Entry(c) EXCEPT
                 !.connecting = FALSE, !.connected = TRUE, !.from = k.attempt,
                 !.layout = layout, !.cells = cells]
  <2>2. /\ e \in Entries /\ ~e.connecting /\ e.connected /\ e.from = k.attempt
        /\ e.layout = layout /\ e.cells = cells
    BY <1>1, <1>2 DEF Entries, Cells
  <2>3. /\ data' = [data EXCEPT ![c] = e] /\ races \subseteq races'
        /\ data[c] = None => races' # {}
    BY <2>1 DEF Update
  <2> HIDE DEF e
  <2>4. /\ data' \in [Conns -> Entries \cup {None}] /\ data'[c] = e /\ e # None
        /\ \A d \in Conns \ {c} : data'[d] = data[d]
    BY <1>1, <2>2, <2>3, EntryFields DEF TypeOK
  <2>5. TypeOK'
    BY <1>1, <2>4 DEF TypeOK, saved
  <2>6. Attempts' = Attempts \ {k}
    BY <1>1 DEF Attempts
  <2>7. Numbered'
    BY <1>1, <2>6 DEF ConnInv, Numbered
  <2>8. ~Current(c)'
    <3> SUFFICES ASSUME Current(c)' PROVE FALSE
      OBVIOUS
    <3>1. PICK q \in Attempts' : attempts'[c] = q.attempt
      BY DEF Current, Flying, IsCurrentAttempt, Attempts
    <3>2. q \in Attempts /\ q # k /\ q.attempt = k.attempt
      BY <1>1, <1>4, <2>6, <3>1 DEF IsCurrentAttempt
    <3> QED
      BY <1>1, <3>2 DEF ConnInv, Numbered
  <2>9. ASSUME NEW d \in Conns \ {c}
        PROVE Flying(d, "connect")' = Flying(d, "connect")
    BY <1>1, <2>9 DEF Flying
  <2>10. ASSUME NEW d \in Conns
         PROVE /\ Flying(d, "disconnect")' = Flying(d, "disconnect")
               /\ Flying(d, "schema")' = Flying(d, "schema")
    BY <1>1 DEF Flying
  <2>11. LatestAttempt'
    <3> SUFFICES ASSUME NEW d \in Conns, data'[d] # None, Flying(d, "disconnect")' = {}
                 PROVE /\ data'[d].connected => data'[d].from = attempts'[d]
                       /\ data'[d].connecting =>
                              (\E q \in Flying(d, "connect") : IsCurrentAttempt(q))'
      BY DEF LatestAttempt
    <3>1. CASE d = c
      BY <1>1, <1>4, <2>2, <2>4, <3>1 DEF IsCurrentAttempt
    <3>2. CASE d # c
      BY <1>1, <2>4, <2>9, <2>10, <3>2 DEF ConnInv, LatestAttempt, IsCurrentAttempt
    <3> QED
      BY <3>1, <3>2
  <2>12. ASSUME NEW d \in Conns PROVE Unfinished(d)'
    <3>1. CASE d = c
      BY <1>1, <2>2, <2>4, <2>8, <3>1 DEF Unfinished
    <3>2. CASE d # c
      <4>1. Current(d)' => Current(d)
        BY <1>1, <2>9, <3>2 DEF Current, IsCurrentAttempt
      <4> QED
        BY <2>4, <3>2, <4>1 DEF Unfinished, ConnInv
    <3> QED
      BY <3>1, <3>2
  <2>13. data[c] # None => data[c].layout = None /\ ~data[c].connected
    BY <1>1, <1>4 DEF ConnInv, Unfinished, Current, Flying
  <2>14. ASSUME NEW d \in Conns PROVE Spins(d)'
    <3>1. CASE d = c
      <4>1. CASE \A n \in Names : "loading" \notin cells[n]
        BY <2>2, <2>4, <3>1, <4>1 DEF Spins
      <4>2. CASE layout = "schemas" /\ cells = Entry(c).cells
        <5>1. CASE data[c] = None
          BY <1>1, <2>2, <2>4, <3>1, <4>2, <5>1, EntryOf DEF Spins, NothingLoaded
        <5>2. CASE data[c] # None
          <6>1. cells = data[c].cells
            BY <1>1, <4>2, <5>2, EntryOf
          <6>2. \A n \in Names : "loading" \in cells[n] =>
                  \E q \in Flying(c, "schema") : q.name = n /\ Belongs(q, data[c])
            BY <1>1, <2>13, <5>2, <6>1 DEF ConnInv, Spins
          <6>3. None # "schemas"
            BY ConnectionsAssumption DEF Layouts
          <6>4. \A q : Belongs(q, data[c]) => q.layout = "schemas" \/ q.layout = None
            BY <2>13, <5>2 DEF Belongs
          <6>5. \A q \in Flying(c, "schema") : q.layout # None
            BY ConnectionsAssumption DEF Flying, TypeOK, Sound, ByUpdates, Layouts
          <6> QED
            BY <2>2, <2>4, <2>10, <3>1, <4>2, <6>2, <6>4, <6>5 DEF Spins, Belongs
        <5> QED
          BY <5>1, <5>2
      <4> QED
        BY <2>1, <4>1, <4>2
    <3>2. CASE d # c
      BY <2>4, <2>10, <3>2 DEF Spins, ConnInv
    <3> QED
      BY <3>1, <3>2
  <2>15. Survives
    <3> SUFFICES ASSUME NEW d \in Conns, Same(d)
                 PROVE \A n \in Names : "loaded" \in data[d].cells[n] => data'[d].cells[n] # {}
      BY DEF Survives
    <3>1. d # c
      BY <2>13 DEF Same, Connected
    <3> QED
      BY <2>4, <3>1
  <2>16. Agrees
    BY <1>1, <2>3, <2>4 DEF Agrees, Agree, Opened
  <2> QED
    BY <2>5, <2>7, <2>11, <2>12, <2>14, <2>15, <2>16 DEF Stepped, ConnInv
<1> QED
  BY <1>3, <1>4

-----------------------------------------------------------------------------
(***************************************************************************)
(* The list of saved connections.                                          *)
(***************************************************************************)
Listing == SaveConnection \/ LoadConnections \/ \E k \in loads : ConnectionsArrive(k)

LEMMA ListingStepped ==
    ASSUME TypeOK, ConnInv, Listing
    PROVE Stepped
<1>1. UNCHANGED rest
  BY DEF Listing, SaveConnection, LoadConnections, ConnectionsArrive
<1>2. /\ {revision', list', version'} \subseteq Nat
      /\ loads' \subseteq [version : Nat, from : Nat]
  <2>1. CASE SaveConnection
    BY <2>1 DEF SaveConnection, TypeOK
  <2>2. CASE LoadConnections
    BY <2>2 DEF LoadConnections, TypeOK
  <2>3. ASSUME NEW k \in loads, ConnectionsArrive(k)
        PROVE /\ {revision', list', version'} \subseteq Nat
              /\ loads' \subseteq [version : Nat, from : Nat]
    BY <2>3 DEF ConnectionsArrive, Shows, TypeOK
  <2> QED
    BY <2>1, <2>2, <2>3 DEF Listing
<1>3. TypeOK'
  BY <1>1, <1>2 DEF TypeOK, rest
<1>4. ConnInv'
  BY <1>1 DEF rest, ConnInv, Numbered, Attempts, LatestAttempt, Unfinished, Current, Spins,
              Flying, IsCurrentAttempt
<1>5. Survives
  BY <1>1 DEF rest, Survives
<1>6. Agrees
  BY <1>1 DEF rest, Agrees, Agree, Opened
<1> QED
  BY <1>3, <1>4, <1>5, <1>6 DEF Stepped

\* Only the latest load is shown, and it is not older than what is shown.
LEMMA ListingFresh ==
    ASSUME TypeOK, Fresh, Listing
    PROVE Fresh' /\ list' >= list
<1>1. /\ revision \in Nat /\ list \in Nat /\ version \in Nat
      /\ \A k \in loads : k.version \in Nat /\ k.from \in Nat
  BY DEF TypeOK
<1>2. CASE SaveConnection
  BY <1>1, <1>2 DEF SaveConnection, Fresh
<1>3. CASE LoadConnections
  <2> DEFINE new == [version |-> version + 1, from |-> revision]
  <2>1. /\ version' = version + 1 /\ loads' = loads \cup {new} /\ UNCHANGED <<revision, list>>
        /\ new.version = version + 1 /\ new.from = revision
    BY <1>3 DEF LoadConnections
  <2> HIDE DEF new
  <2>2. \A k \in loads : k.version # version + 1
    BY <1>1 DEF Fresh
  <2> QED
    BY <1>1, <2>1, <2>2 DEF Fresh
<1>4. ASSUME NEW k \in loads, ConnectionsArrive(k) PROVE Fresh' /\ list' >= list
  <2>1. loads' = loads \ {k} /\ UNCHANGED <<revision, version>>
    BY <1>4 DEF ConnectionsArrive
  <2>2. list' = list \/ (k.version = version /\ list' \in k.from .. revision)
    BY <1>4 DEF ConnectionsArrive, Shows
  <2>3. CASE list' = list
    BY <1>1, <2>1, <2>3 DEF Fresh
  <2>4. CASE k.version = version /\ list' \in k.from .. revision
    <3>1. list <= k.from /\ list' \in Nat /\ k.from <= list' /\ list' <= revision
      BY <1>1, <2>4 DEF Fresh
    <3>2. \A q \in loads' : q.version # version
      BY <2>1, <2>4 DEF Fresh
    <3> QED
      BY <1>1, <2>1, <3>1, <3>2 DEF Fresh
  <2> QED
    BY <2>2, <2>3, <2>4
<1> QED
  BY <1>2, <1>3, <1>4 DEF Listing
-----------------------------------------------------------------------------
(***************************************************************************)
(* Every step, and the theorems.                                           *)
(***************************************************************************)
LEMMA AnswersStepped ==
    ASSUME TypeOK, ConnInv, NEW k \in calls, Answered(k)
    PROVE Stepped
BY TestedStepped, LoadedStepped, FailedStepped, DisconnectedStepped, DetachedStepped,
   SchemaAnsweredStepped, SchemasSelectedStepped, DatabaseAnswersStepped
DEF Answered

LEMMA NextStepped ==
    ASSUME TypeOK, ConnInv, [Next]_vars
    PROVE Stepped
<1>1. ASSUME NEW c \in Conns,
             \/ Connect(c) \/ Restore(c) \/ Disconnect(c)
             \/ OpenInNewWindow(c) \/ HealthFailed(c) \/ SwitchConnection(c)
             \/ RefreshSelection(c) \/ RefreshTables(c)
      PROVE Stepped
  BY <1>1, ConnectStepped, BeginningsStepped, DroppingsStepped
<1>2. ASSUME NEW c \in Conns, NEW n \in Names,
             \/ LoadSchemaData(c, n) \/ RefreshSchemaData(c, n)
             \/ LoadNestedSchemaData(c, n) \/ RefreshNestedSchemaData(c, n)
             \/ LoadNestedSchemas(c, n)
             \/ LoadDatabaseData(c, n) \/ RefreshDatabaseData(c, n)
      PROVE Stepped
  BY <1>2, SchemaCallsStepped, SelectStepped, DatabaseCallsStepped
<1>3. ASSUME NEW c \in Conns, NEW ns \in SUBSET Names,
             \/ SetSelectedSchemas(c, ns) \/ SetSelectedSchemasForDatabase(c, ns)
             \/ SetSelectedDatabases(c, ns)
      PROVE Stepped
  BY <1>3, SelectStepped, DatabaseCallsStepped
<1>4. ASSUME NEW cs \in SUBSET Conns, DisablePlugin(cs) \/ MetadataInvalidated(cs)
      PROVE Stepped
  BY <1>4, DisablePluginStepped, DroppingsStepped
<1>5. CASE Listing
  BY <1>5, ListingStepped
<1>6. CASE UNCHANGED vars
  <2>1. Quiet /\ UNCHANGED saved
    BY <1>6 DEF vars, Quiet, TypeOK
  <2> QED
    BY <2>1, QuietStep
<1> QED
  BY <1>1, <1>2, <1>3, <1>4, <1>5, <1>6, AnswersStepped DEF Next, Listing

LEMMA Start ==
    ASSUME Init
    PROVE TypeOK /\ ConnInv /\ Fresh /\ Agree
<1>1. TypeOK
  BY DEF Init, TypeOK
<1>2. Numbered /\ LatestAttempt
  BY DEF Init, Numbered, Attempts, LatestAttempt
<1>3. \A c \in Conns : Unfinished(c) /\ Spins(c)
  BY DEF Init, Unfinished, Spins
<1>4. Fresh
  BY DEF Init, Fresh
<1>5. Agree
  BY DEF Init, Agree, Opened
<1> QED
  BY <1>1, <1>2, <1>3, <1>4, <1>5 DEF ConnInv

\* The variables keep their types, and so does what the calls in flight have captured.
THEOREM InvariantHolds == Spec => [](TypeOK /\ ConnInv)
<1>1. Init => TypeOK /\ ConnInv
  BY Start
<1>2. TypeOK /\ ConnInv /\ [Next]_vars => (TypeOK /\ ConnInv)'
  BY NextStepped DEF Stepped
<1> QED
  BY <1>1, <1>2, PTL DEF Spec

\* What is shown of a connection comes from the latest attempt, and an attempt that shows
\* it as connecting is under way (LatestAttempt).
THEOREM LatestHolds == Spec => []LatestAttempt
<1>1. ConnInv => LatestAttempt
  BY DEF ConnInv
<1> QED
  BY <1>1, InvariantHolds, PTL

\* The list, the entries and the active connection agree unless captured state has
\* overwritten newer state (AgreeUnlessRaced).
THEOREM AgreementHolds == Spec => []AgreeUnlessRaced
<1>1. Init => AgreeUnlessRaced
  BY Start DEF AgreeUnlessRaced
<1>2. TypeOK /\ ConnInv /\ AgreeUnlessRaced /\ [Next]_vars => AgreeUnlessRaced'
  BY NextStepped DEF Stepped, Agrees, AgreeUnlessRaced
<1> QED
  BY <1>1, <1>2, InvariantHolds, PTL DEF Spec

\* Loads that run at the same time drop nothing that the others have loaded, and leave no
\* spinner behind (LoadsSurvive).
THEOREM LoadsHold == Spec => LoadsSurvive
<1> DEFINE Kept ==
      /\ NothingStuck'
      /\ \A c \in Conns : Same(c) =>
             \A n \in Names : "loaded" \in data[c].cells[n] => data'[c].cells[n] # {}
<1>1. ConnInv => NothingStuck
  BY DEF ConnInv, NothingStuck, Spins, Connected
<1>2. ConnInv' => NothingStuck'
  BY <1>1, PTL
<1>3. TypeOK /\ ConnInv /\ [Next]_vars => [Kept]_vars
  BY <1>2, NextStepped DEF Stepped, Survives
<1> QED
  BY <1>3, InvariantHolds, PTL DEF Spec, LoadsSurvive

\* The list of saved connections never goes back to an older one (NeverOlder).
THEOREM NeverOlderHolds == Spec => NeverOlder
<1>1. Init => Fresh
  BY Start
<1>2. TypeOK /\ Fresh /\ [Next]_vars => Fresh' /\ list' >= list
  <2> SUFFICES ASSUME TypeOK, Fresh, [Next]_vars PROVE Fresh' /\ list' >= list
    OBVIOUS
  <2>1. CASE Listing
    BY <2>1, ListingFresh
  <2>2. UNCHANGED saved \/ Listing
    BY ZenonT(60)
    DEF Next, vars, Listing, Connect, Restore, Begin, Answered, Tested, Loaded, Failed,
        Disconnect, DisablePlugin, Disconnected, Dropped, OpenInNewWindow, Detached,
        HealthFailed, MetadataInvalidated, SwitchConnection, StartLoad, LoadSchemaData,
        LoadNestedSchemaData, StartRefresh, RefreshSchemaData, RefreshNestedSchemaData,
        SchemaAnswered, StartSelect, SetSelectedSchemas, SetSelectedSchemasForDatabase,
        LoadNestedSchemas, SchemasSelected, SetSelectedDatabases, LoadDatabaseData,
        RefreshDatabaseData, DatabaseAnswered, RefreshSelection, SelectionRefreshed,
        RefreshTables, TablesRefreshed
  <2>3. CASE UNCHANGED saved
    BY <2>3 DEF saved, Fresh, TypeOK
  <2> QED
    BY <2>1, <2>2, <2>3
<1>3. TypeOK /\ Fresh /\ [Next]_vars => Fresh'
  BY <1>2
<1>4. TypeOK /\ Fresh /\ [Next]_vars => [list' >= list]_vars
  BY <1>2
<1> QED
  BY <1>1, <1>3, <1>4, InvariantHolds, PTL DEF Spec, NeverOlder
=============================================================================
