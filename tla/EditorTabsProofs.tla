-------------------------- MODULE EditorTabsProofs --------------------------
(***************************************************************************)
(* Proofs about the editor tabs: every tab id is open once, pinned tabs    *)
(* come first, a connection with tabs has an active one among them, closed *)
(* tabs give their sessions back, reopening undoes closing, and no step    *)
(* disturbs the tabs of another connection.                                *)
(*                                                                         *)
(* What an operation on the list of all tabs does is said in terms of the  *)
(* lists of the connections (Of): it changes that of one connection, in a  *)
(* way that is spelled out, and leaves the others alone.                   *)
(***************************************************************************)
EXTENDS EditorTabs, FiniteSetTheorems, WellFoundedInduction, TLAPS

-----------------------------------------------------------------------------
(***************************************************************************)
(* filter.                                                                 *)
(***************************************************************************)
\* A set of naturals has a least element.
LEMMA Least ==
    ASSUME NEW S \in SUBSET Nat, S # {}
    PROVE \E i \in S : \A j \in S : i <= j
<1>1. PICK i \in S : \A j \in S : ~(<<j, i>> \in OpToRel(<, Nat))
  BY WFMin, NatLessThanWellFounded
<1>2. \A j \in S : ~(j < i)
  BY <1>1 DEF OpToRel
<1> QED
  BY <1>2

\* f holds what is kept of each prefix of s, up to the n-th.
Keeps(f, s, I, n) ==
    f = [i \in 0 .. n |-> IF i = 0 THEN <<>>
                          ELSE IF i \in I THEN Append(f[i - 1], s[i]) ELSE f[i - 1]]

\* The recursion in Filter defines a function.
LEMMA KeepsExists ==
    ASSUME NEW S, NEW s \in Seq(S), NEW I
    PROVE \A n \in Nat : \E f : Keeps(f, s, I, n)
<1> DEFINE bad == {n \in Nat : ~\E f : Keeps(f, s, I, n)}
<1> SUFFICES ASSUME bad # {} PROVE FALSE
  OBVIOUS
<1>1. PICK n \in bad : \A m \in bad : n <= m
  BY Least
<1>2. \E f : Keeps(f, s, I, 0)
  <2> WITNESS [i \in 0 .. 0 |-> <<>>]
  <2> QED
    BY DEF Keeps
<1>3. n # 0 /\ n \in Nat /\ n - 1 \in Nat
  BY <1>1, <1>2
<1>4. PICK f : Keeps(f, s, I, n - 1)
  BY <1>1, <1>3
<1> DEFINE g == [i \in 0 .. n |-> IF i < n THEN f[i]
                                  ELSE IF n \in I THEN Append(f[n - 1], s[n]) ELSE f[n - 1]]
<1>5. Keeps(g, s, I, n)
  <2>1. \A i \in 0 .. n :
          g[i] = IF i = 0 THEN <<>>
                 ELSE IF i \in I THEN Append(g[i - 1], s[i]) ELSE g[i - 1]
    <3> SUFFICES ASSUME NEW i \in 0 .. n
                 PROVE g[i] = IF i = 0 THEN <<>>
                              ELSE IF i \in I THEN Append(g[i - 1], s[i]) ELSE g[i - 1]
      OBVIOUS
    <3>1. CASE i = n
      <4>1. n - 1 \in 0 .. n /\ n - 1 < n
        BY <1>3
      <4>2. g[n - 1] = f[n - 1]
        BY <4>1
      <4> QED
        BY <1>3, <3>1, <4>2
    <3>2. CASE i < n
      <4>1. i \in 0 .. n - 1
        BY <1>3, <3>2
      <4>2. f[i] = IF i = 0 THEN <<>>
                   ELSE IF i \in I THEN Append(f[i - 1], s[i]) ELSE f[i - 1]
        BY <1>4, <4>1 DEF Keeps
      <4>3. g[i] = f[i]
        BY <3>2
      <4>4. i # 0 => i - 1 \in 0 .. n /\ i - 1 < n
        BY <1>3, <3>2
      <4>5. i # 0 => g[i - 1] = f[i - 1]
        BY <4>4
      <4> QED
        BY <4>2, <4>3, <4>5
    <3> QED
      BY <1>3, <3>1, <3>2
  <2> HIDE DEF g
  <2>2. g = [i \in 0 .. n |-> g[i]]
    BY DEF g
  <2> QED
    BY <2>1, <2>2 DEF Keeps
<1> QED
  BY <1>1, <1>5

\* e runs through the positions I in their order.
Enumerates(e, n, I) ==
    /\ e \in [1 .. n -> I]
    /\ \A j, k \in 1 .. n : j < k => e[j] < e[k]
    /\ \A i \in I : \E k \in 1 .. n : e[k] = i

\* What is kept stands in the order of its positions.
LEMMA Enumerated ==
    ASSUME NEW S, NEW s \in Seq(S), NEW I \in SUBSET DOMAIN s
    PROVE LET u == Filter(s, I) IN
          /\ u \in Seq(S)
          /\ \E e : Enumerates(e, Len(u), I) /\ \A k \in 1 .. Len(u) : u[k] = s[e[k]]
<1> DEFINE f == CHOOSE g : Keeps(g, s, I, Len(s))
<1>1. Keeps(f, s, I, Len(s))
  BY KeepsExists
<1>2. Filter(s, I) = f[Len(s)]
  BY DEF Filter, Keeps
<1> HIDE DEF f
<1> DEFINE Right(n) ==
      /\ f[n] \in Seq(S)
      /\ \E e : /\ Enumerates(e, Len(f[n]), I \cap 1 .. n)
                /\ \A k \in 1 .. Len(f[n]) : f[n][k] = s[e[k]]
    wrong == {n \in 0 .. Len(s) : ~Right(n)}
<1>3. f[0] = <<>> /\ \A n \in 1 .. Len(s) :
        f[n] = IF n \in I THEN Append(f[n - 1], s[n]) ELSE f[n - 1]
  <2>1. \A i \in 0 .. Len(s) :
          f[i] = IF i = 0 THEN <<>>
                 ELSE IF i \in I THEN Append(f[i - 1], s[i]) ELSE f[i - 1]
    BY <1>1, Zenon DEF Keeps
  <2>2. Len(s) \in Nat
    OBVIOUS
  <2> QED
    BY <2>1, <2>2
<1>4. Right(0)
  <2> DEFINE e == [k \in 1 .. 0 |-> 0]
  <2>1. Enumerates(e, 0, {})
    BY DEF Enumerates
  <2>2. I \cap 1 .. 0 = {} /\ Len(f[0]) = 0 /\ f[0] \in Seq(S)
    BY <1>3
  <2> QED
    BY <2>1, <2>2
<1>5. ASSUME NEW n \in 1 .. Len(s), Right(n - 1) PROVE Right(n)
  <2>1. 1 .. n = (1 .. n - 1) \cup {n} /\ n \notin 1 .. n - 1 /\ n \in DOMAIN s
    OBVIOUS
  <2>2. CASE n \notin I
    <3>1. f[n] = f[n - 1] /\ I \cap 1 .. n = I \cap 1 .. n - 1
      BY <1>3, <2>1, <2>2
    <3> QED
      BY <1>5, <3>1
  <2>3. CASE n \in I
    <3> DEFINE old == f[n - 1]
               new == Append(old, s[n])
               m == Len(old)
    <3>1. f[n] = new /\ old \in Seq(S) /\ s[n] \in S /\ n \in Nat
      <4>1. f[n] = new
        BY <1>3, <2>3
      <4>2. old \in Seq(S)
        BY <1>5
      <4> QED
        BY <2>1, <4>1, <4>2
    <3>2. /\ new \in Seq(S) /\ m \in Nat /\ Len(new) = m + 1 /\ new[m + 1] = s[n]
          /\ \A k \in 1 .. m : new[k] = old[k]
      BY <3>1
    <3>3. PICK e : /\ Enumerates(e, m, I \cap 1 .. n - 1)
                   /\ \A k \in 1 .. m : old[k] = s[e[k]]
      BY <1>5
    <3> HIDE DEF old, new, m
    <3> DEFINE g == [k \in 1 .. m + 1 |-> IF k <= m THEN e[k] ELSE n]
    <3>4. /\ \A k \in 1 .. m : g[k] = e[k] /\ e[k] \in I /\ e[k] \in 1 .. n - 1
          /\ g[m + 1] = n /\ g = [k \in 1 .. m + 1 |-> g[k]]
      BY <3>2, <3>3 DEF Enumerates
    <3> HIDE DEF g
    <3>5. Enumerates(g, m + 1, I \cap 1 .. n)
      <4>1. 1 .. m + 1 = 1 .. m \cup {m + 1}
        BY <3>2
      <4>2. \A k \in 1 .. m + 1 : g[k] \in I \cap 1 .. n
        BY <2>1, <2>3, <3>4, <4>1
      <4>3. g \in [1 .. m + 1 -> I \cap 1 .. n]
        BY <3>4, <4>2
      <4>4. ASSUME NEW j \in 1 .. m + 1, NEW k \in 1 .. m + 1, j < k PROVE g[j] < g[k]
        <5>1. j \in 1 .. m /\ n \in Nat
          BY <3>1, <3>2, <4>4
        <5>2. CASE k = m + 1
          <6>1. g[j] \in 1 .. n - 1 /\ g[k] = n
            BY <3>4, <5>1, <5>2
          <6> QED
            BY <5>1, <6>1
        <5>3. CASE k \in 1 .. m
          BY <3>3, <3>4, <4>4, <5>1, <5>3 DEF Enumerates
        <5> QED
          BY <4>1, <5>2, <5>3
      <4>5. ASSUME NEW i \in I \cap 1 .. n PROVE \E k \in 1 .. m + 1 : g[k] = i
        <5>1. CASE i = n
          BY <3>4, <4>1, <5>1
        <5>2. CASE i \in 1 .. n - 1
          BY <3>3, <3>4, <4>1, <5>2 DEF Enumerates
        <5> QED
          BY <2>1, <5>1, <5>2
      <4>6. \A j, k \in 1 .. m + 1 : j < k => g[j] < g[k]
        BY <4>4
      <4>7. \A i \in I \cap 1 .. n : \E k \in 1 .. m + 1 : g[k] = i
        BY <4>5
      <4> QED
        BY <4>3, <4>6, <4>7, Zenon DEF Enumerates
    <3>6. \A k \in 1 .. m + 1 : new[k] = s[g[k]]
      <4>1. 1 .. m + 1 = 1 .. m \cup {m + 1}
        BY <3>2
      <4>2. \A k \in 1 .. m : new[k] = s[g[k]]
        BY <3>2, <3>3, <3>4
      <4>3. new[m + 1] = s[g[m + 1]]
        BY <3>2, <3>4
      <4> QED
        BY <4>1, <4>2, <4>3
    <3> QED
      BY <3>1, <3>2, <3>5, <3>6
  <2> QED
    BY <2>2, <2>3
<1> HIDE DEF Right
<1>6. wrong = {}
  <2> SUFFICES ASSUME wrong # {} PROVE FALSE
    OBVIOUS
  <2>1. wrong \in SUBSET Nat
    OBVIOUS
  <2>2. PICK n \in wrong : \A m \in wrong : n <= m
    BY <2>1, Least
  <2>3. n # 0 /\ n \in 1 .. Len(s)
    BY <1>4
  <2>4. n - 1 \in 0 .. Len(s) /\ n - 1 \notin wrong
    BY <2>2, <2>3
  <2> QED
    BY <1>5, <2>3, <2>4
<1>7. Right(Len(s))
  BY <1>6
<1>8. I \cap 1 .. Len(s) = I
  OBVIOUS
<1> QED
  BY <1>2, <1>7, <1>8 DEF Right

\* Of two enumerations of the same positions neither is longer, and they agree.
LEMMA NoLonger ==
    ASSUME NEW I \in SUBSET Nat, NEW n \in Nat, NEW m \in Nat, NEW e, NEW g,
           Enumerates(e, n, I), Enumerates(g, m, I)
    PROVE n <= m /\ \A k \in 1 .. n : e[k] = g[k]
<1> DEFINE bad == {k \in 1 .. n : k > m \/ e[k] # g[k]}
<1>1. ASSUME bad # {} PROVE FALSE
  <2>0. bad \in SUBSET Nat
    OBVIOUS
  <2>1. PICK k \in bad : \A j \in bad : k <= j
    BY <1>1, <2>0, Least
  <2>2. \A j \in 1 .. n : j < k => j \in 1 .. m /\ e[j] = g[j]
    BY <2>1
  <2>3. e[k] \in I /\ k \in 1 .. n
    BY DEF Enumerates
  <2>4. PICK l \in 1 .. m : g[l] = e[k]
    BY <2>3 DEF Enumerates
  <2>5. ~(l < k)
    <3> SUFFICES ASSUME l < k PROVE FALSE
      OBVIOUS
    <3>1. l \in 1 .. n
      BY <2>3
    <3>2. g[l] = e[l] /\ e[l] < e[k] /\ e[l] \in I
      BY <2>2, <2>3, <3>1 DEF Enumerates
    <3>3. e[k] \in Nat
      BY <2>3
    <3> QED
      BY <2>4, <3>2, <3>3
  <2>6. k \in 1 .. m /\ e[k] # g[k]
    BY <2>3, <2>5
  <2>7. g[k] \in I /\ g[k] < e[k]
    <3>1. k = l \/ g[k] < g[l]
      BY <2>5, <2>6 DEF Enumerates
    <3> QED
      BY <2>4, <2>6, <3>1 DEF Enumerates
  <2>8. PICK p \in 1 .. n : e[p] = g[k]
    BY <2>7 DEF Enumerates
  <2>9. p < k
    <3> SUFFICES ASSUME ~(p < k) PROVE FALSE
      OBVIOUS
    <3>1. k = p \/ e[k] < e[p]
      BY <2>3 DEF Enumerates
    <3>2. e[k] \in Nat /\ g[k] \in Nat
      BY <2>3, <2>7
    <3> QED
      BY <2>7, <2>8, <3>1, <3>2
  <2>10. p \in 1 .. m /\ e[p] = g[p] /\ g[p] < g[k] /\ g[k] \in Nat
    BY <2>2, <2>6, <2>7, <2>9 DEF Enumerates
  <2> QED
    BY <2>8, <2>10
<1>2. \A k \in 1 .. n : k <= m /\ e[k] = g[k]
  BY <1>1
<1>3. CASE n = 0
  BY <1>2, <1>3
<1>4. CASE n # 0
  <2>1. n \in 1 .. n
    BY <1>4
  <2> QED
    BY <1>2, <2>1
<1> QED
  BY <1>3, <1>4

\* A set of positions is run through in order in one way only.
LEMMA Unique ==
    ASSUME NEW I \in SUBSET Nat, NEW n \in Nat, NEW m \in Nat, NEW e, NEW g,
           Enumerates(e, n, I), Enumerates(g, m, I)
    PROVE n = m /\ e = g
<1>1. n <= m /\ \A k \in 1 .. n : e[k] = g[k]
  BY NoLonger
<1>2. m <= n
  BY NoLonger
<1>3. n = m
  BY <1>1, <1>2
<1>4. e \in [1 .. n -> I] /\ g \in [1 .. n -> I]
  BY <1>3 DEF Enumerates
<1> QED
  BY <1>1, <1>3, <1>4

\* What Filter gives, said without its recursion.
LEMMA FilterIs ==
    ASSUME NEW S, NEW s \in Seq(S), NEW I \in SUBSET DOMAIN s, NEW u \in Seq(S), NEW e,
           Enumerates(e, Len(u), I), \A k \in 1 .. Len(u) : u[k] = s[e[k]]
    PROVE Filter(s, I) = u
<1> DEFINE v == Filter(s, I)
<1>1. v \in Seq(S)
  BY Enumerated
<1>2. PICK g : Enumerates(g, Len(v), I) /\ \A k \in 1 .. Len(v) : v[k] = s[g[k]]
  BY Enumerated
<1> HIDE DEF v
<1>3. Len(u) \in Nat /\ Len(v) \in Nat /\ I \in SUBSET Nat
  BY <1>1
<1>4. Enumerates(e, Len(u), I) /\ Enumerates(g, Len(v), I)
  BY <1>2
<1>5. Len(u) = Len(v) /\ e = g
  BY <1>3, <1>4, Unique
<1>6. \A k \in 1 .. Len(u) : u[k] = v[k]
  BY <1>2, <1>5
<1>7. u = v
  BY <1>1, <1>5, <1>6
<1> QED
  BY <1>7 DEF v

\* The members of I up to n.
UpTo(I, n) == {j \in I : j <= n}

\* The position of an entry among those that are kept.
LEMMA Rank ==
    ASSUME NEW I \in SUBSET Nat, NEW n \in Nat, NEW e, Enumerates(e, n, I), NEW k \in 1 .. n
    PROVE Cardinality(UpTo(I, e[k])) = k
<1> DEFINE T == UpTo(I, e[k])
           f == [m \in 1 .. k |-> e[m]]
<1>0. \A m \in 1 .. k : m \in 1 .. n
  OBVIOUS
<1>1. \A m \in 1 .. k : m \in 1 .. n /\ e[m] \in I /\ e[m] \in Nat
  <2>1. \A m \in 1 .. n : e[m] \in I
    BY DEF Enumerates
  <2> QED
    BY <1>0, <2>1
<1>2. \A m \in 1 .. k : e[m] <= e[k]
  BY <1>1 DEF Enumerates
<1>3. \A a, b \in 1 .. k : e[a] = e[b] => a = b
  <2> SUFFICES ASSUME NEW a \in 1 .. k, NEW b \in 1 .. k, e[a] = e[b], a # b PROVE FALSE
    OBVIOUS
  <2>1. a < b \/ b < a
    OBVIOUS
  <2>2. e[a] < e[b] \/ e[b] < e[a]
    BY <1>1, <2>1 DEF Enumerates
  <2> QED
    BY <1>1, <2>2
<1>4. \A j \in T : \E m \in 1 .. k : e[m] = j
  <2> SUFFICES ASSUME NEW j \in T PROVE \E m \in 1 .. k : e[m] = j
    OBVIOUS
  <2>1. PICK m \in 1 .. n : e[m] = j
    BY DEF Enumerates, UpTo
  <2>2. ~(k < m)
    BY <1>1, <2>1 DEF Enumerates, UpTo
  <2> QED
    BY <2>1, <2>2
<1>5. f \in Bijection(1 .. k, T)
  <2>1. f \in [1 .. k -> T]
    BY <1>1, <1>2 DEF UpTo
  <2>2. \A a, b \in 1 .. k : f[a] = f[b] => a = b
    BY <1>3
  <2>3. \A j \in T : \E m \in 1 .. k : f[m] = j
    BY <1>4
  <2> QED
    BY <2>1, <2>2, <2>3 DEF Bijection, Injection, Surjection, IsInjective
<1>6. IsFiniteSet(1 .. k) /\ Cardinality(1 .. k) = k
  BY FS_Interval
<1> QED
  BY <1>5, <1>6, FS_Bijection DEF ExistsBijection

\* The same entries in the same order are kept of two sequences.
LEMMA SameKept ==
    ASSUME NEW S, NEW s \in Seq(S), NEW I \in SUBSET DOMAIN s,
           NEW t \in Seq(S), NEW J \in SUBSET DOMAIN t, NEW h \in [J -> I],
           \A i, j \in J : i < j => h[i] < h[j],
           \A i \in I : \E j \in J : h[j] = i,
           \A j \in J : t[j] = s[h[j]]
    PROVE Filter(t, J) = Filter(s, I)
<1> DEFINE u == Filter(t, J)
<1>1. u \in Seq(S)
  BY Enumerated
<1>2. PICK e : Enumerates(e, Len(u), J) /\ \A k \in 1 .. Len(u) : u[k] = t[e[k]]
  BY Enumerated
<1> HIDE DEF u
<1> DEFINE g == [k \in 1 .. Len(u) |-> h[e[k]]]
<1>3. \A k \in 1 .. Len(u) : e[k] \in J /\ g[k] = h[e[k]] /\ g[k] \in I
  BY <1>2 DEF Enumerates
<1>4. Enumerates(g, Len(u), I)
  <2>1. g \in [1 .. Len(u) -> I]
    BY <1>3
  <2> HIDE DEF g
  <2>2. \A j, k \in 1 .. Len(u) : j < k => g[j] < g[k]
    BY <1>2, <1>3 DEF Enumerates
  <2>3. \A i \in I : \E k \in 1 .. Len(u) : g[k] = i
    <3> SUFFICES ASSUME NEW i \in I PROVE \E k \in 1 .. Len(u) : g[k] = i
      OBVIOUS
    <3>1. PICK j \in J : h[j] = i
      OBVIOUS
    <3>2. PICK k \in 1 .. Len(u) : e[k] = j
      BY <1>2 DEF Enumerates
    <3> QED
      BY <1>3, <3>1, <3>2
  <2> QED
    BY <2>1, <2>2, <2>3, Zenon DEF Enumerates
<1> HIDE DEF g
<1>5. \A k \in 1 .. Len(u) : u[k] = s[g[k]]
  BY <1>2, <1>3
<1>6. Filter(s, I) = u
  BY <1>1, <1>4, <1>5, FilterIs
<1> QED
  BY <1>6 DEF u

\* Filtering twice, the second time by the entries.
LEMMA FilterTwice ==
    ASSUME NEW S, NEW s \in Seq(S), NEW I \in SUBSET DOMAIN s, NEW V,
           NEW u, u = Filter(s, I),
           NEW J \in SUBSET DOMAIN u, \A k \in DOMAIN u : k \in J <=> u[k] \in V,
           NEW K \in SUBSET I, \A i \in I : i \in K <=> s[i] \in V
    PROVE Filter(u, J) = Filter(s, K)
<1>1. u \in Seq(S) /\ Len(u) \in Nat /\ DOMAIN u = 1 .. Len(u)
  BY Enumerated
<1>2. PICK e : Enumerates(e, Len(u), I) /\ \A k \in 1 .. Len(u) : u[k] = s[e[k]]
  BY Enumerated
<1> DEFINE h == [k \in J |-> e[k]]
<1>3. \A k \in 1 .. Len(u) : e[k] \in I /\ (k \in J <=> e[k] \in K)
  BY <1>1, <1>2 DEF Enumerates
<1>4. K \in SUBSET DOMAIN s
  OBVIOUS
<1>5. \A k \in J : k \in 1 .. Len(u) /\ h[k] = e[k] /\ h[k] \in K
  BY <1>1, <1>3, <1>4
<1>6. h \in [J -> K]
  BY <1>5
<1> HIDE DEF h
<1>7. \A i, j \in J : i < j => h[i] < h[j]
  BY <1>2, <1>5 DEF Enumerates
<1>8. \A i \in K : \E j \in J : h[j] = i
  BY <1>2, <1>3, <1>5 DEF Enumerates
<1>9. \A j \in J : u[j] = s[h[j]]
  BY <1>2, <1>5
<1>10. u \in Seq(S)
  BY <1>1
<1> QED
  BY ONLY <1>4, <1>6, <1>7, <1>8, <1>9, <1>10, SameKept

-----------------------------------------------------------------------------
(***************************************************************************)
(* The lists of connections.                                               *)
(***************************************************************************)
\* An id stands for one tab.
Distinct(s) == \A i, j \in DOMAIN s : s[i].id = s[j].id => i = j

\* The pinned tabs come first.
Sorted(s) == \A i, j \in DOMAIN s : i < j /\ s[j].pinned => s[i].pinned

\* o is a list of tabs of connection c, whose ids are those in N.
Listed(o, c, N) ==
    /\ o \in Seq(Tab)
    /\ \A k \in DOMAIN o : o[k].conn = c
    /\ Distinct(o)
    /\ Ids(o) = N

\* The fields of a tab, also with another pin or id.
LEMMA TabFields ==
    ASSUME NEW t \in Tab
    PROVE /\ t.id \in TabIds /\ t.conn \in Conns /\ t.pinned \in BOOLEAN /\ t.kind \in Kinds
          /\ \A b \in BOOLEAN : LET u == [t EXCEPT !.pinned = b] IN
                 u \in Tab /\ u.pinned = b /\ u.id = t.id /\ u.conn = t.conn /\ u.kind = t.kind
          /\ \A x \in TabIds : LET u == [t EXCEPT !.id = x] IN
                 u \in Tab /\ u.pinned = t.pinned /\ u.id = x /\ u.conn = t.conn
BY DEF Tab

\* A list has as many tabs as ids.
LEMMA ListedLen ==
    ASSUME NEW o, NEW c, NEW N, Listed(o, c, N)
    PROVE IsFiniteSet(N) /\ Cardinality(N) = Len(o)
<1> DEFINE f == [k \in 1 .. Len(o) |-> o[k].id]
<1>1. o \in Seq(Tab) /\ Len(o) \in Nat /\ DOMAIN o = 1 .. Len(o)
  BY DEF Listed
<1>2. f \in Bijection(1 .. Len(o), N)
  <2>1. f \in [1 .. Len(o) -> N]
    BY <1>1 DEF Listed, Ids
  <2>2. \A a, b \in 1 .. Len(o) : f[a] = f[b] => a = b
    BY <1>1 DEF Listed, Distinct
  <2>3. \A n \in N : \E k \in 1 .. Len(o) : f[k] = n
    BY <1>1 DEF Listed, Ids
  <2> QED
    BY <2>1, <2>2, <2>3 DEF Bijection, Injection, Surjection, IsInjective
<1>3. IsFiniteSet(1 .. Len(o)) /\ Cardinality(1 .. Len(o)) = Len(o)
  BY <1>1, FS_Interval
<1> QED
  BY <1>2, <1>3, FS_Bijection DEF ExistsBijection

\* The ids of the tabs at the positions of I.
IdsAt(o, I) == {o[i].id : i \in I}

\* What is kept of a list.
LEMMA Picked ==
    ASSUME NEW o, NEW c, NEW N, Listed(o, c, N), NEW I \in SUBSET DOMAIN o
    PROVE LET u == Filter(o, I) IN
          /\ Listed(u, c, IdsAt(o, I))
          /\ \A k \in DOMAIN u : \E i \in I : u[k] = o[i]
          /\ Sorted(o) => Sorted(u)
<1> DEFINE u == Filter(o, I)
<1>1. o \in Seq(Tab) /\ Distinct(o) /\ \A k \in DOMAIN o : o[k].conn = c
  BY DEF Listed
<1>2. u \in Seq(Tab) /\ DOMAIN u = 1 .. Len(u)
  BY <1>1, Enumerated
<1>3. PICK e : Enumerates(e, Len(u), I) /\ \A k \in 1 .. Len(u) : u[k] = o[e[k]]
  BY <1>1, Enumerated
<1> HIDE DEF u
<1>4. \A k \in DOMAIN u : e[k] \in I /\ e[k] \in DOMAIN o /\ u[k] = o[e[k]]
  BY <1>2, <1>3 DEF Enumerates
<1>5. \A j, k \in DOMAIN u : j < k => e[j] < e[k]
  BY <1>2, <1>3 DEF Enumerates
<1>6. \A i \in I : \E k \in DOMAIN u : e[k] = i
  BY <1>2, <1>3 DEF Enumerates
<1>7. Ids(u) = IdsAt(o, I)
  BY <1>4, <1>6 DEF Ids, IdsAt
<1>8. Distinct(u)
  <2> SUFFICES ASSUME NEW j \in DOMAIN u, NEW k \in DOMAIN u, u[j].id = u[k].id PROVE j = k
    BY DEF Distinct
  <2>1. e[j] = e[k]
    BY <1>1, <1>4 DEF Distinct
  <2>2. ~(j < k) /\ ~(k < j)
    BY <1>1, <1>4, <1>5, <2>1
  <2> QED
    BY <1>2, <2>2
<1>9. Listed(u, c, IdsAt(o, I))
  BY <1>1, <1>2, <1>4, <1>7, <1>8 DEF Listed
<1>10. Sorted(o) => Sorted(u)
  BY <1>4, <1>5 DEF Sorted
<1>11. \A k \in DOMAIN u : \E i \in I : u[k] = o[i]
  BY <1>4
<1> QED
  BY <1>9, <1>10, <1>11 DEF u

\* Two lists one behind the other.
LEMMA Joined ==
    ASSUME NEW a, NEW b, NEW c, NEW A, NEW B, Listed(a, c, A), Listed(b, c, B), A \cap B = {}
    PROVE /\ Listed(a \o b, c, A \cup B)
          /\ (\A k \in DOMAIN a : a[k].pinned) /\ Sorted(b) => Sorted(a \o b)
          /\ Sorted(a) /\ (\A k \in DOMAIN b : ~b[k].pinned) => Sorted(a \o b)
<1> DEFINE t == a \o b
           m == Len(a)
           n == Len(b)
<1>1. /\ a \in Seq(Tab) /\ b \in Seq(Tab) /\ m \in Nat /\ n \in Nat
      /\ DOMAIN a = 1 .. m /\ DOMAIN b = 1 .. n
  BY DEF Listed
<1>2. /\ t \in Seq(Tab) /\ DOMAIN t = 1 .. m + n
      /\ \A k \in 1 .. m : t[k] = a[k]
      /\ \A k \in 1 .. n : t[m + k] = b[k]
  BY <1>1
<1> HIDE DEF t, m, n
<1>3. \A k \in DOMAIN t : \/ k \in DOMAIN a /\ t[k] = a[k]
                          \/ k - m \in DOMAIN b /\ t[k] = b[k - m] /\ k > m
  <2> SUFFICES ASSUME NEW k \in 1 .. m + n, k > m PROVE k - m \in 1 .. n /\ t[k] = b[k - m]
    BY <1>1, <1>2
  <2>1. k - m \in 1 .. n /\ k = m + (k - m)
    BY <1>1
  <2> QED
    BY <1>2, <2>1
<1>4. \A k \in DOMAIN b : m + k \in DOMAIN t
  BY <1>1, <1>2
<1>5. DOMAIN a \subseteq DOMAIN t
  BY <1>1, <1>2
<1>6. Ids(t) = A \cup B
  <2>1. \A k \in DOMAIN t : t[k].id \in A \cup B
    BY <1>3 DEF Listed, Ids
  <2>2. \A k \in DOMAIN a : a[k].id \in Ids(t)
    BY <1>1, <1>2, <1>5 DEF Ids
  <2>3. \A k \in DOMAIN b : b[k].id \in Ids(t)
    BY <1>1, <1>2, <1>4 DEF Ids
  <2> QED
    BY <2>1, <2>2, <2>3 DEF Listed, Ids
<1>7. Distinct(t)
  <2> SUFFICES ASSUME NEW i \in DOMAIN t, NEW j \in DOMAIN t, t[i].id = t[j].id PROVE i = j
    BY DEF Distinct
  <2>1. CASE i \in DOMAIN a /\ t[i] = a[i] /\ j \in DOMAIN a /\ t[j] = a[j]
    BY <2>1 DEF Listed, Distinct
  <2>2. CASE i - m \in DOMAIN b /\ t[i] = b[i - m] /\ j - m \in DOMAIN b /\ t[j] = b[j - m]
    <3>1. i - m = j - m
      BY <2>2 DEF Listed, Distinct
    <3> QED
      BY <1>1, <1>2, <3>1
  <2>3. CASE i \in DOMAIN a /\ t[i] = a[i] /\ j - m \in DOMAIN b /\ t[j] = b[j - m]
    BY <2>3 DEF Listed, Ids
  <2>4. CASE i - m \in DOMAIN b /\ t[i] = b[i - m] /\ j \in DOMAIN a /\ t[j] = a[j]
    BY <2>4 DEF Listed, Ids
  <2> QED
    BY <1>3, <2>1, <2>2, <2>3, <2>4
<1>8. \A k \in DOMAIN t : t[k].conn = c
  BY <1>3 DEF Listed
<1>9. Listed(t, c, A \cup B)
  BY <1>2, <1>6, <1>7, <1>8 DEF Listed
<1>10. ASSUME \/ (\A k \in DOMAIN a : a[k].pinned) /\ Sorted(b)
              \/ Sorted(a) /\ (\A k \in DOMAIN b : ~b[k].pinned)
       PROVE Sorted(t)
  <2> SUFFICES ASSUME NEW i \in DOMAIN t, NEW j \in DOMAIN t, i < j, t[j].pinned
               PROVE t[i].pinned
    BY DEF Sorted
  <2>0. i \in Nat /\ j \in Nat
    BY <1>1, <1>2
  <2>1. CASE j \in DOMAIN a /\ t[j] = a[j]
    <3>1. i \in DOMAIN a /\ t[i] = a[i]
      BY <1>1, <1>2, <2>0, <2>1
    <3> QED
      BY <1>10, <2>1, <3>1 DEF Sorted
  <2>2. CASE j - m \in DOMAIN b /\ t[j] = b[j - m] /\ i \in DOMAIN a /\ t[i] = a[i]
    BY <1>10, <2>2
  <2>3. CASE j - m \in DOMAIN b /\ t[j] = b[j - m] /\ i - m \in DOMAIN b /\ t[i] = b[i - m]
    <3>1. i - m < j - m
      BY <1>1, <2>0
    <3> QED
      BY <1>10, <2>3, <3>1 DEF Sorted
  <2> QED
    BY <1>3, <2>1, <2>2, <2>3
<1> QED
  BY <1>9, <1>10 DEF t

\* Position finds the tab that has the id.
LEMMA PositionIs ==
    ASSUME NEW s, NEW x, x \in Ids(s)
    PROVE Position(s, x) \in DOMAIN s /\ s[Position(s, x)].id = x
BY DEF Ids, Position

\* A list of one tab, and of none.
LEMMA SingleListed ==
    ASSUME NEW t \in Tab
    PROVE /\ Listed(<<t>>, t.conn, {t.id}) /\ Sorted(<<t>>)
          /\ \A c : Listed(<<>>, c, {})
<1>1. <<t>> \in Seq(Tab) /\ DOMAIN <<t>> = {1} /\ <<t>>[1] = t
  OBVIOUS
<1>2. <<>> \in Seq(Tab) /\ DOMAIN <<>> = {}
  OBVIOUS
<1> QED
  BY <1>1, <1>2 DEF Listed, Sorted, Distinct, Ids

\* The entries of a part of a sequence.
LEMMA PartIs ==
    ASSUME NEW S, NEW s \in Seq(S), NEW i \in 1 .. Len(s) + 1, NEW j \in 0 .. Len(s)
    PROVE LET u == SubSeq(s, i, j) IN
          /\ u \in Seq(S) /\ Len(u) = IF i <= j THEN j - i + 1 ELSE 0
          /\ \A k \in 1 .. Len(u) : u[k] = s[i - 1 + k]
OBVIOUS

\* A part of a list.
LEMMA PartListed ==
    ASSUME NEW o, NEW c, NEW N, Listed(o, c, N), NEW i \in 1 .. Len(o) + 1, NEW j \in 0 .. Len(o)
    PROVE LET u == SubSeq(o, i, j) IN
          /\ Listed(u, c, {o[k].id : k \in i .. j})
          /\ \A k \in DOMAIN u : i - 1 + k \in i .. j /\ u[k] = o[i - 1 + k]
          /\ Sorted(o) => Sorted(u)
          /\ u = Filter(o, i .. j)
<1> DEFINE u == SubSeq(o, i, j)
           e == [k \in 1 .. Len(u) |-> i - 1 + k]
<1>1. o \in Seq(Tab) /\ Len(o) \in Nat /\ DOMAIN o = 1 .. Len(o) /\ i \in Nat /\ j \in Nat
  BY DEF Listed
<1>2. /\ u \in Seq(Tab) /\ Len(u) \in Nat /\ DOMAIN u = 1 .. Len(u)
      /\ Len(u) = IF i <= j THEN j - i + 1 ELSE 0
      /\ \A k \in 1 .. Len(u) : u[k] = o[i - 1 + k]
  BY <1>1
<1> HIDE DEF u
<1>3. \A k \in 1 .. Len(u) : e[k] = i - 1 + k /\ i - 1 + k \in i .. j
  BY <1>1, <1>2
<1>4. e \in [1 .. Len(u) -> i .. j]
  BY <1>3
<1> HIDE DEF e
<1>5. \A k \in i .. j : k - i + 1 \in 1 .. Len(u) /\ e[k - i + 1] = k
  BY <1>1, <1>2, <1>3
<1>6. \A a, b \in 1 .. Len(u) : a < b => e[a] < e[b]
  BY <1>1, <1>2, <1>3
<1>7. Enumerates(e, Len(u), i .. j)
  BY <1>4, <1>5, <1>6, Zenon DEF Enumerates
<1>8. i .. j \in SUBSET DOMAIN o
  BY <1>1
<1>9. \A k \in 1 .. Len(u) : u[k] = o[e[k]]
  BY <1>2, <1>3
<1>10. Filter(o, i .. j) = u
  BY <1>1, <1>2, <1>7, <1>8, <1>9, FilterIs
<1>11. /\ Listed(u, c, IdsAt(o, i .. j))
       /\ Sorted(o) => Sorted(u)
  BY <1>8, <1>10, Picked
<1> QED
  BY <1>2, <1>3, <1>10, <1>11 DEF u, IdsAt

\* A tab of the connection, with an id of its own, anywhere in its list.
LEMMA InsertListed ==
    ASSUME NEW o, NEW c, NEW N, Listed(o, c, N), NEW t \in Tab, t.conn = c, t.id \notin N,
           NEW q \in 1 .. Len(o) + 1
    PROVE Listed(InsertAt(o, q, t), c, N \cup {t.id})
<1> DEFINE a == SubSeq(o, 1, q - 1)
           b == SubSeq(o, q, Len(o))
           A == {o[k].id : k \in 1 .. q - 1}
           B == {o[k].id : k \in q .. Len(o)}
<1>1. o \in Seq(Tab) /\ Len(o) \in Nat /\ DOMAIN o = 1 .. Len(o)
  BY DEF Listed
<1>2. Listed(a, c, A) /\ Listed(b, c, B)
  <2>1. 1 \in 1 .. Len(o) + 1 /\ q - 1 \in 0 .. Len(o) /\ Len(o) \in 0 .. Len(o)
    BY <1>1
  <2> QED
    BY <1>1, <2>1, PartListed
<1>3. A \cup B = N /\ A \cap B = {}
  <2>1. DOMAIN o = (1 .. q - 1) \cup (q .. Len(o))
    BY <1>1
  <2>2. A \cup B = N
    BY <2>1 DEF Listed, Ids
  <2>3. \A j \in 1 .. q - 1, k \in q .. Len(o) : o[j].id # o[k].id
    BY <1>1, <2>1 DEF Listed, Distinct
  <2> QED
    BY <2>2, <2>3
<1> HIDE DEF a, b, A, B
<1>4. Listed(<<t>>, c, {t.id})
  BY SingleListed
<1>5. Listed(a \o <<t>>, c, A \cup {t.id})
  BY <1>2, <1>3, <1>4, Joined
<1>6. Listed((a \o <<t>>) \o b, c, (A \cup {t.id}) \cup B)
  BY <1>2, <1>3, <1>5, Joined
<1>7. (A \cup {t.id}) \cup B = N \cup {t.id}
  BY <1>3
<1> QED
  BY <1>6, <1>7 DEF InsertAt, a, b

\* The entries of two sequences, one behind the other.
LEMMA Concatenated ==
    ASSUME NEW S, NEW a \in Seq(S), NEW b \in Seq(S)
    PROVE /\ a \o b \in Seq(S) /\ Len(a \o b) = Len(a) + Len(b)
          /\ \A k \in 1 .. Len(a) : (a \o b)[k] = a[k]
          /\ \A k \in 1 .. Len(b) : (a \o b)[Len(a) + k] = b[k]
OBVIOUS

\* The entries of a sequence into which one is inserted.
LEMMA Inserted ==
    ASSUME NEW S, NEW s \in Seq(S), NEW x \in S, NEW p \in 1 .. Len(s) + 1
    PROVE LET t == InsertAt(s, p, x) IN
          /\ t \in Seq(S) /\ Len(t) = Len(s) + 1 /\ DOMAIN t = 1 .. Len(s) + 1
          /\ \A k \in 1 .. p - 1 : t[k] = s[k]
          /\ t[p] = x
          /\ \A k \in p + 1 .. Len(s) + 1 : t[k] = s[k - 1]
<1> DEFINE n == Len(s)
           a == SubSeq(s, 1, p - 1)
           b == SubSeq(s, p, n)
           w == a \o <<x>>
           t == w \o b
<1>1. n \in Nat /\ p \in 1 .. n + 1
  OBVIOUS
<1>2. /\ a \in Seq(S) /\ Len(a) = p - 1 /\ \A k \in 1 .. p - 1 : a[k] = s[k]
      /\ b \in Seq(S) /\ Len(b) = n - p + 1 /\ \A k \in 1 .. n - p + 1 : b[k] = s[p - 1 + k]
  BY <1>1
<1> HIDE DEF a, b, n
<1>3. /\ w \in Seq(S) /\ Len(w) = p
      /\ \A k \in 1 .. p - 1 : w[k] = s[k]
      /\ w[p] = x
  BY <1>1, <1>2
<1> HIDE DEF w
<1>4. /\ t \in Seq(S) /\ Len(t) = Len(w) + Len(b)
      /\ \A k \in 1 .. p : t[k] = w[k]
      /\ \A k \in 1 .. n - p + 1 : t[p + k] = b[k]
  <2>1. w \in Seq(S) /\ b \in Seq(S)
    BY <1>2, <1>3
  <2>2. /\ t \in Seq(S) /\ Len(t) = Len(w) + Len(b)
        /\ \A k \in 1 .. Len(w) : t[k] = w[k]
        /\ \A k \in 1 .. Len(b) : t[Len(w) + k] = b[k]
    BY <2>1, Concatenated
  <2>3. Len(w) = p /\ Len(b) = n - p + 1
    BY <1>2, <1>3
  <2> HIDE DEF t
  <2> QED
    BY <2>2, <2>3
<1> HIDE DEF t
<1>5. Len(t) = n + 1 /\ DOMAIN t = 1 .. n + 1
  BY <1>1, <1>2, <1>3, <1>4
<1>6. ASSUME NEW k \in 1 .. n + 1
      PROVE /\ k < p => t[k] = s[k]
            /\ k = p => t[k] = x
            /\ k > p => t[k] = s[k - 1]
  <2>1. CASE k <= p
    BY <1>1, <1>3, <1>4, <2>1
  <2>2. CASE k > p
    <3>1. k - p \in 1 .. n - p + 1 /\ p + (k - p) = k /\ p - 1 + (k - p) = k - 1
      BY <1>1, <2>2
    <3>2. t[k] = b[k - p] /\ b[k - p] = s[k - 1]
      BY <1>2, <1>4, <3>1
    <3> QED
      BY <1>1, <2>2, <3>2
  <2> QED
    BY <1>1, <2>1, <2>2
<1>7. InsertAt(s, p, x) = t
  BY DEF InsertAt, t, w, a, b, n
<1> QED
  BY <1>1, <1>4, <1>5, <1>6, <1>7 DEF n

\* The entries behind the inserted one move on by one.
LEMMA InsertedAfter ==
    ASSUME NEW S, NEW s \in Seq(S), NEW x \in S, NEW p \in 1 .. Len(s) + 1,
           NEW k \in p + 1 .. Len(s) + 1
    PROVE InsertAt(s, p, x)[k] = s[k - 1]
<1> DEFINE t == InsertAt(s, p, x)
<1>1. \A j \in p + 1 .. Len(s) + 1 : t[j] = s[j - 1]
  BY Inserted
<1> HIDE DEF t
<1>2. t[k] = s[k - 1]
  BY <1>1
<1> QED
  BY <1>2 DEF t

\* A list without one of its tabs.
LEMMA RemoveListed ==
    ASSUME NEW o, NEW c, NEW N, Listed(o, c, N), NEW i \in DOMAIN o
    PROVE /\ Listed(RemoveAt(o, i), c, N \ {o[i].id})
          /\ Without(o, {o[i].id}) = RemoveAt(o, i)
          /\ Len(RemoveAt(o, i)) = Len(o) - 1
          /\ \A k \in 1 .. Len(o) - 1 : RemoveAt(o, i)[k] = o[IF k < i THEN k ELSE k + 1]
<1> DEFINE u == RemoveAt(o, i)
           n == Len(o)
           I == {k \in DOMAIN o : o[k].id \notin {o[i].id}}
           e == [k \in 1 .. n - 1 |-> IF k < i THEN k ELSE k + 1]
<1>1. o \in Seq(Tab) /\ n \in Nat /\ DOMAIN o = 1 .. n /\ i \in 1 .. n
  BY DEF Listed
<1>2. /\ u \in Seq(Tab) /\ Len(u) = n - 1 /\ n - 1 \in Nat
      /\ \A k \in 1 .. n - 1 : u[k] = o[IF k < i THEN k ELSE k + 1]
  <2> DEFINE a == SubSeq(o, 1, i - 1)
             b == SubSeq(o, i + 1, n)
  <2>1. /\ a \in Seq(Tab) /\ Len(a) = i - 1 /\ \A k \in 1 .. i - 1 : a[k] = o[k]
        /\ b \in Seq(Tab) /\ Len(b) = n - i /\ \A k \in 1 .. n - i : b[k] = o[i + k]
    <3>1. i \in 1 .. Len(o) + 1 /\ i - 1 \in 0 .. Len(o) /\ 1 \in 1 .. Len(o) + 1
          /\ i + 1 \in 1 .. Len(o) + 1 /\ n \in 0 .. Len(o)
      BY <1>1
    <3>2. a \in Seq(Tab) /\ Len(a) = i - 1 /\ \A k \in 1 .. i - 1 : a[k] = o[k]
      BY <1>1, <3>1, PartIs
    <3>3. b \in Seq(Tab) /\ Len(b) = n - i /\ \A k \in 1 .. n - i : b[k] = o[i + k]
      <4>1. /\ b \in Seq(Tab) /\ Len(b) = IF i + 1 <= n THEN n - (i + 1) + 1 ELSE 0
            /\ \A k \in 1 .. Len(b) : b[k] = o[(i + 1) - 1 + k]
        BY <1>1, <3>1, PartIs
      <4> HIDE DEF b
      <4>2. Len(b) = n - i
        BY <1>1, <4>1
      <4>3. ASSUME NEW k \in 1 .. n - i PROVE b[k] = o[i + k]
        <5>1. (i + 1) - 1 + k = i + k
          BY <1>1
        <5> QED
          BY <4>1, <4>2, <5>1
      <4> QED
        BY <4>1, <4>2, <4>3
    <3> QED
      BY <3>2, <3>3
  <2>2. u = a \o b
    BY DEF RemoveAt
  <2> HIDE DEF a, b, u
  <2>3. u \in Seq(Tab) /\ Len(u) = n - 1 /\ n - 1 \in Nat
    <3>1. u \in Seq(Tab) /\ Len(u) = Len(a) + Len(b)
      BY <2>1, <2>2, Concatenated
    <3>2. Len(a) = i - 1 /\ Len(b) = n - i
      BY <2>1
    <3> QED
      BY <1>1, <3>1, <3>2
  <2>4. ASSUME NEW k \in 1 .. n - 1, k < i PROVE u[k] = o[k]
    <3>1. k \in 1 .. i - 1
      BY <1>1, <2>4
    <3> QED
      BY <1>1, <2>1, <2>2, <3>1
  <2>5. ASSUME NEW k \in 1 .. n - 1, ~(k < i) PROVE u[k] = o[k + 1]
    <3>1. k - (i - 1) \in 1 .. n - i /\ i + (k - (i - 1)) = k + 1
      BY <1>1, <2>5
    <3>2. u[k] = b[k - (i - 1)]
      BY <1>1, <2>1, <2>2, <2>5
    <3> QED
      BY <2>1, <3>1, <3>2
  <2> QED
    BY <2>3, <2>4, <2>5
<1>3. I = DOMAIN o \ {i}
  BY DEF Listed, Distinct
<1> HIDE DEF u, n, I
<1>4. \A k \in 1 .. n - 1 : e[k] = IF k < i THEN k ELSE k + 1
  OBVIOUS
<1>5. e \in [1 .. n - 1 -> I]
  BY <1>1, <1>3
<1> HIDE DEF e
<1>6. \A a, b \in 1 .. n - 1 : a < b => e[a] < e[b]
  BY <1>1, <1>4
<1>7. \A k \in I : \E j \in 1 .. n - 1 : e[j] = k
  <2> SUFFICES ASSUME NEW k \in I PROVE \E j \in 1 .. n - 1 : e[j] = k
    OBVIOUS
  <2>1. k \in 1 .. n /\ k # i
    BY <1>1, <1>3
  <2>2. CASE k < i
    <3>1. k \in 1 .. n - 1 /\ e[k] = k
      BY <1>1, <1>4, <2>1, <2>2
    <3> QED
      BY <3>1
  <2>3. CASE k > i
    <3>1. k - 1 \in 1 .. n - 1 /\ e[k - 1] = k
      BY <1>1, <1>4, <2>1, <2>3
    <3> QED
      BY <3>1
  <2> QED
    BY <1>1, <2>1, <2>2, <2>3
<1>8. Enumerates(e, Len(u), I)
  BY <1>2, <1>5, <1>6, <1>7, Zenon DEF Enumerates
<1>9. \A k \in 1 .. Len(u) : u[k] = o[e[k]]
  BY <1>2, <1>4
<1>10. I \in SUBSET DOMAIN o
  BY <1>3
<1>11. Filter(o, I) = u
  BY <1>1, <1>2, <1>8, <1>9, <1>10, FilterIs
<1>12. Listed(u, c, IdsAt(o, I))
  BY <1>10, <1>11, Picked
<1>13. IdsAt(o, I) = N \ {o[i].id}
  BY <1>3 DEF Listed, Ids, Distinct, IdsAt
<1> QED
  BY <1>2, <1>11, <1>12, <1>13 DEF u, n, I, Without

\* Without and Pinned are filters.
LEMMA WithoutListed ==
    ASSUME NEW o, NEW c, NEW N, Listed(o, c, N), NEW X
    PROVE Listed(Without(o, X), c, N \ X) /\ (Sorted(o) => Sorted(Without(o, X)))
<1> DEFINE I == {i \in DOMAIN o : o[i].id \notin X}
<1>1. IdsAt(o, I) = N \ X
  BY DEF Listed, Ids, IdsAt
<1>2. I \in SUBSET DOMAIN o /\ Without(o, X) = Filter(o, I)
  BY DEF Without
<1> HIDE DEF I
<1> QED
  BY <1>1, <1>2, Picked

PinnedIds(o, b) == IdsAt(o, {j \in DOMAIN o : o[j].pinned = b})

\* The pinned tabs of a list, or the others.
LEMMA PinnedListed ==
    ASSUME NEW o, NEW c, NEW N, Listed(o, c, N), NEW b
    PROVE /\ Listed(Pinned(o, b), c, PinnedIds(o, b))
          /\ \A k \in DOMAIN Pinned(o, b) : Pinned(o, b)[k].pinned = b
<1> DEFINE I == {j \in DOMAIN o : o[j].pinned = b}
           u == Filter(o, I)
<1>1. I \in SUBSET DOMAIN o /\ \A i \in I : o[i].pinned = b
  OBVIOUS
<1>2. PinnedIds(o, b) = IdsAt(o, I) /\ Pinned(o, b) = u
  BY DEF Pinned, PinnedIds
<1> HIDE DEF I
<1>3. Listed(u, c, IdsAt(o, I)) /\ \A k \in DOMAIN u : \E i \in I : u[k] = o[i]
  BY <1>1, Picked
<1> HIDE DEF u
<1> QED
  BY <1>1, <1>2, <1>3

\* The pinned tabs of a list, and the others.
LEMMA Halves ==
    ASSUME NEW o, NEW c, NEW N, Listed(o, c, N)
    PROVE /\ Listed(Pinned(o, TRUE), c, PinnedIds(o, TRUE))
          /\ Listed(Pinned(o, FALSE), c, PinnedIds(o, FALSE))
          /\ PinnedIds(o, TRUE) \cap PinnedIds(o, FALSE) = {}
          /\ PinnedIds(o, TRUE) \cup PinnedIds(o, FALSE) = N
<1>1. /\ Listed(Pinned(o, TRUE), c, PinnedIds(o, TRUE))
      /\ Listed(Pinned(o, FALSE), c, PinnedIds(o, FALSE))
  BY PinnedListed
<1>2. PinnedIds(o, TRUE) \cap PinnedIds(o, FALSE) = {}
  BY DEF Listed, Distinct, PinnedIds, IdsAt
<1>3. PinnedIds(o, TRUE) \cup PinnedIds(o, FALSE) = N
  <2>1. \A k \in DOMAIN o : o[k].pinned \in BOOLEAN
    BY TabFields DEF Listed
  <2> QED
    BY <2>1 DEF Listed, Ids, PinnedIds, IdsAt
<1> QED
  BY <1>1, <1>2, <1>3

-----------------------------------------------------------------------------
(***************************************************************************)
(* What the operations do to a connection's list.                          *)
(***************************************************************************)
LEMMA PinnedThenRestListed ==
    ASSUME NEW o, NEW c, NEW N, Listed(o, c, N)
    PROVE Listed(PinnedThenRest(o), c, N) /\ Sorted(PinnedThenRest(o))
<1> DEFINE a == Pinned(o, TRUE)
           b == Pinned(o, FALSE)
           A == PinnedIds(o, TRUE)
           B == PinnedIds(o, FALSE)
<1>1. Listed(a, c, A) /\ Listed(b, c, B) /\ A \cap B = {} /\ A \cup B = N
  BY Halves
<1>2. (\A k \in DOMAIN a : a[k].pinned) /\ \A k \in DOMAIN b : ~b[k].pinned
  BY PinnedListed
<1> HIDE DEF a, b, A, B
<1>3. Sorted(b)
  BY <1>2 DEF Sorted
<1>4. Listed(a \o b, c, A \cup B) /\ Sorted(a \o b)
  BY <1>1, <1>2, <1>3, Joined
<1> QED
  BY <1>1, <1>4 DEF PinnedThenRest, a, b

\* The pinned tabs of a sorted list are its first ones, and moving them to the front changes
\* nothing.
LEMMA SortedPrefix ==
    ASSUME NEW o, NEW c, NEW N, Listed(o, c, N), Sorted(o)
    PROVE /\ PinnedThenRest(o) = o
          /\ \E m \in 0 .. Len(o) : /\ \A k \in DOMAIN o : o[k].pinned <=> k <= m
                                    /\ Len(Pinned(o, TRUE)) = m
<1> DEFINE n == Len(o)
           U == {k \in 1 .. n + 1 : k = n + 1 \/ ~o[k].pinned}
<1>1. o \in Seq(Tab) /\ n \in Nat /\ DOMAIN o = 1 .. n
  BY DEF Listed
<1>2. \A k \in DOMAIN o : o[k].pinned \in BOOLEAN
  BY <1>1, TabFields
<1> HIDE DEF n
<1>3. U \in SUBSET Nat /\ n + 1 \in U
  BY <1>1
<1>4. PICK l \in U : \A k \in U : l <= k
  BY <1>3, Least
<1> DEFINE m == l - 1
<1>5. m \in 0 .. n /\ m \in Nat
  BY <1>1
<1>6. \A k \in DOMAIN o : o[k].pinned <=> k <= m
  <2> SUFFICES ASSUME NEW k \in DOMAIN o PROVE o[k].pinned <=> k <= m
    OBVIOUS
  <2>1. CASE k < l
    BY <1>1, <1>4, <2>1
  <2>2. CASE ~(k < l)
    <3>1. l \in DOMAIN o /\ ~o[l].pinned
      BY <1>1, <2>2
    <3>2. k = l \/ l < k
      BY <1>1, <2>2
    <3> QED
      BY <1>1, <2>2, <3>1, <3>2 DEF Sorted
  <2> QED
    BY <2>1, <2>2
<1> HIDE DEF m
<1>7. {j \in DOMAIN o : o[j].pinned = TRUE} = 1 .. m
  BY <1>1, <1>2, <1>5, <1>6
<1>8. {j \in DOMAIN o : o[j].pinned = FALSE} = m + 1 .. n
  BY <1>1, <1>2, <1>5, <1>6
<1> DEFINE a == SubSeq(o, 1, m)
           b == SubSeq(o, m + 1, n)
<1>9. Pinned(o, TRUE) = a /\ Pinned(o, FALSE) = b
  <2>1. /\ 1 \in 1 .. Len(o) + 1 /\ m \in 0 .. Len(o)
        /\ m + 1 \in 1 .. Len(o) + 1 /\ n \in 0 .. Len(o)
    BY <1>1, <1>5 DEF n
  <2>2. a = Filter(o, 1 .. m) /\ b = Filter(o, m + 1 .. n)
    BY <2>1, PartListed
  <2> QED
    BY <1>7, <1>8, <2>2 DEF Pinned
<1>10. /\ a \in Seq(Tab) /\ Len(a) = m /\ \A k \in 1 .. m : a[k] = o[k]
       /\ b \in Seq(Tab) /\ Len(b) = n - m /\ \A k \in 1 .. n - m : b[k] = o[m + k]
  <2>1. /\ 1 \in 1 .. Len(o) + 1 /\ m \in 0 .. Len(o) /\ Len(o) = n
        /\ m + 1 \in 1 .. Len(o) + 1 /\ n \in 0 .. Len(o)
    BY <1>1, <1>5 DEF n
  <2>2. /\ a \in Seq(Tab) /\ Len(a) = IF 1 <= m THEN m - 1 + 1 ELSE 0
        /\ \A k \in 1 .. Len(a) : a[k] = o[1 - 1 + k]
    BY <1>1, <2>1, PartIs
  <2>3. /\ b \in Seq(Tab) /\ Len(b) = IF m + 1 <= n THEN n - (m + 1) + 1 ELSE 0
        /\ \A k \in 1 .. Len(b) : b[k] = o[m + 1 - 1 + k]
    BY <1>1, <2>1, PartIs
  <2> HIDE DEF a, b
  <2>4. Len(a) = m /\ Len(b) = n - m
    BY <1>1, <1>5, <2>2, <2>3
  <2>5. \A k \in 1 .. m : a[k] = o[k]
    BY <1>5, <2>2, <2>4
  <2>6. \A k \in 1 .. n - m : b[k] = o[m + k]
    <3>1. \A k \in 1 .. n - m : m + 1 - 1 + k = m + k
      BY <1>5
    <3> QED
      BY <2>3, <2>4, <3>1
  <2> QED
    BY <2>2, <2>3, <2>4, <2>5, <2>6
<1> HIDE DEF a, b
<1>11. a \o b = o
  <2>1. /\ a \o b \in Seq(Tab) /\ Len(a \o b) = n
        /\ \A k \in 1 .. m : (a \o b)[k] = o[k]
        /\ \A k \in 1 .. n - m : (a \o b)[m + k] = o[m + k]
    <3>1. /\ a \o b \in Seq(Tab) /\ Len(a \o b) = Len(a) + Len(b)
          /\ \A k \in 1 .. Len(a) : (a \o b)[k] = a[k]
          /\ \A k \in 1 .. Len(b) : (a \o b)[Len(a) + k] = b[k]
      <4>1. a \in Seq(Tab) /\ b \in Seq(Tab)
        BY <1>10
      <4> QED
        BY <4>1
    <3>2. m + (n - m) = n
      BY <1>1, <1>5
    <3> QED
      BY <1>10, <3>1, <3>2
  <2>2. ASSUME NEW k \in 1 .. n PROVE (a \o b)[k] = o[k]
    <3>1. CASE k <= m
      <4>1. k \in 1 .. m
        BY <1>1, <1>5, <3>1
      <4> QED
        BY <2>1, <4>1
    <3>2. CASE k > m
      <4>1. k - m \in 1 .. n - m /\ m + (k - m) = k
        BY <1>1, <1>5, <3>2
      <4>2. (a \o b)[m + (k - m)] = o[m + (k - m)]
        BY <2>1, <4>1
      <4> QED
        BY <4>1, <4>2
    <3>3. k <= m \/ k > m
      BY <1>1, <1>5
    <3> QED
      BY <3>1, <3>2, <3>3, Zenon
  <2>3. Len(o) = n
    BY DEF n
  <2> QED
    BY <1>1, <2>1, <2>2, <2>3
<1> QED
  BY <1>5, <1>6, <1>9, <1>10, <1>11 DEF PinnedThenRest, n

\* setTabPinned, of the connection's list.
LEMMA RepinnedListed ==
    ASSUME NEW o, NEW c, NEW N, Listed(o, c, N), NEW t \in Tab, t.conn = c, t.id \in N
    PROVE LET others == Without(o, {t.id})
              u == Pinned(others, TRUE) \o <<t>> \o Pinned(others, FALSE)
          IN  Listed(u, c, N) /\ Sorted(u)
<1> DEFINE others == Without(o, {t.id})
           a == Pinned(others, TRUE)
           b == Pinned(others, FALSE)
           A == PinnedIds(others, TRUE)
           B == PinnedIds(others, FALSE)
<1>1. Listed(others, c, N \ {t.id})
  BY WithoutListed
<1>2. /\ Listed(a, c, A) /\ Listed(b, c, B)
      /\ A \cap B = {} /\ A \cup B = N \ {t.id}
  BY <1>1, Halves
<1>3. (\A k \in DOMAIN a : a[k].pinned) /\ \A k \in DOMAIN b : ~b[k].pinned
  BY <1>1, PinnedListed
<1>4. Listed(<<t>>, c, {t.id}) /\ Sorted(<<t>>)
  BY SingleListed
<1> HIDE DEF a, b, A, B, others
<1>5. Listed(a \o <<t>>, c, A \cup {t.id}) /\ Sorted(a \o <<t>>)
  BY <1>2, <1>3, <1>4, Joined
<1>6. /\ Listed((a \o <<t>>) \o b, c, (A \cup {t.id}) \cup B)
      /\ Sorted((a \o <<t>>) \o b)
  BY <1>2, <1>3, <1>5, Joined
<1>7. (A \cup {t.id}) \cup B = N
  BY <1>2
<1> QED
  BY <1>6, <1>7 DEF a, b, others

\* clampTabGap keeps a gap within its bounds.
LEMMA Clamped ==
    ASSUME NEW n \in Int, NEW low \in Int, NEW high \in Int, low <= high
    PROVE LET g == Min({Max({n, low}), high}) IN
          g \in Int /\ low <= g /\ g <= high
<1>1. PICK a \in {n, low} : a >= n /\ a >= low
  OBVIOUS
<1>2. Max({n, low}) \in {n, low} /\ Max({n, low}) >= n /\ Max({n, low}) >= low
  <2>1. a \in {n, low} /\ \A y \in {n, low} : a >= y
    BY <1>1
  <2> QED
    BY <2>1 DEF Max
<1> DEFINE x == Max({n, low})
<1>3. x \in Int /\ x >= low
  BY <1>2
<1> HIDE DEF x
<1>4. PICK b \in {x, high} : b <= x /\ b <= high
  BY <1>3
<1>5. Min({x, high}) \in {x, high} /\ Min({x, high}) <= x /\ Min({x, high}) <= high
  <2>1. b \in {x, high} /\ \A y \in {x, high} : b =< y
    BY <1>4
  <2> QED
    BY <2>1 DEF Min
<1> QED
  BY <1>3, <1>5 DEF x

\* moveTab, of the connection's list: clampTabGap keeps the tab in its group.
LEMMA MovedListed ==
    ASSUME NEW o, NEW c, NEW N, Listed(o, c, N), Sorted(o), NEW x \in N, NEW insertAt \in Int
    PROVE LET from == Position(o, x)
              gap == clampTabGap(o, from, insertAt)
              target == IF gap >= from THEN gap ELSE gap + 1
              u == InsertAt(RemoveAt(o, from), target, o[from])
          IN  Listed(u, c, N) /\ Sorted(u)
<1> DEFINE from == Position(o, x)
           gap == clampTabGap(o, from, insertAt)
           target == IF gap >= from THEN gap ELSE gap + 1
           n == Len(o)
           r == RemoveAt(o, from)
           u == InsertAt(r, target, o[from])
<1>1. o \in Seq(Tab) /\ n \in Nat /\ DOMAIN o = 1 .. n
  BY DEF Listed
<1>2. from \in 1 .. n /\ o[from].id = x
  BY <1>1, PositionIs DEF Listed
<1>3. PICK m \in 0 .. n : /\ \A k \in DOMAIN o : o[k].pinned <=> k <= m
                          /\ Len(Pinned(o, TRUE)) = m
  BY SortedPrefix
<1>4. gap \in Int /\ IF from <= m THEN 0 <= gap /\ gap <= m ELSE m <= gap /\ gap <= n
  <2> DEFINE range == groupGapRange(o, from)
  <2>1. range = IF from <= m THEN <<0, m>> ELSE <<m, n>>
    BY <1>1, <1>2, <1>3 DEF groupGapRange
  <2>2. range[1] \in Int /\ range[2] \in Int /\ range[1] <= range[2]
    BY <1>1, <1>3, <2>1
  <2>3. gap = Min({Max({insertAt, range[1]}), range[2]})
    BY DEF clampTabGap
  <2> HIDE DEF range, gap
  <2>4. gap \in Int /\ range[1] <= gap /\ gap <= range[2]
    BY <2>2, <2>3, Clamped
  <2> QED
    BY <2>1, <2>4
<1> HIDE DEF from, gap
<1>5. target \in 1 .. n /\ IF from <= m THEN target <= m ELSE target > m
  BY <1>1, <1>2, <1>3, <1>4
<1>6. /\ Listed(r, c, N \ {x}) /\ Len(r) = n - 1 /\ r \in Seq(Tab)
      /\ \A k \in 1 .. n - 1 : r[k] = o[IF k < from THEN k ELSE k + 1]
  <2>1. from \in DOMAIN o /\ o[from].id = x
    BY <1>1, <1>2
  <2>2. /\ Listed(r, c, N \ {o[from].id}) /\ Len(r) = Len(o) - 1
        /\ \A k \in 1 .. Len(o) - 1 : r[k] = o[IF k < from THEN k ELSE k + 1]
    BY <2>1, RemoveListed, Zenon
  <2> QED
    BY <2>1, <2>2 DEF Listed
<1> HIDE DEF r, target, n
<1>7. o[from] \in Tab /\ o[from].conn = c
  BY <1>1, <1>2 DEF Listed
<1>8. Listed(u, c, N)
  <2>1. target \in 1 .. Len(r) + 1
    BY <1>1, <1>5, <1>6
  <2>2. Listed(u, c, (N \ {x}) \cup {x})
    BY <1>2, <1>6, <1>7, <2>1, InsertListed
  <2>3. (N \ {x}) \cup {x} = N
    OBVIOUS
  <2> QED
    BY <2>2, <2>3
<1>9. /\ DOMAIN u = 1 .. n
      /\ \A k \in 1 .. target - 1 : u[k] = r[k]
      /\ u[target] = o[from]
      /\ \A k \in target + 1 .. n : u[k] = r[k - 1]
  <2> DEFINE y == o[from]
  <2>1. target \in 1 .. Len(r) + 1 /\ Len(r) + 1 = n
    BY <1>1, <1>5, <1>6
  <2>2. r \in Seq(Tab) /\ y \in Tab /\ u = InsertAt(r, target, y)
    BY <1>6, <1>7
  <2> HIDE DEF u, y
  <2>3. DOMAIN u = 1 .. Len(r) + 1 /\ u[target] = y
    BY <2>1, <2>2, Inserted
  <2>4. \A k \in 1 .. target - 1 : u[k] = r[k]
    BY <2>1, <2>2, Inserted
  <2>5. ASSUME NEW k \in target + 1 .. Len(r) + 1 PROVE u[k] = r[k - 1]
    <3>1. InsertAt(r, target, y)[k] = r[k - 1]
      BY <2>1, <2>2, <2>5, InsertedAfter
    <3> QED
      BY <2>2, <3>1
  <2> QED
    BY <2>1, <2>3, <2>4, <2>5 DEF y
<1> HIDE DEF u
<1>10. \A k \in 1 .. n : u[k].pinned <=> k <= m
  <2> SUFFICES ASSUME NEW k \in 1 .. n PROVE u[k].pinned <=> k <= m
    OBVIOUS
  <2>1. CASE k < target /\ k < from
    <3>1. k \in 1 .. target - 1 /\ k \in 1 .. n - 1
      BY <1>1, <1>5, <2>1
    <3>2. u[k] = o[k]
      BY <1>6, <1>9, <2>1, <3>1
    <3> QED
      BY <1>1, <1>3, <3>2
  <2>2. CASE k < target /\ ~(k < from)
    <3>1. k \in 1 .. target - 1 /\ k \in 1 .. n - 1 /\ k + 1 \in 1 .. n
      BY <1>1, <1>5, <2>2
    <3>2. u[k] = o[k + 1]
      BY <1>6, <1>9, <2>2, <3>1
    <3>3. k + 1 <= m <=> k <= m
      BY <1>1, <1>2, <1>3, <1>5, <2>2
    <3> QED
      BY <1>1, <1>3, <3>1, <3>2, <3>3
  <2>3. CASE k = target
    <3>1. from <= m <=> k <= m
      BY <1>1, <1>2, <1>3, <1>5, <2>3
    <3>2. u[k] = o[from]
      BY <1>5, <1>9, <2>3
    <3> QED
      BY <1>1, <1>2, <1>3, <3>1, <3>2
  <2>4. CASE k > target
    <3>1. k - 1 \in 1 .. n - 1 /\ k \in target + 1 .. n
      BY <1>1, <1>5, <2>4
    <3>2. u[k] = r[k - 1]
      BY <1>9, <3>1
    <3>3. CASE k - 1 < from
      <4>1. u[k] = o[k - 1] /\ k - 1 \in 1 .. n
        BY <1>1, <1>6, <3>1, <3>2, <3>3
      <4>2. k - 1 <= m <=> k <= m
        BY <1>1, <1>2, <1>3, <1>5, <2>4, <3>3
      <4> QED
        BY <1>1, <1>3, <4>1, <4>2
    <3>4. CASE ~(k - 1 < from)
      <4>1. u[k] = o[(k - 1) + 1]
        BY <1>6, <3>1, <3>2, <3>4
      <4>2. u[k] = o[k]
        BY <1>1, <4>1
      <4> QED
        BY <1>1, <1>3, <4>2
    <3> QED
      BY <3>3, <3>4
  <2> QED
    BY <1>1, <1>5, <2>1, <2>2, <2>3, <2>4
<1>11. Sorted(u)
  BY <1>1, <1>3, <1>9, <1>10 DEF Sorted
<1> QED
  BY <1>8, <1>11 DEF u, r, target, gap, from

-----------------------------------------------------------------------------
(***************************************************************************)
(* What the operations on the list of all tabs do to the connections'.     *)
(***************************************************************************)
Slots(s, c) == {i \in DOMAIN s : s[i].conn = c}

\* A filter that keeps everything, or nothing.
LEMMA FilterAll ==
    ASSUME NEW S, NEW s \in Seq(S)
    PROVE Filter(s, DOMAIN s) = s /\ Filter(s, {}) = <<>>
<1> DEFINE e == [k \in 1 .. Len(s) |-> k]
           u == Filter(s, {})
<1>1. Len(s) \in Nat /\ DOMAIN s = 1 .. Len(s)
  OBVIOUS
<1>2. \A k \in 1 .. Len(s) : e[k] = k
  OBVIOUS
<1>3. e \in [1 .. Len(s) -> DOMAIN s]
  BY <1>1
<1> HIDE DEF e
<1>4. Enumerates(e, Len(s), DOMAIN s)
  BY <1>1, <1>2, <1>3 DEF Enumerates
<1>5. Filter(s, DOMAIN s) = s
  BY <1>2, <1>4, FilterIs
<1>6. u \in Seq(S) /\ \E g : Enumerates(g, Len(u), {})
  BY Enumerated
<1> HIDE DEF u
<1>7. Len(u) \in Nat /\ ~(1 \in 1 .. Len(u))
  BY <1>6 DEF Enumerates
<1>8. u = <<>>
  BY <1>6, <1>7
<1> QED
  BY <1>5, <1>8 DEF u

\* What Of keeps: the tabs of the connection, in the order of the list of all.
LEMMA OfIs ==
    ASSUME NEW s \in Seq(Tab), NEW c
    PROVE /\ Of(s, c) \in Seq(Tab)
          /\ \A k \in DOMAIN Of(s, c) : Of(s, c)[k].conn = c
          /\ \A i \in Slots(s, c) : \E k \in DOMAIN Of(s, c) : Of(s, c)[k] = s[i]
          /\ \A k \in DOMAIN Of(s, c) : \E i \in Slots(s, c) : Of(s, c)[k] = s[i]
          /\ Ids(Of(s, c)) = {s[i].id : i \in Slots(s, c)}
          /\ Ids(Of(s, c)) \subseteq Ids(s) /\ Ids(s) \subseteq TabIds
          /\ \E e : /\ Enumerates(e, Len(Of(s, c)), Slots(s, c))
                    /\ \A k \in 1 .. Len(Of(s, c)) : Of(s, c)[k] = s[e[k]]
<1> DEFINE u == Of(s, c)
           I == Slots(s, c)
<1>1. I \in SUBSET DOMAIN s /\ \A i \in I : s[i].conn = c
  BY DEF Slots
<1>2. u = Filter(s, I)
  BY DEF Of, Slots
<1> HIDE DEF u, I
<1>3. u \in Seq(Tab)
  BY <1>1, <1>2, Enumerated
<1>4. PICK e : Enumerates(e, Len(u), I) /\ \A k \in 1 .. Len(u) : u[k] = s[e[k]]
  BY <1>1, <1>2, Enumerated
<1>5. DOMAIN u = 1 .. Len(u)
  BY <1>3
<1>6. \A k \in DOMAIN u : e[k] \in I /\ u[k] = s[e[k]]
  BY <1>4, <1>5 DEF Enumerates
<1>7. \A i \in I : \E k \in DOMAIN u : e[k] = i
  BY <1>4, <1>5 DEF Enumerates
<1>8. Ids(u) = {s[i].id : i \in I} /\ Ids(u) \subseteq Ids(s)
  BY <1>1, <1>6, <1>7 DEF Ids
<1>9. Ids(s) \subseteq TabIds
  BY TabFields DEF Ids
<1>10. \A i \in I : \E k \in DOMAIN u : u[k] = s[i]
  BY <1>6, <1>7
<1>11. /\ \A k \in DOMAIN u : u[k].conn = c
       /\ \A k \in DOMAIN u : \E i \in I : u[k] = s[i]
  BY <1>1, <1>6
<1> QED
  BY <1>3, <1>4, <1>8, <1>9, <1>10, <1>11, Zenon DEF u, I

\* A list that has only tabs of one connection.
LEMMA OfOwn ==
    ASSUME NEW o \in Seq(Tab), NEW c, \A k \in DOMAIN o : o[k].conn = c
    PROVE Of(o, c) = o /\ \A d : d # c => Of(o, d) = <<>>
<1>1. {i \in DOMAIN o : o[i].conn = c} = DOMAIN o
  OBVIOUS
<1>2. \A d : d # c => {i \in DOMAIN o : o[i].conn = d} = {}
  OBVIOUS
<1> QED
  BY <1>1, <1>2, FilterAll DEF Of

\* Tabs may be removed before or after a connection's are taken.
LEMMA OfWithout ==
    ASSUME NEW s \in Seq(Tab), NEW d, NEW X
    PROVE /\ Of(Without(s, X), d) = Without(Of(s, d), X)
          /\ Without(s, X) \in Seq(Tab)
<1> DEFINE I == {i \in DOMAIN s : s[i].id \notin X}
           J == {i \in DOMAIN s : s[i].conn = d}
           u == Filter(s, I)
           v == Filter(s, J)
           V == {t \in Tab : t.conn = d}
           W == {t \in Tab : t.id \notin X}
<1>1. u \in Seq(Tab) /\ v \in Seq(Tab)
  BY Enumerated
<1> DEFINE A == {k \in DOMAIN u : u[k].conn = d}
           B == {k \in DOMAIN v : v[k].id \notin X}
           C == {i \in DOMAIN s : s[i].conn = d /\ s[i].id \notin X}
<1>2. Filter(u, A) = Filter(s, C)
  <2>1. I \in SUBSET DOMAIN s /\ C \in SUBSET I /\ A \in SUBSET DOMAIN u
    OBVIOUS
  <2>2. \A i \in I : i \in C <=> s[i] \in V
    OBVIOUS
  <2> HIDE DEF u, I
  <2>3. \A k \in DOMAIN u : k \in A <=> u[k] \in V
    BY <1>1
  <2> HIDE DEF A, C, V
  <2> QED
    BY <2>1, <2>2, <2>3, FilterTwice DEF u
<1>3. Filter(v, B) = Filter(s, C)
  <2>1. J \in SUBSET DOMAIN s /\ C \in SUBSET J /\ B \in SUBSET DOMAIN v
    OBVIOUS
  <2>2. \A i \in J : i \in C <=> s[i] \in W
    OBVIOUS
  <2> HIDE DEF v, J
  <2>3. \A k \in DOMAIN v : k \in B <=> v[k] \in W
    BY <1>1
  <2> HIDE DEF B, C, W
  <2> QED
    BY <2>1, <2>2, <2>3, FilterTwice, SMTT(30) DEF v
<1>4. Without(s, X) = u /\ Of(s, d) = v
  BY DEF Without, Of
<1>5. Of(u, d) = Filter(u, A) /\ Without(v, X) = Filter(v, B)
  BY DEF Without, Of
<1> HIDE DEF A, B, C, u, v
<1> QED
  BY <1>1, <1>2, <1>3, <1>4, <1>5

\* OfOthers has no tab of the connection, and all of the others.
LEMMA OfOfOthers ==
    ASSUME NEW s \in Seq(Tab), NEW c
    PROVE /\ OfOthers(s, c) \in Seq(Tab)
          /\ Of(OfOthers(s, c), c) = <<>>
          /\ \A d : d # c => Of(OfOthers(s, c), d) = Of(s, d)
<1> DEFINE I == {i \in DOMAIN s : s[i].conn # c}
           u == Filter(s, I)
           V(d) == {t \in Tab : t.conn = d}
<1>1. u \in Seq(Tab) /\ OfOthers(s, c) = u
  BY Enumerated DEF OfOthers
<1>2. ASSUME NEW d
      PROVE Of(u, d) = Filter(s, {i \in I : s[i].conn = d})
  <2> DEFINE A == {k \in DOMAIN u : u[k].conn = d}
             C == {i \in I : s[i].conn = d}
             W == V(d)
  <2>1. I \in SUBSET DOMAIN s /\ C \in SUBSET I /\ A \in SUBSET DOMAIN u
    OBVIOUS
  <2>2. \A i \in I : i \in C <=> s[i] \in W
    OBVIOUS
  <2> HIDE DEF u, I
  <2>3. \A k \in DOMAIN u : k \in A <=> u[k] \in W
    BY <1>1
  <2>4. Of(u, d) = Filter(u, A)
    BY DEF Of
  <2> HIDE DEF A, C, W
  <2>5. Filter(u, A) = Filter(s, C)
    BY <2>1, <2>2, <2>3, FilterTwice DEF u
  <2> QED
    BY <2>4, <2>5 DEF C
<1>3. {i \in I : s[i].conn = c} = {}
  OBVIOUS
<1>4. \A d : d # c => {i \in I : s[i].conn = d} = {i \in DOMAIN s : s[i].conn = d}
  OBVIOUS
<1> HIDE DEF u, I
<1>5. Of(u, c) = <<>>
  BY <1>2, <1>3, FilterAll
<1>6. \A d : d # c => Of(u, d) = Of(s, d)
  BY <1>2, <1>4 DEF Of
<1> QED
  BY <1>1, <1>5, <1>6

\* The connections of two lists, one behind the other.
LEMMA OfJoined ==
    ASSUME NEW a \in Seq(Tab), NEW b \in Seq(Tab), NEW d
    PROVE Of(a \o b, d) = Of(a, d) \o Of(b, d)
<1> DEFINE t == a \o b
           u == Of(a, d)
           v == Of(b, d)
           w == u \o v
           m == Len(u)
           n == Len(v)
           l == Len(a)
<1>1. PICK e : /\ Enumerates(e, m, Slots(a, d))
               /\ \A k \in 1 .. m : u[k] = a[e[k]]
  BY OfIs
<1>2. PICK g : /\ Enumerates(g, n, Slots(b, d))
               /\ \A k \in 1 .. n : v[k] = b[g[k]]
  BY OfIs
<1>3. u \in Seq(Tab) /\ v \in Seq(Tab) /\ m \in Nat /\ n \in Nat
  BY OfIs
<1>4. /\ t \in Seq(Tab) /\ DOMAIN t = 1 .. l + Len(b) /\ l \in Nat /\ Len(b) \in Nat
      /\ DOMAIN a = 1 .. l /\ DOMAIN b = 1 .. Len(b)
      /\ \A k \in 1 .. l : t[k] = a[k]
      /\ \A k \in 1 .. Len(b) : t[l + k] = b[k]
  OBVIOUS
<1> HIDE DEF u, v
<1>5. /\ w \in Seq(Tab) /\ Len(w) = m + n
      /\ \A k \in 1 .. m : w[k] = u[k]
      /\ \A k \in 1 .. n : w[m + k] = v[k]
  BY <1>3, Concatenated
<1> HIDE DEF t, w, m, n, l
<1> DEFINE h == [k \in 1 .. m + n |-> IF k <= m THEN e[k] ELSE l + g[k - m]]
<1>6. \A k \in 1 .. m : k \in 1 .. m + n /\ h[k] = e[k]
  BY <1>3
<1>7. \A k \in 1 .. n : m + k \in 1 .. m + n /\ h[m + k] = l + g[k]
  <2> SUFFICES ASSUME NEW k \in 1 .. n PROVE m + k \in 1 .. m + n /\ h[m + k] = l + g[k]
    OBVIOUS
  <2>1. m + k \in 1 .. m + n /\ ~(m + k <= m) /\ (m + k) - m = k
    BY <1>3
  <2> QED
    BY <2>1
<1>8. h = [k \in 1 .. m + n |-> h[k]]
  OBVIOUS
<1> HIDE DEF h
<1>9. \A k \in 1 .. m + n : k \in 1 .. m \/ \E j \in 1 .. n : k = m + j
  <2> SUFFICES ASSUME NEW k \in 1 .. m + n, k > m PROVE \E j \in 1 .. n : k = m + j
    BY <1>3
  <2>1. k - m \in 1 .. n /\ k = m + (k - m)
    BY <1>3
  <2> QED
    BY <2>1
<1>10. \A k \in 1 .. m : e[k] \in 1 .. l /\ e[k] \in Slots(t, d)
  <2>1. \A k \in 1 .. m : e[k] \in Slots(a, d)
    BY <1>1 DEF Enumerates
  <2>2. Slots(a, d) \subseteq Slots(t, d) /\ Slots(a, d) \subseteq 1 .. l
    BY <1>4 DEF Slots
  <2> QED
    BY <2>1, <2>2
<1>11. \A i \in Slots(b, d) : i \in 1 .. Len(b) /\ l + i \in Slots(t, d)
  BY <1>4 DEF Slots
<1>12. \A k \in 1 .. n : g[k] \in Slots(b, d) /\ g[k] \in 1 .. Len(b) /\ l + g[k] \in Slots(t, d)
  BY <1>2, <1>11 DEF Enumerates
<1>13. h \in [1 .. m + n -> Slots(t, d)]
  <2>1. \A k \in 1 .. m + n : h[k] \in Slots(t, d)
    BY <1>6, <1>7, <1>9, <1>10, <1>12
  <2> QED
    BY <1>8, <2>1
<1>14. \A j, k \in 1 .. m + n : j < k => h[j] < h[k]
  <2> SUFFICES ASSUME NEW j \in 1 .. m + n, NEW k \in 1 .. m + n, j < k PROVE h[j] < h[k]
    OBVIOUS
  <2>1. CASE k \in 1 .. m
    <3>1. j \in 1 .. m
      BY <1>3, <2>1
    <3> QED
      BY <1>1, <1>6, <2>1, <3>1 DEF Enumerates
  <2>2. CASE j \in 1 .. m /\ \E i \in 1 .. n : k = m + i
    <3>1. PICK i \in 1 .. n : k = m + i
      BY <2>2
    <3>2. h[j] = e[j] /\ h[k] = l + g[i] /\ e[j] \in 1 .. l /\ g[i] \in 1 .. Len(b)
      BY <1>6, <1>7, <1>10, <1>12, <2>2, <3>1
    <3> QED
      BY <1>4, <3>2
  <2>3. CASE (\E i \in 1 .. n : j = m + i) /\ \E i \in 1 .. n : k = m + i
    <3>1. PICK i \in 1 .. n : j = m + i
      BY <2>3
    <3>2. PICK p \in 1 .. n : k = m + p
      BY <2>3
    <3>3. i < p
      BY <1>3, <3>1, <3>2
    <3>4. g[i] < g[p] /\ g[i] \in 1 .. Len(b) /\ g[p] \in 1 .. Len(b)
      BY <1>2, <1>12, <3>3 DEF Enumerates
    <3>5. h[j] = l + g[i] /\ h[k] = l + g[p]
      BY <1>7, <3>1, <3>2
    <3> QED
      BY <1>4, <3>4, <3>5
  <2> QED
    BY <1>9, <2>1, <2>2, <2>3
<1>15. \A i \in Slots(t, d) : \E k \in 1 .. m + n : h[k] = i
  <2> SUFFICES ASSUME NEW i \in Slots(t, d) PROVE \E k \in 1 .. m + n : h[k] = i
    OBVIOUS
  <2>1. i \in 1 .. l + Len(b) /\ t[i].conn = d
    BY <1>4 DEF Slots
  <2>2. CASE i <= l
    <3>1. i \in Slots(a, d)
      BY <1>4, <2>1, <2>2 DEF Slots
    <3>2. PICK k \in 1 .. m : e[k] = i
      BY <1>1, <3>1 DEF Enumerates
    <3> QED
      BY <1>6, <3>2
  <2>3. CASE i > l
    <3>1. i - l \in 1 .. Len(b) /\ l + (i - l) = i
      BY <1>4, <2>1, <2>3
    <3>2. t[i] = b[i - l]
      BY <1>4, <3>1
    <3>3. i - l \in Slots(b, d)
      BY <1>4, <2>1, <3>1, <3>2 DEF Slots
    <3>4. PICK k \in 1 .. n : g[k] = i - l
      BY <1>2, <3>3 DEF Enumerates
    <3>5. m + k \in 1 .. m + n /\ h[m + k] = i
      BY <1>7, <3>1, <3>4
    <3> QED
      BY <3>5
  <2> QED
    BY <1>4, <2>1, <2>2, <2>3
<1>16. Enumerates(h, Len(w), Slots(t, d))
  BY <1>5, <1>13, <1>14, <1>15, Zenon DEF Enumerates
<1>17. \A k \in 1 .. Len(w) : w[k] = t[h[k]]
  <2>1. \A k \in 1 .. m : w[k] = t[h[k]]
    BY <1>1, <1>4, <1>5, <1>6, <1>10
  <2>2. ASSUME NEW k \in 1 .. n PROVE w[m + k] = t[h[m + k]]
    <3>1. w[m + k] = v[k] /\ v[k] = b[g[k]]
      BY <1>2, <1>5
    <3>2. h[m + k] = l + g[k] /\ g[k] \in 1 .. Len(b)
      BY <1>7, <1>12
    <3>3. t[l + g[k]] = b[g[k]]
      BY <1>4, <3>2
    <3> QED
      BY <3>1, <3>2, <3>3
  <2> QED
    BY <1>5, <1>9, <2>1, <2>2
<1>18. Slots(t, d) \in SUBSET DOMAIN t
  BY DEF Slots
<1>19. t \in Seq(Tab) /\ w \in Seq(Tab)
  BY <1>4, <1>5
<1>20. Filter(t, Slots(t, d)) = w
  BY <1>16, <1>17, <1>18, <1>19, FilterIs
<1> QED
  BY <1>20 DEF Of, Slots, t, w, u, v

\* In t, connection c has the list own, and the other connections have what they have in s.
Changed(s, t, c, own) ==
    /\ t \in Seq(Tab)
    /\ Of(t, c) = own
    /\ \A d \in Conns \ {c} : Of(t, d) = Of(s, d)

\* Reslot gives a connection the list it is handed.
LEMMA ReslotChanges ==
    ASSUME NEW s \in Seq(Tab), NEW c, NEW ordered \in Seq(Tab),
           Len(ordered) = Len(Of(s, c)), \A k \in DOMAIN ordered : ordered[k].conn = c
    PROVE Changed(s, Reslot(s, c, ordered), c, ordered)
<1> DEFINE t == Reslot(s, c, ordered)
           n == Len(ordered)
           I == Slots(s, c)
           rank(i) == Cardinality({j \in 1 .. i : s[j].conn = c})
<1>1. PICK e : Enumerates(e, n, I)
  BY OfIs
<1>2. /\ n \in Nat /\ DOMAIN ordered = 1 .. n
      /\ DOMAIN s = 1 .. Len(s) /\ Len(s) \in Nat
      /\ I \in SUBSET DOMAIN s /\ I \in SUBSET Nat
      /\ \A i \in DOMAIN s : i \in I <=> s[i].conn = c
  BY DEF Slots
<1>3. \A k \in 1 .. n : e[k] \in I
  BY <1>1 DEF Enumerates
<1>4. \A k \in 1 .. n : rank(e[k]) = k
  <2> SUFFICES ASSUME NEW k \in 1 .. n PROVE rank(e[k]) = k
    OBVIOUS
  <2>1. e[k] \in 1 .. Len(s)
    BY <1>2, <1>3
  <2>2. {j \in 1 .. e[k] : s[j].conn = c} = UpTo(I, e[k])
    BY <1>2, <2>1 DEF UpTo
  <2>3. I \in SUBSET Nat /\ n \in Nat
    BY <1>2
  <2> HIDE DEF I, n
  <2>4. Cardinality(UpTo(I, e[k])) = k
    BY <1>1, <2>3, Rank
  <2> QED
    BY <2>2, <2>4
<1>5. \A i \in DOMAIN s : t[i] = IF i \in I THEN ordered[rank(i)] ELSE s[i]
  BY <1>2 DEF Reslot
<1>6. t = [i \in DOMAIN s |-> t[i]]
  BY DEF Reslot
<1> HIDE DEF t, I, rank, n
<1>7. \A k \in 1 .. n : t[e[k]] = ordered[k]
  BY <1>2, <1>3, <1>4, <1>5
<1>8. \A i \in I : \E k \in 1 .. n : t[i] = ordered[k]
  BY <1>1, <1>7 DEF Enumerates
<1>9. \A i \in DOMAIN s : i \notin I => t[i] = s[i]
  BY <1>5
<1>10. t \in Seq(Tab) /\ DOMAIN t = DOMAIN s
  <2>1. \A i \in DOMAIN s : t[i] \in Tab
    BY <1>2, <1>8, <1>9
  <2> QED
    BY <1>2, <1>6, <2>1
<1>11. \A i \in DOMAIN s : t[i].conn = s[i].conn
  BY <1>2, <1>8, <1>9
<1>12. I = {i \in DOMAIN t : t[i].conn = c}
  BY <1>2, <1>10, <1>11
<1>13. Filter(t, I) = ordered
  <2>1. I \in SUBSET DOMAIN t /\ \A k \in 1 .. Len(ordered) : ordered[k] = t[e[k]]
    BY <1>2, <1>7, <1>10 DEF n
  <2>2. Enumerates(e, Len(ordered), I)
    BY <1>1 DEF n
  <2> QED
    BY <1>10, <2>1, <2>2, FilterIs
<1>14. Of(t, c) = ordered
  BY <1>12, <1>13 DEF Of
<1>15. ASSUME NEW d \in Conns \ {c} PROVE Of(t, d) = Of(s, d)
  <2> DEFINE J == {i \in DOMAIN s : s[i].conn = d}
             u == Filter(t, J)
  <2>1. J = {i \in DOMAIN t : t[i].conn = d}
    BY <1>10, <1>11
  <2>2. \A i \in J : t[i] = s[i]
    BY <1>2, <1>9
  <2>3. J \in SUBSET DOMAIN s /\ J \in SUBSET DOMAIN t
    BY <1>10
  <2>4. Of(t, d) = Filter(t, J) /\ Of(s, d) = Filter(s, J)
    BY <2>1 DEF Of
  <2> HIDE DEF J
  <2>5. PICK g : Enumerates(g, Len(u), J) /\ \A k \in 1 .. Len(u) : u[k] = t[g[k]]
    BY <1>10, <2>3, Enumerated
  <2>6. u \in Seq(Tab)
    BY <1>10, <2>3, Enumerated
  <2> HIDE DEF u
  <2>7. \A k \in 1 .. Len(u) : u[k] = s[g[k]]
    BY <2>2, <2>5 DEF Enumerates
  <2>8. Filter(s, J) = u
    BY <2>3, <2>5, <2>6, <2>7, FilterIs
  <2> QED
    BY <2>4, <2>8 DEF u
<1> QED
  BY <1>10, <1>14, <1>15 DEF Changed, t

\* A sequence cut in two.
LEMMA Cut ==
    ASSUME NEW S, NEW s \in Seq(S), NEW m \in 0 .. Len(s)
    PROVE LET a == SubSeq(s, 1, m)
              b == SubSeq(s, m + 1, Len(s))
          IN  a \in Seq(S) /\ b \in Seq(S) /\ Len(a) = m /\ a \o b = s
<1> DEFINE a == SubSeq(s, 1, m)
           b == SubSeq(s, m + 1, Len(s))
           t == a \o b
           n == Len(s)
<1>1. n \in Nat /\ m \in Nat /\ m <= n
  OBVIOUS
<1>2. /\ a \in Seq(S) /\ Len(a) = m /\ \A k \in 1 .. m : a[k] = s[k]
      /\ b \in Seq(S) /\ Len(b) = n - m /\ \A k \in 1 .. n - m : b[k] = s[m + k]
  OBVIOUS
<1> HIDE DEF a, b, n
<1>3. /\ t \in Seq(S) /\ Len(t) = n
      /\ \A k \in 1 .. m : t[k] = s[k]
      /\ \A k \in 1 .. n - m : t[m + k] = s[m + k]
  <2>1. /\ t \in Seq(S) /\ Len(t) = Len(a) + Len(b)
        /\ \A k \in 1 .. Len(a) : t[k] = a[k]
        /\ \A k \in 1 .. Len(b) : t[Len(a) + k] = b[k]
    <3>1. a \in Seq(S) /\ b \in Seq(S)
      BY <1>2
    <3> QED
      BY <3>1
  <2> HIDE DEF t
  <2>2. m + (n - m) = n
    BY <1>1
  <2> QED
    BY <1>2, <2>1, <2>2
<1> HIDE DEF t
<1>4. \A k \in 1 .. n : t[k] = s[k]
  <2> SUFFICES ASSUME NEW k \in 1 .. n, k > m PROVE t[k] = s[k]
    BY <1>1, <1>3
  <2>1. k - m \in 1 .. n - m /\ m + (k - m) = k
    BY <1>1
  <2>2. t[m + (k - m)] = s[m + (k - m)]
    BY <1>3, <2>1
  <2> QED
    BY <2>1, <2>2
<1>5. t = s
  <2>1. Len(s) = n
    BY DEF n
  <2> QED
    BY <1>1, <1>3, <1>4, <2>1
<1> QED
  BY <1>2, <1>5 DEF a, b, t, n

\* Between two parts.
LEMMA InsertBetween ==
    ASSUME NEW S, NEW a \in Seq(S), NEW b \in Seq(S), NEW x \in S
    PROVE InsertAt(a \o b, Len(a) + 1, x) = (a \o <<x>>) \o b
<1> DEFINE s == a \o b
           m == Len(a)
           n == Len(b)
<1>1. m \in Nat /\ n \in Nat /\ s \in Seq(S) /\ Len(s) = m + n /\ m \in 0 .. Len(s)
  OBVIOUS
<1>2. /\ \A k \in 1 .. m : s[k] = a[k]
      /\ \A k \in 1 .. n : s[m + k] = b[k]
  OBVIOUS
<1> HIDE DEF s, m, n
<1>3. SubSeq(s, 1, m) = a
  BY <1>1, <1>2 DEF m
<1>4. SubSeq(s, m + 1, Len(s)) = b
  <2>1. /\ SubSeq(s, m + 1, Len(s)) \in Seq(S) /\ Len(SubSeq(s, m + 1, Len(s))) = n
        /\ \A k \in 1 .. n : SubSeq(s, m + 1, Len(s))[k] = s[m + k]
    BY <1>1
  <2> QED
    BY <1>1, <1>2, <2>1 DEF n
<1>5. (m + 1) - 1 = m
  BY <1>1
<1> QED
  BY <1>3, <1>4, <1>5 DEF InsertAt, s, m

\* append is an insertion behind the last.
LEMMA AppendIs ==
    ASSUME NEW S, NEW s \in Seq(S), NEW x \in S
    PROVE Append(s, x) = InsertAt(s, Len(s) + 1, x) /\ Len(s) + 1 \in 1 .. Len(s) + 1
<1>1. s \o <<>> = s
  OBVIOUS
<1>2. InsertAt(s \o <<>>, Len(s) + 1, x) = (s \o <<x>>) \o <<>>
  <2> DEFINE z == <<>>
  <2>1. z \in Seq(S)
    OBVIOUS
  <2> HIDE DEF z
  <2>2. InsertAt(s \o z, Len(s) + 1, x) = (s \o <<x>>) \o z
    BY <2>1, InsertBetween
  <2> QED
    BY <2>2 DEF z
<1>3. (s \o <<x>>) \o <<>> = Append(s, x)
  OBVIOUS
<1> QED
  BY <1>1, <1>2, <1>3

\* An insertion in the list of all tabs is one in the connection's list.
LEMMA OfInserted ==
    ASSUME NEW s \in Seq(Tab), NEW t \in Tab, NEW m \in 0 .. Len(s),
           NEW c, t.conn = c, NEW k, k = Len(Of(SubSeq(s, 1, m), c))
    PROVE /\ k \in 0 .. Len(Of(s, c))
          /\ Changed(s, InsertAt(s, m + 1, t), c, InsertAt(Of(s, c), k + 1, t))
<1> DEFINE a == SubSeq(s, 1, m)
           b == SubSeq(s, m + 1, Len(s))
<1>1. a \in Seq(Tab) /\ b \in Seq(Tab) /\ Len(a) = m /\ a \o b = s
  BY Cut
<1>2. k = Len(Of(a, c))
  OBVIOUS
<1> HIDE DEF a, b
<1>3. InsertAt(s, m + 1, t) = (a \o <<t>>) \o b
  BY <1>1, InsertBetween
<1> DEFINE w == a \o <<t>>
<1>4. <<t>> \in Seq(Tab) /\ \A j \in DOMAIN <<t>> : <<t>>[j].conn = c
  OBVIOUS
<1>5. Of(<<t>>, c) = <<t>> /\ \A d : d # c => Of(<<t>>, d) = <<>>
  <2> DEFINE o == <<t>>
  <2>1. o \in Seq(Tab) /\ \A j \in DOMAIN o : o[j].conn = c
    BY <1>4
  <2> HIDE DEF o
  <2>2. Of(o, c) = o /\ \A d : d # c => Of(o, d) = <<>>
    BY <2>1, OfOwn
  <2> QED
    BY <2>2 DEF o
<1>6. w \in Seq(Tab) /\ \A d : Of(w, d) = Of(a, d) \o Of(<<t>>, d)
  <2>1. \A d : Of(a \o <<t>>, d) = Of(a, d) \o Of(<<t>>, d)
    BY <1>1, <1>4, OfJoined
  <2> QED
    BY <1>1, <1>4, <2>1, Concatenated
<1> HIDE DEF w
<1>7. w \o b \in Seq(Tab) /\ \A d : Of(w \o b, d) = Of(w, d) \o Of(b, d)
  <2>1. \A d : Of(w \o b, d) = Of(w, d) \o Of(b, d)
    BY <1>1, <1>6, OfJoined
  <2> QED
    BY <1>1, <1>6, <2>1, Concatenated
<1>8. \A d : Of(a, d) \in Seq(Tab) /\ Of(b, d) \in Seq(Tab)
  BY <1>1, OfIs
<1>9. \A d : Of(s, d) = Of(a, d) \o Of(b, d)
  <2>1. \A d : Of(a \o b, d) = Of(a, d) \o Of(b, d)
    BY <1>1, OfJoined
  <2> QED
    BY <1>1, <2>1
<1>10. Of(w \o b, c) = InsertAt(Of(s, c), k + 1, t)
  <2>1. Of(w \o b, c) = (Of(a, c) \o <<t>>) \o Of(b, c)
    BY <1>5, <1>6, <1>7
  <2> DEFINE u == Of(a, c)
             v == Of(b, c)
             o == Of(s, c)
  <2>2. u \in Seq(Tab) /\ v \in Seq(Tab) /\ o = u \o v /\ k = Len(u)
    BY <1>2, <1>8, <1>9
  <2>3. Of(w \o b, c) = (u \o <<t>>) \o v
    BY <2>1
  <2> HIDE DEF u, v, o
  <2>4. InsertAt(u \o v, Len(u) + 1, t) = (u \o <<t>>) \o v
    BY <2>2, InsertBetween
  <2>5. Of(w \o b, c) = InsertAt(o, k + 1, t)
    BY <2>2, <2>3, <2>4
  <2> QED
    BY <2>5 DEF o
<1>11. ASSUME NEW d, d # c PROVE Of(w \o b, d) = Of(s, d)
  <2>1. Of(w, d) = Of(a, d) \o <<>>
    BY <1>5, <1>6, <1>11
  <2>2. Of(a, d) \o <<>> = Of(a, d)
    BY <1>8
  <2> QED
    BY <1>7, <1>9, <2>1, <2>2
<1>12. k \in 0 .. Len(Of(s, c))
  <2> DEFINE u == Of(a, c)
             v == Of(b, c)
  <2>1. u \in Seq(Tab) /\ v \in Seq(Tab)
    BY <1>8
  <2>2. Of(s, c) = u \o v /\ k = Len(u)
    BY <1>2, <1>9
  <2> HIDE DEF u, v
  <2> QED
    BY <2>1, <2>2
<1> QED
  BY <1>3, <1>7, <1>10, <1>11, <1>12 DEF Changed, w

\* So many of the first m tabs are the connection's.
LEMMA PrefixOf ==
    ASSUME NEW s \in Seq(Tab), NEW c, NEW m \in 0 .. Len(s), NEW e,
           Enumerates(e, Len(Of(s, c)), Slots(s, c)), NEW k \in 0 .. Len(Of(s, c)),
           \A j \in 1 .. Len(Of(s, c)) : e[j] <= m <=> j <= k
    PROVE Len(Of(SubSeq(s, 1, m), c)) = k
<1> DEFINE a == SubSeq(s, 1, m)
           n == Len(Of(s, c))
           I == Slots(s, c)
           J == {i \in I : i <= m}
           g == [j \in 1 .. k |-> e[j]]
           v == [j \in 1 .. k |-> s[e[j]]]
<1>1. n \in Nat /\ k \in Nat /\ \A j \in 1 .. k : j \in 1 .. n
  <2>1. n \in Nat
    BY OfIs
  <2> HIDE DEF n
  <2> QED
    BY <2>1 DEF n
<1>2. /\ a \in Seq(Tab) /\ DOMAIN a = 1 .. m /\ \A i \in 1 .. m : a[i] = s[i]
  OBVIOUS
<1>3. I \in SUBSET DOMAIN s /\ DOMAIN s = 1 .. Len(s) /\ Len(s) \in Nat /\ m \in Nat /\ m <= Len(s)
  BY DEF Slots
<1>4. \A i \in DOMAIN s : i \in I <=> s[i].conn = c
  BY DEF Slots
<1> HIDE DEF a, I, n
<1>5. \A j \in 1 .. n : e[j] \in I /\ (e[j] <= m <=> j <= k)
  BY DEF Enumerates, n, I
<1>6. \A i \in I : \E j \in 1 .. n : e[j] = i
  BY DEF Enumerates, n, I
<1>7. \A i, j \in 1 .. n : i < j => e[i] < e[j]
  BY DEF Enumerates, n, I
<1>8. J = {i \in DOMAIN a : a[i].conn = c} /\ J \in SUBSET DOMAIN a
  BY <1>2, <1>3, <1>4
<1>9. \A j \in 1 .. k : g[j] = e[j] /\ g[j] \in J /\ v[j] = s[e[j]] /\ v[j] \in Tab
  BY <1>1, <1>3, <1>5
<1>10. v \in Seq(Tab) /\ Len(v) = k
  BY <1>1, <1>9
<1>11. g \in [1 .. k -> J]
  BY <1>9
<1> HIDE DEF g, v
<1>12. \A i, j \in 1 .. k : i < j => g[i] < g[j]
  BY <1>1, <1>7, <1>9
<1>13. \A i \in J : \E j \in 1 .. k : g[j] = i
  <2> SUFFICES ASSUME NEW i \in J PROVE \E j \in 1 .. k : g[j] = i
    OBVIOUS
  <2>1. PICK j \in 1 .. n : e[j] = i
    BY <1>6
  <2>2. j \in 1 .. k
    BY <1>1, <1>5, <2>1
  <2> QED
    BY <1>9, <2>1, <2>2
<1> HIDE DEF J
<1>14. Enumerates(g, Len(v), J)
  BY <1>10, <1>11, <1>12, <1>13, Zenon DEF Enumerates
<1>15. \A j \in 1 .. Len(v) : v[j] = a[g[j]]
  <2>1. \A j \in 1 .. k : g[j] \in 1 .. m
    BY <1>2, <1>8, <1>9
  <2> QED
    BY <1>2, <1>9, <1>10, <2>1
<1>16. Filter(a, J) = v
  BY <1>2, <1>8, <1>10, <1>14, <1>15, FilterIs
<1>17. Of(a, c) = v
  BY <1>8, <1>16 DEF Of
<1> QED
  BY <1>10, <1>17 DEF a

\* A reopened tab gets the position it had in the connection's list, or the last.
LEMMA InsertReopened ==
    ASSUME NEW s \in Seq(Tab), NEW c, NEW entry, entry.tab \in Tab, entry.tab.conn = c,
           entry.index \in Nat \ {0}, NEW x \in TabIds
    PROVE LET o == Of(s, c)
              p == IF entry.index <= Len(o) THEN entry.index ELSE Len(o) + 1
          IN  /\ Changed(s, insertReopenedTab(s, c, entry, x), c,
                         InsertAt(o, p, [entry.tab EXCEPT !.id = x]))
              /\ p \in 1 .. Len(o) + 1
<1> DEFINE o == Of(s, c)
           n == Len(o)
           q == entry.index
           p == IF q <= n THEN q ELSE n + 1
           t == [entry.tab EXCEPT !.id = x]
           I == Slots(s, c)
           places == [i \in DOMAIN s |-> i]
           own == Filter(places, I)
           r == insertReopenedTab(s, c, entry, x)
<1>1. t \in Tab /\ t.conn = c
  BY TabFields
<1>2. n \in Nat /\ q \in Nat /\ q > 0
  <2>1. o \in Seq(Tab)
    BY OfIs
  <2> HIDE DEF o
  <2> QED
    BY <2>1
<1>3. PICK e : Enumerates(e, n, I)
  BY OfIs
<1>4. I \in SUBSET DOMAIN s /\ DOMAIN s = 1 .. Len(s) /\ Len(s) \in Nat
  BY DEF Slots
<1>5. places \in Seq(Nat) /\ DOMAIN places = DOMAIN s /\ \A i \in DOMAIN s : places[i] = i
  BY <1>4
<1> HIDE DEF places, o
<1>6. /\ own \in Seq(Nat)
      /\ \E g : /\ Enumerates(g, Len(own), I)
                /\ \A k \in 1 .. Len(own) : own[k] = places[g[k]]
  <2>1. I \in SUBSET DOMAIN places
    BY <1>4, <1>5
  <2> HIDE DEF I
  <2> QED
    BY <1>5, <2>1, Enumerated
<1>7. PICK g : Enumerates(g, Len(own), I) /\ \A k \in 1 .. Len(own) : own[k] = places[g[k]]
  BY <1>6
<1> HIDE DEF own
<1>8. Len(own) = n /\ g = e
  <2>1. I \in SUBSET Nat /\ Len(own) \in Nat
    BY <1>4, <1>6
  <2> HIDE DEF I, n
  <2> QED
    BY <1>2, <1>3, <1>7, <2>1, Unique
<1> HIDE DEF n, q
<1>9. \A k \in 1 .. n : own[k] = e[k] /\ e[k] \in I /\ e[k] \in 1 .. Len(s)
  <2>1. \A k \in 1 .. n : e[k] \in I
    BY <1>3 DEF Enumerates
  <2> HIDE DEF I
  <2>2. \A k \in 1 .. n : own[k] = places[e[k]]
    BY <1>7, <1>8
  <2> QED
    BY <1>4, <1>5, <2>1, <2>2
<1>10. \A j, k \in 1 .. n : j < k => e[j] < e[k]
  BY <1>3 DEF Enumerates
<1>11. r = CASE own = <<>> -> Append(s, t)
             [] own # <<>> /\ q <= Len(own) -> InsertAt(s, own[q], t)
             [] OTHER -> InsertAt(s, Last(own) + 1, t)
  BY DEF insertReopenedTab, own, places, I, Slots, t, q
<1> HIDE DEF r, I, t
<1>12. ASSUME NEW m \in 0 .. Len(s), NEW k \in 0 .. n, \A j \in 1 .. n : e[j] <= m <=> j <= k
       PROVE Changed(s, InsertAt(s, m + 1, t), c, InsertAt(o, k + 1, t))
  <2>1. Len(Of(SubSeq(s, 1, m), c)) = k
    BY <1>3, <1>12, PrefixOf DEF n, o, I
  <2> QED
    BY <1>1, <2>1, OfInserted DEF o
<1>13. p \in 1 .. n + 1
  BY <1>2
<1>14. ASSUME n = 0 PROVE Changed(s, r, c, InsertAt(o, p, t))
  <2>1. own = <<>>
    BY <1>6, <1>8, <1>14
  <2>2. r = InsertAt(s, Len(s) + 1, t)
    BY <1>1, <1>11, <2>1, AppendIs
  <2>3. Len(s) \in 0 .. Len(s) /\ 0 \in 0 .. n /\ \A j \in 1 .. n : e[j] <= Len(s) <=> j <= 0
    BY <1>4, <1>14
  <2>4. Changed(s, InsertAt(s, Len(s) + 1, t), c, InsertAt(o, 0 + 1, t))
    BY <1>12, <2>3
  <2>5. p = 0 + 1
    BY <1>2, <1>14
  <2> QED
    BY <2>2, <2>4, <2>5
<1>15. ASSUME n # 0 /\ q <= n PROVE Changed(s, r, c, InsertAt(o, p, t))
  <2>1. q \in 1 .. n /\ own # <<>> /\ p = q /\ q \in 1 .. Len(own)
    BY <1>2, <1>6, <1>8, <1>15
  <2>2. r = InsertAt(s, e[q], t)
    BY <1>8, <1>9, <1>11, <1>15, <2>1
  <2>3. e[q] - 1 \in 0 .. Len(s) /\ (e[q] - 1) + 1 = e[q] /\ q - 1 \in 0 .. n /\ (q - 1) + 1 = q
    BY <1>2, <1>4, <1>9, <2>1
  <2>4. \A j \in 1 .. n : e[j] <= e[q] - 1 <=> j <= q - 1
    <3> SUFFICES ASSUME NEW j \in 1 .. n PROVE e[j] <= e[q] - 1 <=> j <= q - 1
      OBVIOUS
    <3>1. e[j] \in Nat /\ e[q] \in Nat
      BY <1>9, <2>1
    <3>2. (j < q => e[j] < e[q]) /\ (q < j => e[q] < e[j]) /\ (q = j => e[q] = e[j])
      BY <1>10, <2>1
    <3> QED
      BY <1>2, <2>1, <3>1, <3>2
  <2>5. Changed(s, InsertAt(s, (e[q] - 1) + 1, t), c, InsertAt(o, (q - 1) + 1, t))
    BY <1>12, <2>3, <2>4
  <2> QED
    BY <2>1, <2>2, <2>3, <2>5
<1>16. ASSUME n # 0 /\ ~(q <= n) PROVE Changed(s, r, c, InsertAt(o, p, t))
  <2>1. n \in 1 .. n /\ own # <<>> /\ p = n + 1 /\ ~(q <= Len(own)) /\ Last(own) = own[n]
    BY <1>2, <1>6, <1>8, <1>16 DEF Last
  <2>2. r = InsertAt(s, e[n] + 1, t)
    BY <1>9, <1>11, <2>1
  <2>3. e[n] \in 0 .. Len(s) /\ n \in 0 .. n
    BY <1>2, <1>4, <1>9, <2>1
  <2>4. \A j \in 1 .. n : e[j] <= e[n] <=> j <= n
    <3> SUFFICES ASSUME NEW j \in 1 .. n PROVE e[j] <= e[n]
      BY <1>2
    <3>1. e[j] \in Nat /\ e[n] \in Nat
      BY <1>9, <2>1
    <3>2. j = n \/ j < n
      BY <1>2
    <3> QED
      BY <1>10, <2>1, <3>1, <3>2
  <2>5. Changed(s, InsertAt(s, e[n] + 1, t), c, InsertAt(o, n + 1, t))
    BY <1>12, <2>3, <2>4
  <2> QED
    BY <2>1, <2>2, <2>5
<1>17. Changed(s, r, c, InsertAt(o, p, t))
  BY <1>14, <1>15, <1>16
<1> QED
  BY <1>13, <1>17 DEF r, o, p, n, q, t

\* Every connection's list is a list of tabs, with the pinned ones first.
Tidy(s) ==
    /\ s \in Seq(Tab)
    /\ \A c \in Conns : Listed(Of(s, c), c, Ids(Of(s, c))) /\ Sorted(Of(s, c))

\* No two connections have tabs with the same id.
Apart(s) == \A c, d \in Conns : c # d => Ids(Of(s, c)) \cap Ids(Of(s, d)) = {}

\* In t, connection c has a list of the ids in N, and the others what they have in s.
Relisted(s, t, c, N) ==
    /\ t \in Seq(Tab)
    /\ Listed(Of(t, c), c, N) /\ Sorted(Of(t, c))
    /\ \A d \in Conns \ {c} : Of(t, d) = Of(s, d)

\* What Relisted says of the whole list.
LEMMA RelistedTidy ==
    ASSUME NEW s, NEW t, NEW c \in Conns, NEW N, Tidy(s), Relisted(s, t, c, N)
    PROVE Tidy(t) /\ Ids(Of(t, c)) = N /\ \A d \in Conns \ {c} : Ids(Of(t, d)) = Ids(Of(s, d))
<1>1. Ids(Of(t, c)) = N
  BY DEF Relisted, Listed
<1>2. \A d \in Conns \ {c} : Of(t, d) = Of(s, d)
  BY DEF Relisted
<1>3. \A d \in Conns : Listed(Of(t, d), d, Ids(Of(t, d))) /\ Sorted(Of(t, d))
  BY <1>1, <1>2 DEF Relisted, Tidy
<1> QED
  BY <1>1, <1>2, <1>3 DEF Tidy, Relisted

\* A list that stays as it is.
LEMMA Unchanged ==
    ASSUME NEW s, NEW c \in Conns, Tidy(s)
    PROVE Relisted(s, s, c, Ids(Of(s, c)))
BY DEF Tidy, Relisted

\* Any order of a connection's tabs in its slots.
LEMMA ReslotRelists ==
    ASSUME NEW s \in Seq(Tab), NEW c, NEW N, Listed(Of(s, c), c, N),
           NEW o, Listed(o, c, N), Sorted(o)
    PROVE Relisted(s, Reslot(s, c, o), c, N) /\ Of(Reslot(s, c, o), c) = o
<1>1. Len(o) = Len(Of(s, c))
  BY ListedLen
<1>2. o \in Seq(Tab) /\ \A k \in DOMAIN o : o[k].conn = c
  BY DEF Listed
<1>3. Changed(s, Reslot(s, c, o), c, o)
  BY <1>1, <1>2, ReslotChanges
<1> QED
  BY <1>3 DEF Changed, Relisted

\* keepPinnedTabsFirst sorts a connection's list.
LEMMA KeepPinned ==
    ASSUME NEW s \in Seq(Tab), NEW c, NEW N, Listed(Of(s, c), c, N)
    PROVE /\ Relisted(s, keepPinnedTabsFirst(s, c), c, N)
          /\ Of(keepPinnedTabsFirst(s, c), c) = PinnedThenRest(Of(s, c))
<1>1. Listed(PinnedThenRest(Of(s, c)), c, N) /\ Sorted(PinnedThenRest(Of(s, c)))
  BY PinnedThenRestListed
<1> QED
  BY <1>1, ReslotRelists DEF keepPinnedTabsFirst

\* What an operation does before the pinned tabs are put first again.
LEMMA ThenKeepPinned ==
    ASSUME NEW s, NEW t, NEW c, NEW o, Changed(s, t, c, o), NEW N, Listed(o, c, N)
    PROVE /\ Relisted(s, keepPinnedTabsFirst(t, c), c, N)
          /\ Of(keepPinnedTabsFirst(t, c), c) = PinnedThenRest(o)
<1>1. t \in Seq(Tab) /\ Of(t, c) = o /\ \A d \in Conns \ {c} : Of(t, d) = Of(s, d)
  BY DEF Changed
<1>2. /\ Relisted(t, keepPinnedTabsFirst(t, c), c, N)
      /\ Of(keepPinnedTabsFirst(t, c), c) = PinnedThenRest(o)
  BY <1>1, KeepPinned
<1> QED
  BY <1>1, <1>2 DEF Relisted

\* A new tab somewhere in the list.
LEMMA InsertRelists ==
    ASSUME NEW s, Tidy(s), NEW c \in Conns, NEW t \in Tab, t.conn = c, t.id \notin Ids(Of(s, c)),
           NEW m \in 0 .. Len(s)
    PROVE Relisted(s, keepPinnedTabsFirst(InsertAt(s, m + 1, t), c), c, Ids(Of(s, c)) \cup {t.id})
<1> DEFINE o == Of(s, c)
           k == Len(Of(SubSeq(s, 1, m), c))
           u == InsertAt(o, k + 1, t)
           N == Ids(Of(s, c))
<1>1. s \in Seq(Tab) /\ Listed(o, c, N)
  BY DEF Tidy
<1>2. k \in 0 .. Len(o) /\ Changed(s, InsertAt(s, m + 1, t), c, u)
  BY <1>1, OfInserted
<1>3. o \in Seq(Tab)
  BY <1>1 DEF Listed
<1> HIDE DEF o, k, N
<1>4. k + 1 \in 1 .. Len(o) + 1
  BY <1>2, <1>3
<1>5. t.id \notin N
  BY DEF N
<1>6. Listed(u, c, N \cup {t.id})
  BY <1>1, <1>4, <1>5, InsertListed
<1> HIDE DEF u
<1>7. Relisted(s, keepPinnedTabsFirst(InsertAt(s, m + 1, t), c), c, N \cup {t.id})
  BY <1>2, <1>6, ThenKeepPinned
<1> QED
  BY <1>7 DEF N

\* addTab.
LEMMA AddRelists ==
    ASSUME NEW s, Tidy(s), NEW c \in Conns, NEW t \in Tab, t.conn = c, t.id \notin Ids(Of(s, c)),
           NEW after
    PROVE Relisted(s, keepPinnedTabsFirst(insertTabAfter(s, after, t), c), c,
                   Ids(Of(s, c)) \cup {t.id})
<1>1. s \in Seq(Tab) /\ Len(s) \in Nat /\ DOMAIN s = 1 .. Len(s)
  BY DEF Tidy
<1>2. CASE after \in Ids(s)
  <2>1. Position(s, after) \in 0 .. Len(s)
    BY <1>1, <1>2, PositionIs
  <2>2. insertTabAfter(s, after, t) = InsertAt(s, Position(s, after) + 1, t)
    BY <1>2 DEF insertTabAfter
  <2> QED
    BY <2>1, <2>2, InsertRelists
<1>3. CASE after \notin Ids(s)
  <2>1. Len(s) \in 0 .. Len(s)
    BY <1>1
  <2>2. insertTabAfter(s, after, t) = InsertAt(s, Len(s) + 1, t)
    BY <1>1, <1>3, AppendIs DEF insertTabAfter
  <2> QED
    BY <2>1, <2>2, InsertRelists
<1> QED
  BY <1>2, <1>3

\* reopenClosedTab.
LEMMA ReopenRelists ==
    ASSUME NEW s, Tidy(s), NEW c \in Conns, NEW entry, entry.tab \in Tab, entry.tab.conn = c,
           entry.index \in Nat \ {0}, NEW x \in TabIds, x \notin Ids(Of(s, c))
    PROVE Relisted(s, keepPinnedTabsFirst(insertReopenedTab(s, c, entry, x), c), c,
                   Ids(Of(s, c)) \cup {x})
<1> DEFINE o == Of(s, c)
           p == IF entry.index <= Len(o) THEN entry.index ELSE Len(o) + 1
           t == [entry.tab EXCEPT !.id = x]
           u == InsertAt(o, p, t)
           N == Ids(Of(s, c))
<1>1. s \in Seq(Tab) /\ Listed(o, c, N)
  BY DEF Tidy
<1>2. Changed(s, insertReopenedTab(s, c, entry, x), c, u) /\ p \in 1 .. Len(o) + 1
  BY <1>1, InsertReopened
<1>3. t \in Tab /\ t.conn = c /\ t.id = x
  BY TabFields
<1> HIDE DEF o, p, t, N
<1>4. Listed(u, c, N \cup {x})
  <2>1. t.id \notin N
    BY <1>3 DEF N
  <2> QED
    BY <1>1, <1>2, <1>3, <2>1, InsertListed
<1> HIDE DEF u
<1>5. Relisted(s, keepPinnedTabsFirst(insertReopenedTab(s, c, entry, x), c), c, N \cup {x})
  BY <1>2, <1>4, ThenKeepPinned
<1> QED
  BY <1>5 DEF N

\* The notebook that waits.
LEMMA NotebookRelists ==
    ASSUME NEW s, Tidy(s), NEW c \in Conns, "notebook" \in Kinds,
           NEW x \in TabIds, x \notin Ids(Of(s, c))
    PROVE LET t == Notebook(s, c, x)
              N == Ids(Of(t, c))
          IN  /\ Relisted(s, t, c, N)
              /\ N \subseteq Ids(Of(s, c)) \cup {x}
              /\ NotebookTab(s, c, x) \in N
              /\ Of(t, c) = Of(s, c) \/ \E b \in Tab : Of(t, c) = Append(Of(s, c), b)
<1> DEFINE t == Notebook(s, c, x)
           N == Ids(Of(t, c))
           M == Ids(Of(s, c))
           tab == NewTab(x, c, "notebook")
<1>0. s \in Seq(Tab) /\ Len(s) \in Nat
  BY DEF Tidy
<1>1. CASE NotebookTabs(s, c) # {}
  <2>1. t = s
    BY <1>1 DEF Notebook
  <2>2. Relisted(s, s, c, M)
    BY Unchanged
  <2>3. PICK n \in NotebookTabs(s, c) : NotebookTab(s, c, x) = n.id
    BY <1>1 DEF NotebookTab
  <2>4. n \in ToSet(s) /\ n.conn = c
    BY <2>3 DEF NotebookTabs
  <2>5. PICK i \in DOMAIN s : s[i] = n
    BY <1>0, <2>4 DEF ToSet
  <2>6. s[i].id \in M
    BY <1>0, <2>4, <2>5, OfIs DEF Slots
  <2> QED
    BY <2>1, <2>2, <2>3, <2>5, <2>6
<1>2. CASE NotebookTabs(s, c) = {}
  <2> DEFINE w == Append(s, tab)
             o == Of(s, c)
             k == Len(Of(SubSeq(s, 1, Len(s)), c))
  <2>1. tab \in Tab /\ tab.conn = c /\ tab.id = x /\ tab.pinned = FALSE
    BY DEF NewTab, Tab
  <2>2. t = keepPinnedTabsFirst(w, c) /\ NotebookTab(s, c, x) = x
    BY <1>2 DEF Notebook, NotebookTab
  <2> HIDE DEF tab
  <2>3. SubSeq(s, 1, Len(s)) = s
    BY <1>0
  <2>4. k = Len(o) /\ k = Len(Of(SubSeq(s, 1, Len(s)), c))
    BY <2>3
  <2> HIDE DEF k
  <2>5. Changed(s, InsertAt(s, Len(s) + 1, tab), c, InsertAt(o, k + 1, tab))
    <3>1. Len(s) \in 0 .. Len(s)
      BY <1>0
    <3> QED
      BY <1>0, <2>1, <2>4, <3>1, OfInserted
  <2>6. Listed(o, c, M) /\ Sorted(o) /\ o \in Seq(Tab)
    BY DEF Tidy, Listed
  <2>7. w = InsertAt(s, Len(s) + 1, tab)
    BY <1>0, <2>1, AppendIs
  <2> HIDE DEF o, M, w
  <2>8. InsertAt(o, k + 1, tab) = Append(o, tab)
    BY <2>1, <2>4, <2>6, AppendIs
  <2>9. Listed(Append(o, tab), c, M \cup {x}) /\ Sorted(Append(o, tab))
    <3> DEFINE single == <<tab>>
    <3>1. Listed(single, c, {x})
      BY <2>1, SingleListed
    <3>2. \A j \in DOMAIN single : ~single[j].pinned
      BY <2>1
    <3>3. Append(o, tab) = o \o single
      BY <2>1, <2>6
    <3>4. M \cap {x} = {}
      BY DEF M
    <3> HIDE DEF single
    <3>5. Listed(o \o single, c, M \cup {x}) /\ Sorted(o \o single)
      BY <2>6, <3>1, <3>2, <3>4, Joined
    <3> QED
      BY <3>3, <3>5
  <2>10. /\ Relisted(s, t, c, M \cup {x})
         /\ Of(t, c) = PinnedThenRest(Append(o, tab))
    <3> DEFINE a == Append(o, tab)
    <3>1. Changed(s, w, c, a) /\ Listed(a, c, M \cup {x})
      BY <2>5, <2>7, <2>8, <2>9
    <3> HIDE DEF a
    <3>2. Relisted(s, t, c, M \cup {x}) /\ Of(t, c) = PinnedThenRest(a)
      BY <2>2, <3>1, ThenKeepPinned
    <3> QED
      BY <3>2 DEF a
  <2>11. Of(t, c) = Append(o, tab)
    BY <2>9, <2>10, SortedPrefix
  <2> HIDE DEF t
  <2>12. N = M \cup {x}
    BY <2>10 DEF Relisted, Listed
  <2> QED
    BY <2>1, <2>2, <2>10, <2>11, <2>12 DEF M, t, o
<1> QED
  BY <1>1, <1>2

\* Closing tabs.
LEMMA WithoutNone ==
    ASSUME NEW o, NEW c, NEW N, Listed(o, c, N), NEW X, X \cap N = {}
    PROVE Without(o, X) = o
<1>1. {i \in DOMAIN o : o[i].id \notin X} = DOMAIN o
  BY DEF Listed, Ids
<1>2. o \in Seq(Tab)
  BY DEF Listed
<1> QED
  BY <1>1, <1>2, FilterAll DEF Without

\* Tabs of one connection are removed from the list of all.
LEMMA WithoutRelists ==
    ASSUME NEW s, Tidy(s), Apart(s), NEW c \in Conns, NEW X, X \subseteq Ids(Of(s, c))
    PROVE /\ Relisted(s, Without(s, X), c, Ids(Of(s, c)) \ X)
          /\ Of(Without(s, X), c) = Without(Of(s, c), X)
<1>1. s \in Seq(Tab) /\ \A d \in Conns : Listed(Of(s, d), d, Ids(Of(s, d))) /\ Sorted(Of(s, d))
  BY DEF Tidy
<1>2. Without(s, X) \in Seq(Tab) /\ \A d : Of(Without(s, X), d) = Without(Of(s, d), X)
  BY <1>1, OfWithout
<1>3. /\ Listed(Without(Of(s, c), X), c, Ids(Of(s, c)) \ X)
      /\ Sorted(Without(Of(s, c), X))
  BY <1>1, WithoutListed
<1>4. ASSUME NEW d \in Conns \ {c} PROVE Without(Of(s, d), X) = Of(s, d)
  <2>1. X \cap Ids(Of(s, d)) = {}
    BY DEF Apart
  <2> QED
    BY <1>1, <2>1, WithoutNone
<1> QED
  BY <1>2, <1>3, <1>4 DEF Relisted

\* A connection's list is replaced, and goes behind the others.
LEMMA ReplaceChanges ==
    ASSUME NEW s \in Seq(Tab), NEW c, NEW r \in Seq(Tab), \A k \in DOMAIN r : r[k].conn = c
    PROVE Changed(s, OfOthers(s, c) \o r, c, r)
<1> DEFINE a == OfOthers(s, c)
<1>1. a \in Seq(Tab) /\ Of(a, c) = <<>> /\ \A d : d # c => Of(a, d) = Of(s, d)
  BY OfOfOthers
<1> HIDE DEF a
<1>2. Of(r, c) = r /\ \A d : d # c => Of(r, d) = <<>>
  BY OfOwn
<1>3. a \o r \in Seq(Tab) /\ \A d : Of(a \o r, d) = Of(a, d) \o Of(r, d)
  <2>1. \A d : Of(a \o r, d) = Of(a, d) \o Of(r, d)
    BY <1>1, OfJoined
  <2> QED
    BY <1>1, <2>1, Concatenated
<1>4. Of(a \o r, c) = r
  <2>1. Of(a \o r, c) = <<>> \o r
    BY <1>1, <1>2, <1>3
  <2>2. <<>> \o r = r
    OBVIOUS
  <2> QED
    BY <2>1, <2>2
<1>5. ASSUME NEW d \in Conns \ {c} PROVE Of(a \o r, d) = Of(s, d)
  <2>1. Of(a \o r, d) = Of(s, d) \o <<>>
    BY <1>1, <1>2, <1>3
  <2>2. Of(s, d) \o <<>> = Of(s, d)
    <3>1. Of(s, d) \in Seq(Tab)
      BY OfIs
    <3> QED
      BY <3>1
  <2> QED
    BY <2>1, <2>2
<1> QED
  BY <1>3, <1>4, <1>5 DEF Changed, a

\* closeTabWithState: the tab is gone, and one of the rest is active.
LEMMA CloseRelists ==
    ASSUME NEW s, Tidy(s), Apart(s), NEW c \in Conns, NEW x \in Ids(Of(s, c)),
           NEW current \in Ids(Of(s, c))
    PROVE LET r == closeTabWithState(s, c, current, x)
              N == Ids(Of(s, c)) \ {x}
          IN  /\ r.tabs = Without(s, {x})
              /\ Relisted(s, r.tabs, c, N)
              /\ Of(r.tabs, c) # <<>> => r.active \in N
              /\ r.active \in N \cup {None}
<1> DEFINE own == Of(s, c)
           M == Ids(Of(s, c))
           rest == Without(own, {x})
           i == Position(own, x)
           k == IF i > 1 THEN i - 1 ELSE 1
           r == closeTabWithState(s, c, current, x)
<1>1. Relisted(s, Without(s, {x}), c, M \ {x}) /\ Of(Without(s, {x}), c) = rest
  BY WithoutRelists
<1>2. /\ r.tabs = Without(s, {x})
      /\ current # x => r.active = current
      /\ current = x /\ rest = <<>> => r.active = None
      /\ current = x /\ rest # <<>> => r.active = rest[k].id
  BY DEF closeTabWithState
<1>3. Listed(own, c, M) /\ i \in DOMAIN own /\ own[i].id = x
  BY PositionIs DEF Tidy
<1>4. rest = RemoveAt(own, i) /\ Len(rest) = Len(own) - 1 /\ Listed(rest, c, M \ {x})
  <2> HIDE DEF own, i, M
  <2>1. /\ Listed(RemoveAt(own, i), c, M \ {own[i].id})
        /\ Without(own, {own[i].id}) = RemoveAt(own, i)
        /\ Len(RemoveAt(own, i)) = Len(own) - 1
    BY <1>3, RemoveListed
  <2> QED
    BY <1>3, <2>1
<1>5. own \in Seq(Tab) /\ rest \in Seq(Tab)
  BY <1>3, <1>4 DEF Listed
<1>6. x \in M /\ current \in M
  OBVIOUS
<1> HIDE DEF own, M, i, rest, r
<1>7. rest # <<>> => k \in DOMAIN rest
  BY <1>3, <1>4, <1>5
<1>8. \A j \in DOMAIN rest : rest[j].id \in M \ {x}
  BY <1>4 DEF Listed, Ids
<1>9. (rest # <<>> => r.active \in M \ {x}) /\ r.active \in (M \ {x}) \cup {None}
  BY <1>2, <1>6, <1>7, <1>8
<1> QED
  BY <1>1, <1>2, <1>9 DEF M, r

\* getBulkClosedTabIds: which tabs a bulk close may take.
LEMMA BulkClosed ==
    ASSUME NEW o, NEW c, NEW N, Listed(o, c, N), NEW x \in N,
           NEW action \in {"all", "others", "left", "right"}
    PROVE /\ getBulkClosedTabIds(o, action, x) \subseteq N
          /\ action # "all" => x \notin getBulkClosedTabIds(o, action, x)
<1> DEFINE p == Position(o, x)
<1>1. p \in DOMAIN o /\ o[p].id = x /\ DOMAIN o \subseteq Nat
  BY PositionIs DEF Listed
<1>2. getBulkClosedTabIds(o, action, x) \subseteq N
  BY DEF getBulkClosedTabIds, Listed, Ids
<1>3. ASSUME action # "all", x \in getBulkClosedTabIds(o, action, x) PROVE FALSE
  <2>1. PICK j \in DOMAIN o : /\ o[j].id = x
                              /\ action = "others" => o[j].id # x
                              /\ action = "left" => j < p
                              /\ action = "right" => j > p
    BY <1>3 DEF getBulkClosedTabIds
  <2> HIDE DEF p
  <2>2. j = p
    BY <1>1, <2>1 DEF Listed, Distinct
  <2> QED
    BY <1>1, <1>3, <2>1, <2>2
<1> QED
  BY <1>2, <1>3

\* bulkClose: closeAllTabs, closeOtherTabs, closeTabsToLeft and closeTabsToRight.
LEMMA BulkCloseRelists ==
    ASSUME NEW s, Tidy(s), Apart(s), NEW c \in Conns, NEW x \in Ids(Of(s, c)),
           NEW current \in Ids(Of(s, c)), NEW action \in {"all", "others", "left", "right"}
    PROVE LET r == bulkClose(s, c, current, action, x)
              N == Ids(Of(s, c)) \ getBulkClosedTabIds(Of(s, c), action, x)
          IN  /\ Relisted(s, r.tabs, c, N)
              /\ Of(r.tabs, c) # <<>> => r.active \in N
              /\ r.active \in Ids(Of(s, c)) \cup {None}
<1> DEFINE own == Of(s, c)
           M == Ids(Of(s, c))
           closed == getBulkClosedTabIds(own, action, x)
           rest == Without(own, closed)
           N == M \ closed
           r == bulkClose(s, c, current, action, x)
<1>0. s \in Seq(Tab) /\ Listed(own, c, M) /\ Sorted(own)
  BY DEF Tidy
<1>1. closed \subseteq M /\ (action # "all" => x \notin closed)
  BY <1>0, BulkClosed
<1>2. /\ action \in {"left", "right"} => r.tabs = OfOthers(s, c) \o rest
      /\ action \notin {"left", "right"} => r.tabs = Without(s, closed)
      /\ action = "others" => r.active = x
      /\ action = "all" => r.active = IF current \in Ids(rest) THEN current
                                      ELSE IF rest = <<>> THEN None ELSE Last(rest).id
      /\ action \in {"left", "right"} => r.active = IF current \in closed THEN x ELSE current
  BY DEF bulkClose
<1>3. Listed(rest, c, N) /\ Sorted(rest)
  BY <1>0, WithoutListed
<1>4. Relisted(s, Without(s, closed), c, N) /\ Of(Without(s, closed), c) = rest
  <2> HIDE DEF closed
  <2> QED
    BY <1>1, WithoutRelists
<1>5. rest \in Seq(Tab) /\ (\A k \in DOMAIN rest : rest[k].conn = c) /\ Ids(rest) = N
  BY <1>3 DEF Listed
<1>6. x \in M /\ current \in M
  OBVIOUS
<1> HIDE DEF own, M, closed, rest, r
<1>7. Changed(s, OfOthers(s, c) \o rest, c, rest)
  BY <1>0, <1>5, ReplaceChanges
<1>8. Relisted(s, r.tabs, c, N) /\ Of(r.tabs, c) = rest
  <2>1. CASE action \in {"left", "right"}
    BY <1>2, <1>3, <1>7, <2>1 DEF Changed, Relisted
  <2>2. CASE action \notin {"left", "right"}
    BY <1>2, <1>4, <2>2
  <2> QED
    BY <2>1, <2>2
<1>9. rest # <<>> => Last(rest).id \in N
  <2>1. rest # <<>> => Len(rest) \in DOMAIN rest
    BY <1>5
  <2>2. \A k \in DOMAIN rest : rest[k].id \in N
    BY <1>5 DEF Ids
  <2> QED
    BY <2>1, <2>2 DEF Last
<1>10. (rest # <<>> => r.active \in N) /\ r.active \in M \cup {None}
  BY <1>1, <1>2, <1>5, <1>6, <1>9
<1> QED
  BY <1>8, <1>10 DEF N, M, closed, own, r

\* reorderTab.
LEMMA MoveRelists ==
    ASSUME NEW s, Tidy(s), NEW c \in Conns, NEW x \in Ids(Of(s, c)), NEW insertAt \in Int
    PROVE Relisted(s, moveTab(s, c, x, insertAt), c, Ids(Of(s, c)))
<1> DEFINE o == Of(s, c)
           N == Ids(Of(s, c))
           from == Position(o, x)
           gap == clampTabGap(o, from, insertAt)
           target == IF gap >= from THEN gap ELSE gap + 1
           u == InsertAt(RemoveAt(o, from), target, o[from])
<1>1. moveTab(s, c, x, insertAt) = IF gap \in {from - 1, from} THEN s ELSE Reslot(s, c, u)
  BY DEF moveTab
<1>2. s \in Seq(Tab) /\ Listed(o, c, N) /\ Sorted(o)
  BY DEF Tidy
<1>3. Listed(u, c, N) /\ Sorted(u)
  BY <1>2, MovedListed
<1>4. Relisted(s, s, c, N)
  BY Unchanged
<1> HIDE DEF u, gap, from
<1>5. Relisted(s, Reslot(s, c, u), c, N)
  BY <1>2, <1>3, ReslotRelists
<1> QED
  BY <1>1, <1>4, <1>5

\* pinTab.
LEMMA PinRelists ==
    ASSUME NEW s, Tidy(s), Apart(s), NEW c \in Conns, NEW x \in Ids(Of(s, c)),
           NEW pinned \in BOOLEAN
    PROVE Relisted(s, setTabPinned(s, x, pinned), c, Ids(Of(s, c)))
<1> DEFINE o == Of(s, c)
           N == Ids(Of(s, c))
           p == Position(s, x)
           target == s[p]
           t == [target EXCEPT !.pinned = pinned]
           others == Without(o, {x})
           u == Pinned(others, TRUE) \o <<t>> \o Pinned(others, FALSE)
<1>1. s \in Seq(Tab) /\ Listed(o, c, N) /\ Sorted(o)
  BY DEF Tidy
<1>2. x \in Ids(s)
  BY <1>1, OfIs
<1>3. p \in DOMAIN s /\ target.id = x
  BY <1>2, PositionIs
<1>4. target \in Tab
  BY <1>1, <1>3
<1>5. target.conn = c
  <2> SUFFICES ASSUME target.conn # c PROVE FALSE
    OBVIOUS
  <2>1. target.conn \in Conns
    BY <1>4, TabFields
  <2>2. x \in Ids(Of(s, target.conn))
    BY <1>1, <1>3, OfIs DEF Slots
  <2> QED
    BY <2>1, <2>2 DEF Apart
<1>6. setTabPinned(s, x, pinned) = IF target.pinned = pinned THEN s ELSE Reslot(s, c, u)
  BY <1>5 DEF setTabPinned
<1>7. t \in Tab /\ t.conn = c /\ t.id = x
  BY <1>3, <1>4, <1>5, TabFields
<1>8. x \in N
  OBVIOUS
<1> HIDE DEF target, t, p
<1>9. Listed(u, c, N) /\ Sorted(u)
  BY <1>1, <1>7, <1>8, RepinnedListed
<1>10. Relisted(s, s, c, N)
  BY Unchanged
<1> HIDE DEF u
<1>11. Relisted(s, Reslot(s, c, u), c, N)
  BY <1>1, <1>9, ReslotRelists
<1> QED
  BY <1>6, <1>10, <1>11

-----------------------------------------------------------------------------
(***************************************************************************)
(* The recent tabs and the stacks of closed tabs.                          *)
(***************************************************************************)
\* orderRecentTabs gives every open tab once, whatever the history holds.
LEMMA RecentOrder ==
    ASSUME NEW o, NEW c, NEW N, Listed(o, c, N), NEW S, TabIds \subseteq S, NEW history \in Seq(S)
    PROVE LET r == orderRecentTabs(o, history) IN
          r \in Seq(S) /\ Len(r) = Len(o) /\ ToSet(r) = N
<1> DEFINE ids == [i \in DOMAIN o |-> o[i].id]
           all == history \o ids
           I == {i \in DOMAIN all : all[i] \in Ids(o) /\ \A j \in 1 .. i - 1 : all[j] # all[i]}
           r == Filter(all, I)
           m == Len(history)
<1>1. o \in Seq(Tab) /\ Len(o) \in Nat /\ DOMAIN o = 1 .. Len(o) /\ Ids(o) = N
  BY DEF Listed
<1>2. orderRecentTabs(o, history) = r
  BY DEF orderRecentTabs
<1>3. ids \in Seq(S) /\ Len(ids) = Len(o) /\ \A i \in 1 .. Len(o) : ids[i] = o[i].id
  <2>1. \A i \in DOMAIN o : o[i].id \in S
    BY <1>1, TabFields
  <2> QED
    BY <1>1, <2>1
<1>4. N \subseteq S /\ \A x \in N : \E i \in 1 .. Len(o) : ids[i] = x
  <2>1. \A x \in N : \E i \in 1 .. Len(o) : o[i].id = x
    BY <1>1 DEF Ids
  <2> QED
    BY <1>3, <2>1
<1> HIDE DEF ids
<1>5. /\ all \in Seq(S) /\ DOMAIN all = 1 .. m + Len(o) /\ m \in Nat
      /\ \A i \in 1 .. Len(o) : all[m + i] = ids[i]
  BY <1>1, <1>3
<1> HIDE DEF all, m
<1>6. I \in SUBSET DOMAIN all /\ I \in SUBSET Nat
  BY <1>5
<1>7. /\ \A i \in I : all[i] \in N
      /\ \A i, j \in I : j < i => all[j] # all[i]
  <2>1. \A i, j \in I : j < i => j \in 1 .. i - 1
    BY <1>5
  <2> QED
    BY <1>1, <2>1
<1>8. \A x \in N : \E i \in I : all[i] = x
  <2> SUFFICES ASSUME NEW x \in N PROVE \E i \in I : all[i] = x
    OBVIOUS
  <2> DEFINE A == {i \in DOMAIN all : all[i] = x}
  <2>1. PICK i \in 1 .. Len(o) : ids[i] = x
    BY <1>4
  <2>2. m + i \in A /\ A \in SUBSET Nat
    BY <1>1, <1>5, <2>1
  <2>3. PICK l \in A : \A j \in A : l <= j
    BY <2>2, Least
  <2>4. l \in DOMAIN all /\ all[l] = x
    OBVIOUS
  <2>5. \A j \in 1 .. l - 1 : all[j] # x
    <3> SUFFICES ASSUME NEW j \in 1 .. l - 1, all[j] = x PROVE FALSE
      OBVIOUS
    <3>1. j \in DOMAIN all /\ j < l
      BY <1>1, <1>5, <2>4
    <3>2. j \in A
      BY <3>1
    <3>3. l <= j
      BY <2>3, <3>2
    <3>4. l \in Nat /\ j \in Nat
      BY <1>1, <1>5, <2>4
    <3> QED
      BY <3>1, <3>3, <3>4
  <2>6. l \in I
    BY <1>1, <2>4, <2>5
  <2> QED
    BY <2>4, <2>6
<1> HIDE DEF I
<1>9. r \in Seq(S)
  BY <1>5, <1>6, Enumerated
<1>10. PICK e : Enumerates(e, Len(r), I) /\ \A k \in 1 .. Len(r) : r[k] = all[e[k]]
  BY <1>5, <1>6, Enumerated
<1> HIDE DEF r
<1>11. DOMAIN r = 1 .. Len(r) /\ Len(r) \in Nat
  BY <1>9
<1>12. \A k \in 1 .. Len(r) : e[k] \in I /\ r[k] \in N
  BY <1>7, <1>10 DEF Enumerates
<1>13. \A j, k \in 1 .. Len(r) : r[j] = r[k] => j = k
  <2> SUFFICES ASSUME NEW j \in 1 .. Len(r), NEW k \in 1 .. Len(r), r[j] = r[k], j # k PROVE FALSE
    OBVIOUS
  <2>1. all[e[j]] = all[e[k]] /\ e[j] \in I /\ e[k] \in I
    BY <1>10, <1>12
  <2>2. e[j] < e[k] \/ e[k] < e[j]
    <3>1. j < k \/ k < j
      BY <1>11
    <3> QED
      BY <1>10, <3>1 DEF Enumerates
  <2> QED
    BY <1>7, <2>1, <2>2
<1>14. \A x \in N : \E k \in 1 .. Len(r) : r[k] = x
  <2> SUFFICES ASSUME NEW x \in N PROVE \E k \in 1 .. Len(r) : r[k] = x
    OBVIOUS
  <2>1. PICK i \in I : all[i] = x
    BY <1>8
  <2>2. PICK k \in 1 .. Len(r) : e[k] = i
    BY <1>10 DEF Enumerates
  <2> QED
    BY <1>10, <2>1, <2>2
<1>15. ToSet(r) = N
  BY <1>11, <1>12, <1>14 DEF ToSet
<1>16. Cardinality(N) = Len(r)
  <2> DEFINE f == [k \in 1 .. Len(r) |-> r[k]]
  <2>1. \A k \in 1 .. Len(r) : f[k] = r[k]
    OBVIOUS
  <2>2. f \in [1 .. Len(r) -> N]
    BY <1>12
  <2> HIDE DEF f
  <2>3. f \in Bijection(1 .. Len(r), N)
    BY <1>13, <1>14, <2>1, <2>2 DEF Bijection, Injection, Surjection, IsInjective
  <2>4. IsFiniteSet(1 .. Len(r)) /\ Cardinality(1 .. Len(r)) = Len(r)
    <3> DEFINE n == Len(r)
    <3>1. n \in Nat
      BY <1>11
    <3> HIDE DEF n
    <3>2. IsFiniteSet(1 .. n) /\ Cardinality(1 .. n) = n
      BY <3>1, FS_Interval
    <3> QED
      BY <3>2 DEF n
  <2> QED
    BY <2>3, <2>4, FS_Bijection DEF ExistsBijection
<1>17. Len(r) = Len(o)
  BY <1>16, ListedLen
<1> QED
  BY <1>2, <1>9, <1>15, <1>17

\* What a stack of closed tabs of connection c holds, when the tabs have ids in N.
Entry(c, N) == [tab : {t \in Tab : t.conn = c /\ t.id \in N}, index : Nat \ {0}]

\* The last part of a stack.
LEMMA Capped ==
    ASSUME NEW S, NEW all \in Seq(S), NEW n \in Nat
    PROVE LET u == SubSeq(all, IF Len(all) > n THEN Len(all) - n + 1 ELSE 1, Len(all)) IN
          /\ u \in Seq(S) /\ Len(u) <= n
          /\ n > 0 /\ all # <<>> => Last(u) = all[Len(all)]
<1> DEFINE l == Len(all)
           i == IF l > n THEN l - n + 1 ELSE 1
           u == SubSeq(all, i, l)
<1>1. l \in Nat /\ i \in 1 .. l + 1 /\ l \in 0 .. l
  OBVIOUS
<1>2. /\ u \in Seq(S) /\ Len(u) = IF i <= l THEN l - i + 1 ELSE 0
      /\ \A k \in 1 .. Len(u) : u[k] = all[i - 1 + k]
  BY <1>1, PartIs
<1>3. all # <<>> => l > 0
  BY <1>1
<1> HIDE DEF l, u
<1>4. Len(u) <= n
  BY <1>1, <1>2
<1>5. ASSUME n > 0, l > 0 PROVE Last(u) = all[l]
  <2>1. i <= l /\ Len(u) = l - i + 1 /\ Len(u) \in 1 .. Len(u)
    BY <1>1, <1>2, <1>5
  <2>2. u[Len(u)] = all[i - 1 + Len(u)]
    BY <1>2, <2>1
  <2>3. i - 1 + Len(u) = l
    BY <1>1, <2>1
  <2> QED
    BY <2>2, <2>3 DEF Last
<1> QED
  BY <1>2, <1>3, <1>4, <1>5 DEF l, u

\* pushClosedTabs keeps the stack within MAX_CLOSED_TABS.
LEMMA Pushed ==
    ASSUME NEW stacks, NEW s, Tidy(s), NEW X, NEW c \in Conns, NEW N,
           stacks[c] \in Seq(Entry(c, N)), Ids(Of(s, c)) \subseteq N, MaxClosedTabs \in Nat
    PROVE LET u == pushClosedTabs(stacks, s, X)[c] IN
          u \in Seq(Entry(c, N)) /\ Len(u) <= MaxClosedTabs
<1> DEFINE own == Of(s, c)
           closed == {i \in DOMAIN own : own[i].id \in X /\ own[i].kind # "notebook"}
           entries == [i \in DOMAIN own |-> [tab |-> own[i], index |-> i]]
           kept == Filter(entries, closed)
           all == stacks[c] \o kept
           S == Entry(c, N)
<1>1. /\ own \in Seq(Tab) /\ DOMAIN own = 1 .. Len(own)
      /\ \A i \in DOMAIN own : own[i].conn = c /\ own[i].id \in N
  BY DEF Tidy, Listed, Ids
<1>2. pushClosedTabs(stacks, s, X)[c] =
        SubSeq(all, IF Len(all) > MaxClosedTabs THEN Len(all) - MaxClosedTabs + 1 ELSE 1, Len(all))
  BY DEF pushClosedTabs
<1>3. entries \in Seq(S) /\ DOMAIN entries = DOMAIN own
  <2>1. \A i \in DOMAIN own : own[i] \in {t \in Tab : t.conn = c /\ t.id \in N} /\ i \in Nat \ {0}
    BY <1>1
  <2>2. \A i \in DOMAIN own : [tab |-> own[i], index |-> i] \in S
    BY <2>1 DEF Entry
  <2> QED
    BY <1>1, <2>2
<1>4. closed \in SUBSET DOMAIN entries
  BY <1>3
<1>5. stacks[c] \in Seq(S)
  OBVIOUS
<1> HIDE DEF closed, entries, S
<1>6. kept \in Seq(S)
  BY <1>3, <1>4, Enumerated
<1> HIDE DEF kept
<1>7. all \in Seq(S)
  BY <1>5, <1>6, Concatenated
<1> HIDE DEF all
<1> QED
  BY <1>2, <1>7, Capped DEF S

\* Closing one tab puts it on the stack, with its position.
LEMMA PushedLast ==
    ASSUME NEW stacks, NEW s, Tidy(s), NEW c \in Conns, NEW i \in DOMAIN Of(s, c),
           NEW S, stacks[c] \in Seq(S), MaxClosedTabs \in Nat \ {0},
           Of(s, c)[i].kind # "notebook"
    PROVE Last(pushClosedTabs(stacks, s, {Of(s, c)[i].id})[c]) = [tab |-> Of(s, c)[i], index |-> i]
<1> DEFINE own == Of(s, c)
           x == own[i].id
           closed == {k \in DOMAIN own : own[k].id \in {x} /\ own[k].kind # "notebook"}
           entries == [k \in DOMAIN own |-> [tab |-> own[k], index |-> k]]
           entry == [tab |-> own[i], index |-> i]
           kept == Filter(entries, closed)
           all == stacks[c] \o kept
           E == {entries[k] : k \in DOMAIN own}
           T == S \cup E
<1>1. own \in Seq(Tab) /\ DOMAIN own = 1 .. Len(own) /\ Distinct(own) /\ i \in Nat
  BY DEF Tidy, Listed
<1>2. pushClosedTabs(stacks, s, {x})[c] =
        SubSeq(all, IF Len(all) > MaxClosedTabs THEN Len(all) - MaxClosedTabs + 1 ELSE 1, Len(all))
  BY DEF pushClosedTabs
<1>3. closed = {i}
  BY <1>1 DEF Distinct
<1>4. entries \in Seq(E) /\ DOMAIN entries = DOMAIN own /\ entries[i] = entry
  BY <1>1
<1> HIDE DEF closed, entries, entry
<1>5. kept = <<entry>>
  <2> DEFINE u == <<entry>>
             e == [k \in 1 .. 1 |-> i]
  <2>1. u \in Seq(E) /\ Len(u) = 1 /\ u[1] = entry
    BY <1>4
  <2>2. e[1] = i /\ e \in [1 .. 1 -> {i}]
    OBVIOUS
  <2> HIDE DEF u, e, E
  <2>3. Enumerates(e, Len(u), {i})
    BY <2>1, <2>2 DEF Enumerates
  <2>4. \A k \in 1 .. Len(u) : u[k] = entries[e[k]]
    BY <1>4, <2>1, <2>2
  <2>5. {i} \in SUBSET DOMAIN entries
    BY <1>4
  <2>6. entries \in Seq(E) /\ u \in Seq(E)
    BY <1>4, <2>1
  <2>7. Filter(entries, {i}) = u
    BY ONLY <2>3, <2>4, <2>5, <2>6, FilterIs
  <2> QED
    BY <1>3, <2>7 DEF u
<1> HIDE DEF kept
<1>6. entry \in E
  BY <1>1, <1>4
<1> HIDE DEF E
<1>7. stacks[c] \in Seq(T) /\ <<entry>> \in Seq(T)
  BY <1>6
<1>8. /\ all \in Seq(T) /\ all # <<>> /\ all[Len(all)] = entry
  BY <1>5, <1>7
<1> HIDE DEF all, T
<1>9. MaxClosedTabs \in Nat /\ MaxClosedTabs > 0
  OBVIOUS
<1>10. Last(pushClosedTabs(stacks, s, {x})[c]) = entry
  BY <1>2, <1>8, <1>9, Capped
<1> QED
  BY <1>10 DEF entry

\* An entry that is taken out and put back.
LEMMA PutBack ==
    ASSUME NEW S, NEW s \in Seq(S), NEW i \in 1 .. Len(s)
    PROVE InsertAt(RemoveAt(s, i), i, s[i]) = s
<1> DEFINE a == SubSeq(s, 1, i - 1)
           b == SubSeq(s, i + 1, Len(s))
           x == s[i]
<1>1. i - 1 \in 0 .. Len(s) /\ i \in 0 .. Len(s) /\ (i - 1) + 1 = i /\ i \in Nat
  OBVIOUS
<1>2. a \in Seq(S) /\ Len(a) = i - 1 /\ \A k \in 1 .. i - 1 : a[k] = s[k]
  OBVIOUS
<1>3. b \in Seq(S) /\ SubSeq(s, 1, i) \o b = s
  BY <1>1, Cut
<1>4. SubSeq(s, 1, i) = a \o <<x>>
  <2>1. /\ SubSeq(s, 1, i) \in Seq(S) /\ Len(SubSeq(s, 1, i)) = i
        /\ \A k \in 1 .. i : SubSeq(s, 1, i)[k] = s[k]
    OBVIOUS
  <2>2. x \in S
    OBVIOUS
  <2> HIDE DEF a, x
  <2>3. /\ a \o <<x>> \in Seq(S) /\ Len(a \o <<x>>) = i
        /\ \A k \in 1 .. i - 1 : (a \o <<x>>)[k] = s[k]
        /\ (a \o <<x>>)[i] = x
    <3> DEFINE z == <<x>>
               w == a \o z
    <3>1. z \in Seq(S) /\ Len(z) = 1 /\ z[1] = x
      BY <2>2
    <3>2. a \in Seq(S) /\ Len(a) = i - 1
      BY <1>2
    <3> HIDE DEF z
    <3>3. /\ w \in Seq(S) /\ Len(w) = Len(a) + Len(z)
          /\ \A k \in 1 .. Len(a) : w[k] = a[k]
          /\ \A k \in 1 .. Len(z) : w[Len(a) + k] = z[k]
      <4>1. a \in Seq(S) /\ z \in Seq(S)
        BY <3>1, <3>2
      <4> QED
        BY ONLY <4>1
    <3>4. Len(a) + Len(z) = i /\ Len(a) + 1 = i /\ 1 \in 1 .. Len(z)
      BY <1>1, <3>1, <3>2
    <3>5. w[i] = x /\ Len(w) = i
      BY <3>1, <3>3, <3>4
    <3>6. \A k \in 1 .. i - 1 : w[k] = s[k]
      BY <1>2, <3>2, <3>3
    <3> QED
      BY <3>3, <3>5, <3>6 DEF z
  <2> QED
    BY <1>1, <2>1, <2>3 DEF x
<1>5. RemoveAt(s, i) = a \o b
  BY DEF RemoveAt
<1>6. x \in S
  OBVIOUS
<1> HIDE DEF a, b, x
<1>7. InsertAt(a \o b, Len(a) + 1, x) = (a \o <<x>>) \o b
  BY <1>2, <1>3, <1>6, InsertBetween
<1>8. Len(a) + 1 = i
  BY <1>1, <1>2
<1> QED
  BY <1>3, <1>4, <1>5, <1>7, <1>8 DEF x

\* Reopening undoes closing.
LEMMA ReopenUndoes ==
    ASSUME NEW stacks, NEW s, Tidy(s), Apart(s), NEW i \in DOMAIN s, s[i].kind # "notebook",
           MaxClosedTabs \in Nat \ {0}, NEW S, stacks[s[i].conn] \in Seq(S)
    PROVE LET t == s[i]
              c == t.conn
              entry == Last(pushClosedTabs(stacks, s, {t.id})[c])
              rest == Without(s, {t.id})
          IN  Of(keepPinnedTabsFirst(insertReopenedTab(rest, c, entry, t.id), c), c) = Of(s, c)
<1> DEFINE t == s[i]
           c == t.conn
           x == t.id
           entry == Last(pushClosedTabs(stacks, s, {x})[c])
           rest == Without(s, {x})
           o == Of(s, c)
           N == Ids(o)
           back == insertReopenedTab(rest, c, entry, x)
<1>1. s \in Seq(Tab) /\ t \in Tab
  BY DEF Tidy
<1>2. c \in Conns /\ x \in TabIds
  BY <1>1, TabFields
<1>3. i \in Slots(s, c)
  BY DEF Slots
<1>4. \E k \in DOMAIN o : o[k] = t
  <2>1. \A j \in Slots(s, c) : \E k \in DOMAIN Of(s, c) : Of(s, c)[k] = s[j]
    BY <1>1, OfIs
  <2> QED
    BY <1>3, <2>1
<1>5. PICK k \in DOMAIN o : o[k] = t
  BY <1>4
<1>6. Listed(o, c, N) /\ Sorted(o)
  BY <1>2 DEF Tidy
<1>7. o \in Seq(Tab) /\ k \in 1 .. Len(o) /\ Len(o) \in Nat
  BY <1>6 DEF Listed
<1>8. x \in N
  BY <1>5 DEF Ids
<1>9. entry = [tab |-> t, index |-> k]
  <2>1. o[k].kind # "notebook" /\ stacks[c] \in Seq(S) /\ o[k].id = x
    BY <1>5
  <2> HIDE DEF t, c, x
  <2>2. Last(pushClosedTabs(stacks, s, {o[k].id})[c]) = [tab |-> o[k], index |-> k]
    BY <1>2, <2>1, PushedLast
  <2> QED
    BY <1>5, <2>1, <2>2
<1> HIDE DEF t, c, x, N, o, entry
<1>10. rest \in Seq(Tab) /\ Of(rest, c) = Without(o, {x})
  BY <1>1, OfWithout DEF o
<1>11. o[k].id = x
  BY <1>5 DEF x
<1>12. Without(o, {x}) = RemoveAt(o, k) /\ Len(RemoveAt(o, k)) = Len(o) - 1
  <2>1. Without(o, {o[k].id}) = RemoveAt(o, k) /\ Len(RemoveAt(o, k)) = Len(o) - 1
    BY <1>6, RemoveListed
  <2> QED
    BY <1>11, <2>1
<1> HIDE DEF rest
<1>13. entry.tab = t /\ entry.index = k /\ t.conn = c /\ t.id = x
  BY <1>9 DEF c, x
<1>14. [entry.tab EXCEPT !.id = x] = t
  BY <1>1, <1>13 DEF Tab
<1>15. Changed(rest, back, c, InsertAt(RemoveAt(o, k), k, t))
  <2> DEFINE q == Of(rest, c)
             p == IF entry.index <= Len(q) THEN entry.index ELSE Len(q) + 1
  <2>1. Changed(rest, back, c, InsertAt(q, p, [entry.tab EXCEPT !.id = x]))
    <3>1. entry.tab \in Tab /\ entry.tab.conn = c /\ entry.index \in Nat \ {0}
      BY <1>1, <1>7, <1>13
    <3> QED
      BY <1>2, <1>10, <3>1, InsertReopened
  <2>2. q = RemoveAt(o, k) /\ Len(q) = Len(o) - 1
    BY <1>10, <1>12
  <2> HIDE DEF q
  <2>3. p = k
    BY <1>7, <1>13, <2>2
  <2> QED
    BY <1>14, <2>1, <2>2, <2>3
<1>16. InsertAt(RemoveAt(o, k), k, t) = o
  BY <1>5, <1>7, PutBack
<1> HIDE DEF back
<1>17. Of(keepPinnedTabsFirst(back, c), c) = PinnedThenRest(o)
  BY <1>6, <1>15, <1>16, ThenKeepPinned
<1>18. PinnedThenRest(o) = o
  BY <1>6, SortedPrefix
<1> QED
  BY <1>17, <1>18 DEF back, o, rest, entry, c, x, t

-----------------------------------------------------------------------------
(***************************************************************************)
(* The inductive invariant.                                                *)
(*                                                                         *)
(* The ids a connection owns are those of its open tabs, of its closed     *)
(* ones, of what is stored of it, and of what is being loaded.  Those of   *)
(* two connections are always apart, which is what keeps a load or a tab   *)
(* that is reopened from opening an id a second time.                      *)
(***************************************************************************)
Preferences == [tabs : Seq(Tab), activeTabId : TabIds \cup {None}]

\* Preferences, a stack of closed tabs and loads of connection c with ids in N.
PrefsOf(c, p, N) ==
    /\ p \in Preferences
    /\ Listed(p.tabs, c, Ids(p.tabs)) /\ Ids(p.tabs) \subseteq N
    /\ p.tabs # <<>> /\ p.activeTabId # None => p.activeTabId \in Ids(p.tabs)

StackOf(c, k, N) == k \in Seq(Entry(c, N)) /\ Len(k) <= MaxClosedTabs

LoadsOf(c, L, N) == \A l \in L : l.conn = c /\ l.reply # None => PrefsOf(c, l.reply, N)

OwnedIn(s, k, p, L, c) ==
    Ids(Of(s, c)) \cup {e.tab.id : e \in ToSet(k)} \cup Ids(p.tabs)
        \cup (UNION {Ids(l.reply.tabs) : l \in {m \in L : m.conn = c /\ m.reply # None}})

Owned(c) == OwnedIn(tabs, closedTabs[c], storage[c], loads, c)

Types ==
    /\ active \in Conns \cup {None} /\ isLoading \in BOOLEAN
    /\ activeTabIds \in [Conns -> TabIds \cup {None}]
    /\ previewTabs \in [Conns -> TabIds \cup {None}]
    /\ recentTabs \in [Conns -> Seq(TabIds \cup {None})]
    /\ sessions \subseteq TabIds /\ releases \subseteq TabIds

Waiting == \/ pendingNotebook \in Conns /\ "notebook" \in Kinds
           \/ pendingNotebook = None

Shapes ==
    /\ closedTabs = [c \in Conns |-> closedTabs[c]]
    /\ storage \in [Conns -> Preferences]
    /\ \A l \in loads : l.conn \in Conns /\ l = [conn |-> l.conn, reply |-> l.reply, nr |-> l.nr]

Held ==
    \A c \in Conns : /\ StackOf(c, closedTabs[c], TabIds)
                     /\ PrefsOf(c, storage[c], TabIds)
                     /\ LoadsOf(c, loads, TabIds)

Separate == \A c, d \in Conns : c # d => Owned(c) \cap Owned(d) = {}

Inv ==
    /\ Tidy(tabs) /\ Types /\ Waiting /\ Shapes /\ Held /\ Separate
    /\ ActiveIsOpen /\ RecentAreOpen /\ SessionsAreOwned

\* What a step may do to the lists of the connections.
Others ==
    active' # None =>
        \E c \in Conns : \A d \in Conns \ {c} : IsPrefix(Of(tabs, d), Of(tabs', d))

\* The ids in P[c] may be the connection's after the step.
Grows(P) ==
    /\ P \in [Conns -> SUBSET TabIds]
    /\ \A c, d \in Conns : c # d => P[c] \cap P[d] = {}
    /\ \A c \in Conns : Owned(c) \subseteq P[c]

-----------------------------------------------------------------------------
(* Ids.                                                                    *)

\* A sequence over a smaller set.
LEMMA SeqSubset ==
    ASSUME NEW S, NEW T, NEW k \in Seq(S), \A i \in DOMAIN k : k[i] \in T
    PROVE k \in Seq(T)
OBVIOUS

\* Ids that are owned are within bounds, and what is within bounds is owned.
LEMMA StackWithin ==
    ASSUME NEW c, NEW k, NEW M, StackOf(c, k, M)
    PROVE /\ {e.tab.id : e \in ToSet(k)} \subseteq M
          /\ \A N : {e.tab.id : e \in ToSet(k)} \subseteq N => StackOf(c, k, N)
<1>1. k \in Seq(Entry(c, M)) /\ Len(k) <= MaxClosedTabs
  BY DEF StackOf
<1>2. \A i \in DOMAIN k : k[i] \in Entry(c, M)
  BY <1>1
<1>3. {e.tab.id : e \in ToSet(k)} \subseteq M
  BY <1>1, <1>2 DEF ToSet, Entry
<1>4. ASSUME NEW N, {e.tab.id : e \in ToSet(k)} \subseteq N PROVE StackOf(c, k, N)
  <2>1. \A i \in DOMAIN k : k[i].tab.id \in N
    BY <1>1, <1>4 DEF ToSet
  <2>2. \A i \in DOMAIN k : k[i] \in Entry(c, N)
    BY <1>2, <2>1 DEF Entry
  <2>3. k \in Seq(Entry(c, N))
    BY <1>1, <2>2, SeqSubset
  <2> QED
    BY <1>1, <2>3 DEF StackOf
<1> QED
  BY <1>3, <1>4

\* What a connection holds within bounds, it owns within them.
LEMMA OwnedWithin ==
    ASSUME NEW s, NEW k, NEW p, NEW L, NEW c, NEW N, Ids(Of(s, c)) \subseteq N,
           StackOf(c, k, N), PrefsOf(c, p, N), LoadsOf(c, L, N)
    PROVE OwnedIn(s, k, p, L, c) \subseteq N
<1>1. {e.tab.id : e \in ToSet(k)} \subseteq N
  BY StackWithin
<1>2. Ids(p.tabs) \subseteq N
  BY DEF PrefsOf
<1>3. \A l \in {m \in L : m.conn = c /\ m.reply # None} : Ids(l.reply.tabs) \subseteq N
  BY DEF LoadsOf, PrefsOf
<1> QED
  BY <1>1, <1>2, <1>3 DEF OwnedIn

\* What a connection owns within bounds, it holds within them.
LEMMA OwnedHolds ==
    ASSUME NEW s, NEW k, NEW p, NEW L, NEW c, NEW N, OwnedIn(s, k, p, L, c) \subseteq N, NEW M,
           StackOf(c, k, M), PrefsOf(c, p, M), LoadsOf(c, L, M)
    PROVE /\ Ids(Of(s, c)) \subseteq N
          /\ StackOf(c, k, N) /\ PrefsOf(c, p, N) /\ LoadsOf(c, L, N)
<1>1. /\ Ids(Of(s, c)) \subseteq N /\ {e.tab.id : e \in ToSet(k)} \subseteq N
      /\ Ids(p.tabs) \subseteq N
  BY DEF OwnedIn
<1>2. ASSUME NEW l \in L, l.conn = c, l.reply # None PROVE Ids(l.reply.tabs) \subseteq N
  BY <1>2 DEF OwnedIn
<1>3. StackOf(c, k, N)
  BY <1>1, StackWithin
<1>4. PrefsOf(c, p, N)
  BY <1>1 DEF PrefsOf
<1>5. LoadsOf(c, L, N)
  BY <1>2 DEF LoadsOf, PrefsOf
<1> QED
  BY <1>1, <1>3, <1>4, <1>5

\* What the connections hold before a step.
LEMMA HeldWithin ==
    ASSUME Inv, NEW P, Grows(P), NEW c \in Conns
    PROVE /\ Ids(Of(tabs, c)) \subseteq P[c] /\ StackOf(c, closedTabs[c], P[c])
          /\ PrefsOf(c, storage[c], P[c]) /\ LoadsOf(c, loads, P[c])
<1>1. /\ StackOf(c, closedTabs[c], TabIds) /\ PrefsOf(c, storage[c], TabIds)
      /\ LoadsOf(c, loads, TabIds)
  BY DEF Inv, Held
<1>2. OwnedIn(tabs, closedTabs[c], storage[c], loads, c) \subseteq P[c]
  BY DEF Grows, Owned
<1> QED
  BY <1>1, <1>2, OwnedHolds

\* Owned ids are in use, so a fresh id is nobody's.
LEMMA OwnedInUse ==
    ASSUME Inv, NEW c \in Conns
    PROVE Owned(c) \subseteq InUse /\ Owned(c) \subseteq TabIds /\ Ids(tabs) \subseteq InUse
<1>1. tabs \in Seq(Tab)
  BY DEF Inv, Tidy
<1>2. Ids(Of(tabs, c)) \subseteq Ids(tabs) /\ Ids(tabs) \subseteq TabIds
  BY <1>1, OfIs
<1>3. Ids(tabs) \subseteq InUse
  BY DEF InUse
<1>4. {e.tab.id : e \in ToSet(closedTabs[c])} \subseteq InUse
  BY DEF InUse
<1>5. Ids(storage[c].tabs) \subseteq InUse
  BY DEF InUse
<1>6. ASSUME NEW l \in {m \in loads : m.conn = c /\ m.reply # None}
      PROVE Ids(l.reply.tabs) \subseteq InUse
  BY DEF InUse
<1>7. Owned(c) \subseteq InUse
  BY <1>2, <1>3, <1>4, <1>5, <1>6 DEF Owned, OwnedIn
<1>8. Ids(Of(tabs, c)) \subseteq TabIds
  BY <1>2
<1>9. /\ StackOf(c, closedTabs[c], TabIds) /\ PrefsOf(c, storage[c], TabIds)
      /\ LoadsOf(c, loads, TabIds)
  BY DEF Inv, Held
<1>10. Owned(c) \subseteq TabIds
  BY <1>8, <1>9, OwnedWithin DEF Owned
<1> QED
  BY <1>3, <1>7, <1>10

\* Every connection may get fresh ids of its own.
LEMMA GrowsBy ==
    ASSUME Inv, NEW X \in [Conns -> SUBSET Fresh],
           \A c, d \in Conns : c # d => X[c] \cap X[d] = {}
    PROVE Grows([c \in Conns |-> Owned(c) \cup X[c]])
<1> DEFINE P == [c \in Conns |-> Owned(c) \cup X[c]]
<1>1. \A c \in Conns : P[c] = Owned(c) \cup X[c]
  OBVIOUS
<1>2. \A c \in Conns : Owned(c) \subseteq InUse /\ Owned(c) \subseteq TabIds
  BY OwnedInUse
<1>3. \A c \in Conns : X[c] \subseteq TabIds /\ X[c] \cap InUse = {}
  BY DEF Fresh
<1>4. \A c, d \in Conns : c # d => Owned(c) \cap Owned(d) = {}
  BY DEF Inv, Separate
<1>5. P \in [Conns -> SUBSET TabIds]
  BY <1>2, <1>3
<1> HIDE DEF P
<1>6. \A c, d \in Conns : c # d => P[c] \cap P[d] = {}
  BY <1>1, <1>2, <1>3, <1>4
<1>7. \A c \in Conns : Owned(c) \subseteq P[c]
  BY <1>1
<1> QED
  BY <1>5, <1>6, <1>7 DEF Grows, P

\* No connection needs a new id.
LEMMA GrowsNone ==
    ASSUME Inv
    PROVE \E P : Grows(P)
<1> DEFINE X == [c \in Conns |-> {}]
<1>1. X \in [Conns -> SUBSET Fresh] /\ \A c, d \in Conns : c # d => X[c] \cap X[d] = {}
  OBVIOUS
<1> HIDE DEF X
<1> QED
  BY <1>1, GrowsBy

\* One connection gets a fresh id.
LEMMA GrowsOne ==
    ASSUME Inv, NEW a \in Conns, NEW x \in Fresh
    PROVE \E P : Grows(P) /\ x \in P[a]
<1> DEFINE X == [c \in Conns |-> IF c = a THEN {x} ELSE {}]
           P == [c \in Conns |-> Owned(c) \cup X[c]]
<1>1. X \in [Conns -> SUBSET Fresh] /\ \A c, d \in Conns : c # d => X[c] \cap X[d] = {}
  OBVIOUS
<1>2. x \in P[a]
  OBVIOUS
<1> HIDE DEF X
<1>3. Grows(P)
  BY <1>1, GrowsBy
<1> QED
  BY <1>2, <1>3

\* Two fresh ids, for two connections or for one.
LEMMA GrowsTwo ==
    ASSUME Inv, NEW a \in Conns, NEW b \in Conns, NEW x \in Fresh, NEW y \in Fresh, x # y
    PROVE \E P : Grows(P) /\ x \in P[a] /\ y \in P[b]
<1> DEFINE X == [c \in Conns |-> (IF c = a THEN {x} ELSE {}) \cup (IF c = b THEN {y} ELSE {})]
           P == [c \in Conns |-> Owned(c) \cup X[c]]
<1>1. X \in [Conns -> SUBSET Fresh] /\ \A c, d \in Conns : c # d => X[c] \cap X[d] = {}
  OBVIOUS
<1>2. x \in P[a] /\ y \in P[b]
  OBVIOUS
<1> HIDE DEF X
<1>3. Grows(P)
  BY <1>1, GrowsBy
<1> QED
  BY <1>2, <1>3

\* The ids of the connections' lists are apart.
LEMMA TabsApart ==
    ASSUME Inv
    PROVE Apart(tabs)
<1>1. \A c \in Conns : Ids(Of(tabs, c)) \subseteq Owned(c)
  BY DEF Owned, OwnedIn
<1> QED
  BY <1>1 DEF Apart, Inv, Separate

-----------------------------------------------------------------------------
(* What all steps have in common.                                          *)

IdsOf(ids) == ids \in [Conns -> TabIds \cup {None}]

\* A connection with tabs has one of them active.
Opens(s, ids) == \A c \in Conns : Of(s, c) # <<>> => ids[c] \in Ids(Of(s, c))

\* The effects of a render: history, releases, and what is rendered.
LEMMA EffectsKeep ==
    ASSUME Inv, NEW s, Tidy(s), NEW ids, IdsOf(ids), Opens(s, ids),
           NEW a \in Conns \cup {None}, NEW preview, IdsOf(preview), NEW loading \in BOOLEAN,
           Effects(s, ids, a, preview, loading)
    PROVE Types' /\ Tidy(tabs)' /\ ActiveIsOpen' /\ RecentAreOpen' /\ SessionsAreOwned'
<1>1. /\ tabs' = s /\ activeTabIds' = ids /\ active' = a /\ previewTabs' = preview
      /\ isLoading' = loading
      /\ HistoryEffect(s, ids, a, preview) /\ ReleaseEffect(s, a)
  BY DEF Effects
<1>2. Types /\ SessionsAreOwned
  BY DEF Inv
<1>3. \A c \in Conns : /\ recentTabs'[c] \in Seq(TabIds \cup {None})
                       /\ Len(recentTabs'[c]) = Len(Of(s, c))
                       /\ ToSet(recentTabs'[c]) = Ids(Of(s, c))
  <2> SUFFICES ASSUME NEW c \in Conns
               PROVE /\ recentTabs'[c] \in Seq(TabIds \cup {None})
                     /\ Len(recentTabs'[c]) = Len(Of(s, c))
                     /\ ToSet(recentTabs'[c]) = Ids(Of(s, c))
    OBVIOUS
  <2> DEFINE S == TabIds \cup {None}
             old == recentTabs[c]
             new == <<ids[c]>>
             history == IF c = a /\ ids[c] # None /\ preview[c] # ids[c] THEN new \o old ELSE old
  <2>1. recentTabs'[c] = orderRecentTabs(Of(s, c), history)
    BY <1>1 DEF HistoryEffect
  <2>2. TabIds \subseteq S
    OBVIOUS
  <2>3. old \in Seq(S)
    BY <1>2 DEF Types
  <2>4. new \in Seq(S)
    BY DEF IdsOf
  <2> HIDE DEF S, old, new
  <2>5. new \o old \in Seq(S)
    BY <2>3, <2>4
  <2>6. history \in Seq(S)
    BY <2>3, <2>5
  <2> HIDE DEF history
  <2>7. Listed(Of(s, c), c, Ids(Of(s, c)))
    BY DEF Tidy
  <2>8. LET r == orderRecentTabs(Of(s, c), history) IN
        r \in Seq(S) /\ Len(r) = Len(Of(s, c)) /\ ToSet(r) = Ids(Of(s, c))
    BY <2>2, <2>6, <2>7, RecentOrder
  <2> QED
    BY <2>1, <2>8 DEF S
<1>4. recentTabs' \in [Conns -> Seq(TabIds \cup {None})]
  <2>1. recentTabs' = [c \in Conns |-> recentTabs'[c]]
    BY <1>1 DEF HistoryEffect
  <2> QED
    BY <1>3, <2>1
<1>5. RecentAreOpen'
  BY <1>1, <1>3 DEF RecentAreOpen
<1>6. Tidy(tabs)' /\ ActiveIsOpen'
  BY <1>1 DEF Tidy, Opens, ActiveIsOpen
<1> DEFINE gone == sessions \cap (Ids(tabs) \ Ids(s))
<1>7. /\ releases' = IF a = None THEN releases ELSE releases \cup gone
      /\ sessions' = IF a = None THEN {} ELSE sessions
  BY <1>1 DEF ReleaseEffect
<1>8. SessionsAreOwned'
  BY <1>1, <1>2, <1>7 DEF SessionsAreOwned
<1>9. sessions' \subseteq TabIds /\ releases' \subseteq TabIds
  BY <1>2, <1>7 DEF Types
<1>10. Types'
  BY <1>1, <1>4, <1>9 DEF Types, IdsOf
<1> QED
  BY <1>5, <1>6, <1>8, <1>10

\* What the next state holds, within bounds that are apart.
LEMMA StepKeeps ==
    ASSUME Types', Tidy(tabs)', ActiveIsOpen', RecentAreOpen', SessionsAreOwned',
           Waiting', Shapes', NEW P \in [Conns -> SUBSET TabIds],
           \A c, d \in Conns : c # d => P[c] \cap P[d] = {},
           \A c \in Conns : /\ Ids(Of(tabs', c)) \subseteq P[c]
                            /\ StackOf(c, closedTabs'[c], P[c])
                            /\ PrefsOf(c, storage'[c], P[c])
                            /\ LoadsOf(c, loads', P[c])
    PROVE Inv'
<1>1. \A c \in Conns : Owned(c)' \subseteq P[c]
  <2> SUFFICES ASSUME NEW c \in Conns PROVE Owned(c)' \subseteq P[c]
    OBVIOUS
  <2>1. OwnedIn(tabs', closedTabs'[c], storage'[c], loads', c) \subseteq P[c]
    BY OwnedWithin
  <2> QED
    BY <2>1 DEF Owned
<1>2. Separate'
  <2> SUFFICES ASSUME NEW c \in Conns, NEW d \in Conns, c # d
               PROVE Owned(c)' \cap Owned(d)' = {}
    BY DEF Separate
  <2> QED
    BY <1>1
<1>3. ASSUME NEW c \in Conns
      PROVE /\ StackOf(c, closedTabs'[c], TabIds)
            /\ PrefsOf(c, storage'[c], TabIds)
            /\ LoadsOf(c, loads', TabIds)
  <2>1. P[c] \subseteq TabIds
    OBVIOUS
  <2>2. PrefsOf(c, storage'[c], TabIds) /\ LoadsOf(c, loads', TabIds)
    BY <2>1 DEF PrefsOf, LoadsOf
  <2>3. StackOf(c, closedTabs'[c], TabIds)
    <3>1. {e.tab.id : e \in ToSet(closedTabs'[c])} \subseteq P[c]
      BY StackWithin
    <3>2. {e.tab.id : e \in ToSet(closedTabs'[c])} \subseteq TabIds
      BY <2>1, <3>1
    <3> QED
      BY <3>2, StackWithin
  <2> QED
    BY <2>2, <2>3
<1>4. Held'
  BY <1>3 DEF Held
<1> QED
  BY <1>2, <1>4 DEF Inv

\* SaveEffect stores the active connection's list, or nothing.
LEMMA SaveKeeps ==
    ASSUME Inv, NEW P, Grows(P), NEW s, Tidy(s), NEW ids, IdsOf(ids), Opens(s, ids),
           NEW a \in Conns \cup {None}, a \in Conns => Ids(Of(s, a)) \subseteq P[a],
           NEW loading, SaveEffect(s, ids, a, loading)
    PROVE /\ storage' \in [Conns -> Preferences]
          /\ \A c \in Conns : PrefsOf(c, storage'[c], P[c])
<1>1. storage \in [Conns -> Preferences] /\ \A c \in Conns : PrefsOf(c, storage[c], P[c])
  BY HeldWithin DEF Inv, Shapes
<1>2. CASE a = None \/ loading
  <2>1. storage' = storage
    BY <1>2 DEF SaveEffect
  <2> QED
    BY <1>1, <2>1
<1>3. CASE ~(a = None \/ loading)
  <2> DEFINE p == [tabs |-> Of(s, a), activeTabId |-> ids[a]]
  <2>1. a \in Conns /\ storage' = [storage EXCEPT ![a] = p]
    BY <1>3 DEF SaveEffect
  <2>2. Listed(Of(s, a), a, Ids(Of(s, a))) /\ ids[a] \in TabIds \cup {None}
    BY <2>1 DEF Tidy, IdsOf
  <2>3. Of(s, a) # <<>> => ids[a] \in Ids(Of(s, a))
    BY <2>1 DEF Opens
  <2>4. p \in Preferences
    BY <2>2 DEF Preferences, Listed
  <2>5. p.tabs = Of(s, a) /\ p.activeTabId = ids[a]
    OBVIOUS
  <2> HIDE DEF p
  <2>6. PrefsOf(a, p, P[a])
    BY <2>1, <2>2, <2>3, <2>4, <2>5 DEF PrefsOf
  <2>7. storage' \in [Conns -> Preferences] /\ storage'[a] = p
    BY <1>1, <2>1, <2>4
  <2>8. \A c \in Conns : c # a => storage'[c] = storage[c]
    BY <1>1, <2>1
  <2>9. \A c \in Conns : PrefsOf(c, storage'[c], P[c])
    BY <1>1, <2>6, <2>7, <2>8
  <2> QED
    BY <2>7, <2>9
<1> QED
  BY <1>2, <1>3

\* A list that is not touched is a prefix of itself.
LEMMA PrefixSelf ==
    ASSUME NEW s \in Seq(Tab), NEW d
    PROVE IsPrefix(Of(s, d), Of(s, d))
<1> DEFINE u == Of(s, d)
<1>1. u \in Seq(Tab)
  BY OfIs
<1> HIDE DEF u
<1>2. Len(u) <= Len(u)
  BY <1>1
<1> QED
  BY <1>2 DEF IsPrefix, u

\* A list is a prefix of itself with one more entry.
LEMMA PrefixAppend ==
    ASSUME NEW S, NEW u \in Seq(S), NEW b \in S
    PROVE IsPrefix(u, Append(u, b))
BY DEF IsPrefix

\* The handlers of the active connection: its list becomes one of the ids in N.
LEMMA HandleKeeps ==
    ASSUME Inv, active \in Conns, NEW P, Grows(P),
           NEW s, NEW N, N \subseteq P[active], Relisted(tabs, s, active, N),
           NEW x \in TabIds \cup {None}, Of(s, active) # <<>> => x \in N,
           NEW preview, IdsOf(preview), Handle(s, x, preview),
           closedTabs' = [c \in Conns |-> closedTabs'[c]],
           \A c \in Conns : StackOf(c, closedTabs'[c], P[c]),
           Waiting', loads' = loads
    PROVE Inv' /\ Others
<1> DEFINE ids == [activeTabIds EXCEPT ![active] = x]
<1>1. Tidy(tabs) /\ Types /\ Shapes /\ ActiveIsOpen
  BY DEF Inv
<1>2. /\ Effects(s, ids, active, preview, isLoading)
      /\ SaveEffect(s, ids, active, isLoading)
  BY DEF Handle
<1>3. /\ Tidy(s) /\ Ids(Of(s, active)) = N
      /\ \A d \in Conns \ {active} : Of(s, d) = Of(tabs, d)
  BY <1>1, RelistedTidy DEF Relisted
<1>4. IdsOf(ids) /\ ids[active] = x /\ \A d \in Conns \ {active} : ids[d] = activeTabIds[d]
  BY <1>1 DEF IdsOf, Types
<1> HIDE DEF ids
<1>5. Opens(s, ids)
  <2> SUFFICES ASSUME NEW c \in Conns, Of(s, c) # <<>> PROVE ids[c] \in Ids(Of(s, c))
    BY DEF Opens
  <2>1. CASE c = active
    BY <1>3, <1>4, <2>1
  <2>2. CASE c # active
    BY <1>1, <1>3, <1>4, <2>2 DEF ActiveIsOpen
  <2> QED
    BY <2>1, <2>2
<1>6. isLoading \in BOOLEAN
  BY <1>1 DEF Types
<1>7. Types' /\ Tidy(tabs)' /\ ActiveIsOpen' /\ RecentAreOpen' /\ SessionsAreOwned'
  BY <1>2, <1>3, <1>4, <1>5, <1>6, EffectsKeep
<1>8. /\ storage' \in [Conns -> Preferences]
      /\ \A c \in Conns : PrefsOf(c, storage'[c], P[c])
  <2>1. Ids(Of(s, active)) \subseteq P[active]
    BY <1>3
  <2> QED
    BY <1>2, <1>3, <1>4, <1>5, <2>1, SaveKeeps
<1>9. tabs' = s /\ active' = active
  BY <1>2 DEF Effects
<1>10. \A c \in Conns : Ids(Of(tabs, c)) \subseteq P[c] /\ LoadsOf(c, loads, P[c])
  BY HeldWithin
<1>11. \A c \in Conns : Ids(Of(s, c)) \subseteq P[c]
  <2> SUFFICES ASSUME NEW c \in Conns PROVE Ids(Of(s, c)) \subseteq P[c]
    OBVIOUS
  <2>1. CASE c = active
    BY <1>3, <2>1
  <2>2. CASE c # active
    BY <1>3, <1>10, <2>2
  <2> QED
    BY <2>1, <2>2
<1>12. Shapes'
  BY <1>1, <1>8 DEF Shapes
<1>13. Inv'
  <2>1. \A c \in Conns : /\ Ids(Of(tabs', c)) \subseteq P[c]
                         /\ StackOf(c, closedTabs'[c], P[c])
                         /\ PrefsOf(c, storage'[c], P[c])
                         /\ LoadsOf(c, loads', P[c])
    BY <1>8, <1>9, <1>10, <1>11
  <2>2. /\ P \in [Conns -> SUBSET TabIds]
        /\ \A c, d \in Conns : c # d => P[c] \cap P[d] = {}
    BY DEF Grows
  <2> QED
    BY <1>7, <1>12, <2>1, <2>2, StepKeeps
<1>14. Others
  <2>1. \A d \in Conns \ {active} : IsPrefix(Of(tabs, d), Of(tabs', d))
    <3> SUFFICES ASSUME NEW d \in Conns \ {active} PROVE IsPrefix(Of(tabs, d), Of(tabs', d))
      OBVIOUS
    <3>1. Of(tabs', d) = Of(tabs, d) /\ tabs \in Seq(Tab)
      BY <1>1, <1>3, <1>9 DEF Tidy
    <3> QED
      BY <3>1, PrefixSelf
  <2> QED
    BY <2>1 DEF Others
<1> QED
  BY <1>13, <1>14

-----------------------------------------------------------------------------
(***************************************************************************)
(* The handlers.                                                           *)
(***************************************************************************)
LEMMA ActiveFacts ==
    ASSUME Inv, active # None
    PROVE /\ active \in Conns /\ Tidy(tabs) /\ Apart(tabs) /\ tabs \in Seq(Tab)
          /\ Shown = Of(tabs, active) /\ Listed(Shown, active, Ids(Shown))
          /\ Ids(Shown) \subseteq TabIds /\ Ids(Shown) \subseteq InUse
          /\ IdsOf(previewTabs) /\ IdsOf(Committed)
          /\ Shown # <<>> => activeTabIds[active] \in Ids(Shown)
          /\ activeTabIds[active] \in TabIds \cup {None}
<1>1. Tidy(tabs) /\ Types /\ ActiveIsOpen
  BY DEF Inv
<1>2. active \in Conns
  BY <1>1 DEF Types
<1>3. tabs \in Seq(Tab) /\ Listed(Of(tabs, active), active, Ids(Of(tabs, active)))
  BY <1>1, <1>2 DEF Tidy
<1>4. Ids(Of(tabs, active)) \subseteq Ids(tabs) /\ Ids(tabs) \subseteq TabIds
  BY <1>3, OfIs
<1>5. Ids(tabs) \subseteq InUse
  BY <1>2, OwnedInUse
<1>6. IdsOf(previewTabs) /\ IdsOf(Committed) /\ activeTabIds[active] \in TabIds \cup {None}
  BY <1>1, <1>2 DEF Types, IdsOf, Committed
<1> QED
  BY <1>1, <1>2, <1>3, <1>4, <1>5, <1>6, TabsApart DEF Shown, ActiveIsOpen

\* A tab that is shown is one of the list, so the list has an active tab.
LEMMA SomeActive ==
    ASSUME NEW s, NEW x \in Ids(s)
    PROVE s # <<>>
BY DEF Ids

\* A handler that closes nothing.
LEMMA HandleAlone ==
    ASSUME Inv, active \in Conns, NEW P, Grows(P),
           NEW s, NEW N, N \subseteq P[active], Relisted(tabs, s, active, N),
           NEW x \in TabIds \cup {None}, Of(s, active) # <<>> => x \in N,
           NEW preview, IdsOf(preview), Handle(s, x, preview),
           UNCHANGED <<closedTabs, pendingNotebook, loads>>
    PROVE Inv' /\ Others
<1>1. closedTabs' = [c \in Conns |-> closedTabs'[c]]
  BY DEF Inv, Shapes
<1>2. \A c \in Conns : StackOf(c, closedTabs'[c], P[c])
  BY HeldWithin
<1>3. Waiting'
  BY DEF Inv, Waiting
<1> QED
  BY <1>1, <1>2, <1>3, HandleKeeps

\* A handler that closes nothing and whose list has the ids of before.
LEMMA HandleSame ==
    ASSUME Inv, active \in Conns, NEW s, Relisted(tabs, s, active, Ids(Shown)),
           NEW x \in Ids(Shown), NEW preview, IdsOf(preview), Handle(s, x, preview),
           UNCHANGED <<closedTabs, pendingNotebook, loads>>
    PROVE Inv' /\ Others
<1>1. PICK P : Grows(P)
  BY GrowsNone
<1>2. Ids(Shown) \subseteq P[active]
  BY <1>1, HeldWithin DEF Shown
<1>3. active # None
  BY TabsAssumption
<1>4. x \in TabIds \cup {None}
  BY <1>3, ActiveFacts
<1> QED
  BY <1>1, <1>2, <1>4, HandleAlone

\* addTab.
LEMMA AddTabKeeps ==
    ASSUME Inv, NEW kind \in Kinds, NEW after, NEW x \in TabIds, AddTab(kind, after, x)
    PROVE Inv' /\ Others
<1> DEFINE t == NewTab(x, active, kind)
           s == keepPinnedTabsFirst(insertTabAfter(tabs, after, t), active)
           N == Ids(Shown) \cup {x}
<1>1. active # None /\ x \in Fresh /\ Handle(s, x, Committed)
      /\ UNCHANGED <<closedTabs, pendingNotebook, loads>>
  BY DEF AddTab
<1>2. active \in Conns /\ Tidy(tabs) /\ IdsOf(Committed) /\ Ids(Shown) \subseteq InUse
      /\ Shown = Of(tabs, active)
  BY <1>1, ActiveFacts
<1>3. t \in Tab /\ t.conn = active /\ t.id = x
  BY <1>2 DEF NewTab, Tab
<1>4. x \notin Ids(Of(tabs, active))
  BY <1>1, <1>2 DEF Fresh
<1> HIDE DEF t
<1>5. Relisted(tabs, s, active, N)
  BY <1>2, <1>3, <1>4, AddRelists
<1>6. PICK P : Grows(P) /\ x \in P[active]
  BY <1>1, <1>2, GrowsOne
<1>7. N \subseteq P[active]
  BY <1>2, <1>6, HeldWithin
<1>8. x \in N /\ x \in TabIds \cup {None}
  OBVIOUS
<1> HIDE DEF s, N
<1> QED
  BY <1>1, <1>2, <1>5, <1>6, <1>7, <1>8, HandleAlone

\* setActiveTabId.
LEMMA SetActiveKeeps ==
    ASSUME Inv, NEW x \in TabIds, NEW preview \in BOOLEAN, setActiveTabId(x, preview)
    PROVE Inv' /\ Others
<1> DEFINE q == [previewTabs EXCEPT ![active] = IF preview THEN x ELSE None]
<1>1. active # None /\ x \in Ids(Shown) /\ Handle(tabs, x, q)
      /\ UNCHANGED <<closedTabs, pendingNotebook, loads>>
  BY DEF setActiveTabId
<1>2. active \in Conns /\ Tidy(tabs) /\ IdsOf(previewTabs) /\ Shown = Of(tabs, active)
  BY <1>1, ActiveFacts
<1>3. IdsOf(q)
  BY <1>2 DEF IdsOf
<1> HIDE DEF q
<1>4. Relisted(tabs, tabs, active, Ids(Shown))
  BY <1>2, Unchanged
<1> QED
  BY <1>1, <1>2, <1>3, <1>4, HandleSame

\* reorderTab.
LEMMA ReorderKeeps ==
    ASSUME Inv, NEW x \in TabIds, NEW insertAt \in Nat, reorderTab(x, insertAt)
    PROVE Inv' /\ Others
<1> DEFINE s == moveTab(tabs, active, x, insertAt)
<1>1. active # None /\ x \in Ids(Shown) /\ Handle(s, activeTabIds[active], previewTabs)
      /\ UNCHANGED <<closedTabs, pendingNotebook, loads>>
  BY DEF reorderTab
<1>2. active \in Conns /\ Tidy(tabs) /\ IdsOf(previewTabs) /\ Shown = Of(tabs, active)
  BY <1>1, ActiveFacts
<1>3. Relisted(tabs, s, active, Ids(Shown))
  BY <1>1, <1>2, MoveRelists
<1>4. activeTabIds[active] \in Ids(Shown)
  BY <1>1, SomeActive, ActiveFacts
<1> HIDE DEF s
<1> QED
  BY <1>1, <1>2, <1>3, <1>4, HandleSame

\* pinTab.
LEMMA PinKeeps ==
    ASSUME Inv, NEW x \in TabIds, NEW pinned \in BOOLEAN, pinTab(x, pinned)
    PROVE Inv' /\ Others
<1> DEFINE s == setTabPinned(tabs, x, pinned)
<1>1. active # None /\ x \in Ids(Shown) /\ Handle(s, activeTabIds[active], previewTabs)
      /\ UNCHANGED <<closedTabs, pendingNotebook, loads>>
  BY DEF pinTab
<1>2. active \in Conns /\ Tidy(tabs) /\ Apart(tabs) /\ IdsOf(previewTabs)
      /\ Shown = Of(tabs, active)
  BY <1>1, ActiveFacts
<1>3. Relisted(tabs, s, active, Ids(Shown))
  BY <1>1, <1>2, PinRelists
<1>4. activeTabIds[active] \in Ids(Shown)
  BY <1>1, SomeActive, ActiveFacts
<1> HIDE DEF s
<1> QED
  BY <1>1, <1>2, <1>3, <1>4, HandleSame

-----------------------------------------------------------------------------
(***************************************************************************)
(* Closing and reopening.                                                  *)
(***************************************************************************)
LEMMA PushKeeps ==
    ASSUME Inv, NEW P, Grows(P), NEW X, closedTabs' = pushClosedTabs(closedTabs, tabs, X)
    PROVE /\ closedTabs' = [c \in Conns |-> closedTabs'[c]]
          /\ \A c \in Conns : StackOf(c, closedTabs'[c], P[c])
<1>1. closedTabs' = [c \in Conns |-> closedTabs'[c]]
  BY DEF pushClosedTabs
<1>2. ASSUME NEW c \in Conns PROVE StackOf(c, closedTabs'[c], P[c])
  <2>1. Tidy(tabs) /\ MaxClosedTabs \in Nat
    BY TabsAssumption DEF Inv
  <2>2. closedTabs[c] \in Seq(Entry(c, P[c])) /\ Ids(Of(tabs, c)) \subseteq P[c]
    BY HeldWithin DEF StackOf
  <2> DEFINE N == P[c]
             u == pushClosedTabs(closedTabs, tabs, X)[c]
  <2> HIDE DEF N
  <2>3. closedTabs[c] \in Seq(Entry(c, N)) /\ Ids(Of(tabs, c)) \subseteq N
    BY <2>2 DEF N
  <2>4. u \in Seq(Entry(c, N)) /\ Len(u) <= MaxClosedTabs
    BY <2>1, <2>3, Pushed
  <2> QED
    BY <2>4 DEF StackOf, N
<1> QED
  BY <1>1, <1>2

\* closeTab.
LEMMA CloseKeeps ==
    ASSUME Inv, NEW x \in TabIds, closeTab(x)
    PROVE Inv' /\ Others
<1> DEFINE current == activeTabIds[active]
           r == closeTabWithState(tabs, active, current, x)
           N == Ids(Shown) \ {x}
<1>1. /\ active # None /\ x \in Ids(Shown) /\ Handle(r.tabs, r.active, previewTabs)
      /\ closedTabs' = pushClosedTabs(closedTabs, tabs, {x})
      /\ UNCHANGED <<pendingNotebook, loads>>
  BY DEF closeTab
<1>2. /\ active \in Conns /\ Tidy(tabs) /\ Apart(tabs) /\ IdsOf(previewTabs)
      /\ Shown = Of(tabs, active) /\ Ids(Shown) \subseteq TabIds
  BY <1>1, ActiveFacts
<1>3. current \in Ids(Shown)
  BY <1>1, SomeActive, ActiveFacts
<1> HIDE DEF current
<1>4. /\ Relisted(tabs, r.tabs, active, N)
      /\ Of(r.tabs, active) # <<>> => r.active \in N
      /\ r.active \in N \cup {None}
  BY <1>1, <1>2, <1>3, CloseRelists
<1>5. PICK P : Grows(P)
  BY GrowsNone
<1>6. N \subseteq P[active]
  BY <1>2, <1>5, HeldWithin
<1>7. /\ closedTabs' = [c \in Conns |-> closedTabs'[c]]
      /\ \A c \in Conns : StackOf(c, closedTabs'[c], P[c])
  BY <1>1, <1>5, PushKeeps
<1>8. Waiting'
  BY <1>1 DEF Inv, Waiting
<1>9. r.active \in TabIds \cup {None}
  BY <1>2, <1>4
<1> HIDE DEF r, N
<1> QED
  BY <1>1, <1>2, <1>4, <1>5, <1>6, <1>7, <1>8, <1>9, HandleKeeps

\* The bulk closes.
LEMMA BulkCloseKeeps ==
    ASSUME Inv, NEW action \in {"all", "others", "left", "right"}, NEW x \in TabIds,
           closeTabs(action, x)
    PROVE Inv' /\ Others
<1> DEFINE current == activeTabIds[active]
           r == bulkClose(tabs, active, current, action, x)
           closed == getBulkClosedTabIds(Shown, action, x)
           N == Ids(Shown) \ closed
<1>1. /\ active # None /\ x \in Ids(Shown) /\ Handle(r.tabs, r.active, previewTabs)
      /\ closedTabs' = pushClosedTabs(closedTabs, tabs, closed)
      /\ UNCHANGED <<pendingNotebook, loads>>
  BY DEF closeTabs
<1>2. /\ active \in Conns /\ Tidy(tabs) /\ Apart(tabs) /\ IdsOf(previewTabs)
      /\ Shown = Of(tabs, active) /\ Ids(Shown) \subseteq TabIds
  BY <1>1, ActiveFacts
<1>3. current \in Ids(Shown)
  BY <1>1, SomeActive, ActiveFacts
<1> HIDE DEF current
<1>4. /\ Relisted(tabs, r.tabs, active, N)
      /\ Of(r.tabs, active) # <<>> => r.active \in N
      /\ r.active \in Ids(Shown) \cup {None}
  BY <1>1, <1>2, <1>3, BulkCloseRelists
<1>5. PICK P : Grows(P)
  BY GrowsNone
<1>6. N \subseteq P[active]
  BY <1>2, <1>5, HeldWithin
<1> HIDE DEF closed
<1>7. /\ closedTabs' = [c \in Conns |-> closedTabs'[c]]
      /\ \A c \in Conns : StackOf(c, closedTabs'[c], P[c])
  BY <1>1, <1>5, PushKeeps
<1>8. Waiting'
  BY <1>1 DEF Inv, Waiting
<1>9. r.active \in TabIds \cup {None}
  BY <1>2, <1>4
<1> HIDE DEF r, N
<1> QED
  BY <1>1, <1>2, <1>4, <1>5, <1>6, <1>7, <1>8, <1>9, HandleKeeps

\* A sequence without its last entry.
LEMMA FrontIs ==
    ASSUME NEW S, NEW k \in Seq(S), k # <<>>
    PROVE Front(k) \in Seq(S) /\ Len(Front(k)) = Len(k) - 1
<1>1. Len(k) \in Nat \ {0}
  OBVIOUS
<1> DEFINE m == Len(k) - 1
<1>2. m \in 0 .. Len(k)
  BY <1>1
<1> HIDE DEF m
<1>3. SubSeq(k, 1, m) \in Seq(S) /\ Len(SubSeq(k, 1, m)) = m
  BY <1>2, Cut
<1> QED
  BY <1>3 DEF Front, m

\* The last entry of a stack, and the rest.
LEMMA StackPopped ==
    ASSUME NEW c, NEW k, NEW N, StackOf(c, k, N), k # <<>>
    PROVE Last(k) \in Entry(c, N) /\ StackOf(c, Front(k), N)
<1>1. k \in Seq(Entry(c, N)) /\ Len(k) <= MaxClosedTabs /\ Len(k) > 0
  BY DEF StackOf
<1>2. Last(k) \in Entry(c, N)
  BY <1>1 DEF Last
<1>3. Front(k) \in Seq(Entry(c, N)) /\ Len(Front(k)) = Len(k) - 1
  BY <1>1, FrontIs
<1>4. MaxClosedTabs \in Nat
  BY TabsAssumption
<1> QED
  BY <1>1, <1>2, <1>3, <1>4 DEF StackOf

\* reopenClosedTab: the id is that of before, or a fresh one when it is taken.
LEMMA ReopenKeeps ==
    ASSUME Inv, NEW x \in TabIds, reopenClosedTab(x)
    PROVE Inv' /\ Others
<1> DEFINE stack == closedTabs[active]
           entry == Last(stack)
           id == reopenedId(entry, x)
           s == keepPinnedTabsFirst(insertReopenedTab(tabs, active, entry, id), active)
           N == Ids(Shown) \cup {id}
<1>1. /\ active # None /\ stack # <<>> /\ (id = x => x \in Fresh) /\ Handle(s, id, Committed)
      /\ closedTabs' = [closedTabs EXCEPT ![active] = Front(stack)]
      /\ UNCHANGED <<pendingNotebook, loads>>
  BY DEF reopenClosedTab
<1>2. /\ active \in Conns /\ Tidy(tabs) /\ IdsOf(Committed) /\ Shown = Of(tabs, active)
      /\ Ids(Shown) \subseteq InUse
  BY <1>1, ActiveFacts
<1>3. ASSUME NEW P, Grows(P)
      PROVE entry \in Entry(active, P[active]) /\ StackOf(active, Front(stack), P[active])
  BY <1>1, <1>2, <1>3, HeldWithin, StackPopped
<1>4. PICK P : Grows(P) /\ id \in P[active]
  <2>1. CASE id = x
    BY <1>1, <1>2, <2>1, GrowsOne
  <2>2. CASE id # x
    <3>1. PICK P : Grows(P)
      BY GrowsNone
    <3>2. id = entry.tab.id
      BY <2>2 DEF reopenedId
    <3>3. entry.tab.id \in P[active]
      BY <1>3, <3>1 DEF Entry
    <3> QED
      BY <3>1, <3>2, <3>3
  <2> QED
    BY <2>1, <2>2
<1>5. id \in TabIds
  BY <1>2, <1>4 DEF Grows
<1>6. id \notin Ids(Of(tabs, active))
  <2>1. CASE id = x
    BY <1>1, <1>2, <2>1 DEF Fresh
  <2>2. CASE id # x
    <3>1. entry.tab.id \notin Ids(tabs) /\ id = entry.tab.id
      BY <2>2 DEF reopenedId
    <3>2. Ids(Of(tabs, active)) \subseteq Ids(tabs)
      BY <1>2, OfIs DEF Tidy
    <3> QED
      BY <3>1, <3>2
  <2> QED
    BY <2>1, <2>2
<1>7. entry.tab \in Tab /\ entry.tab.conn = active /\ entry.index \in Nat \ {0}
  BY <1>3, <1>4 DEF Entry
<1>8. closedTabs' = [c \in Conns |-> closedTabs'[c]] /\ closedTabs'[active] = Front(stack)
      /\ \A c \in Conns \ {active} : closedTabs'[c] = closedTabs[c]
  <2>1. closedTabs = [c \in Conns |-> closedTabs[c]]
    BY DEF Inv, Shapes
  <2> DEFINE front == Front(stack)
  <2>2. closedTabs' = [closedTabs EXCEPT ![active] = front]
    BY <1>1
  <2> HIDE DEF front
  <2>3. closedTabs' = [c \in Conns |-> closedTabs'[c]] /\ closedTabs'[active] = front
        /\ \A c \in Conns \ {active} : closedTabs'[c] = closedTabs[c]
    BY <1>2, <2>1, <2>2
  <2> QED
    BY <2>3 DEF front
<1>9. \A c \in Conns : StackOf(c, closedTabs'[c], P[c])
  BY <1>3, <1>4, <1>8, HeldWithin
<1>10. Waiting'
  BY <1>1 DEF Inv, Waiting
<1> HIDE DEF id, entry, stack
<1>11. Relisted(tabs, s, active, N)
  BY <1>2, <1>5, <1>6, <1>7, ReopenRelists
<1>12. N \subseteq P[active]
  BY <1>2, <1>4, HeldWithin
<1>13. id \in N /\ id \in TabIds \cup {None}
  BY <1>5
<1> HIDE DEF s, N
<1> QED
  BY <1>1, <1>2, <1>4, <1>8, <1>9, <1>10, <1>11, <1>12, <1>13, HandleKeeps

-----------------------------------------------------------------------------
(***************************************************************************)
(* Steps that leave the lists alone, and the connections.                  *)
(***************************************************************************)
\* One connection has a list of its own making.
LEMMA OthersKept ==
    ASSUME Tidy(tabs), NEW c \in Conns, NEW N, Relisted(tabs, tabs', c, N)
    PROVE Others
<1>1. ASSUME NEW d \in Conns \ {c} PROVE IsPrefix(Of(tabs, d), Of(tabs', d))
  <2>1. Of(tabs', d) = Of(tabs, d) /\ tabs \in Seq(Tab)
    BY DEF Relisted, Tidy
  <2> QED
    BY <2>1, PrefixSelf
<1> QED
  BY <1>1 DEF Others

\* A step that only loads, pins or releases.
LEMMA FrameKeeps ==
    ASSUME Inv,
           UNCHANGED <<tabs, active, activeTabIds, isLoading, recentTabs, previewTabs,
                       closedTabs, storage>>,
           sessions' \subseteq TabIds, releases' \subseteq TabIds, SessionsAreOwned', Waiting',
           \A l \in loads' : l.conn \in Conns
                             /\ l = [conn |-> l.conn, reply |-> l.reply, nr |-> l.nr],
           NEW P, Grows(P), \A c \in Conns : LoadsOf(c, loads', P[c])
    PROVE Inv' /\ Others
<1>1. Types' /\ Tidy(tabs)' /\ ActiveIsOpen' /\ RecentAreOpen' /\ Shapes'
  BY DEF Inv, Types, Tidy, ActiveIsOpen, RecentAreOpen, Shapes
<1>2. \A c \in Conns : /\ Ids(Of(tabs', c)) \subseteq P[c]
                       /\ StackOf(c, closedTabs'[c], P[c])
                       /\ PrefsOf(c, storage'[c], P[c])
                       /\ LoadsOf(c, loads', P[c])
  BY HeldWithin
<1>3. P \in [Conns -> SUBSET TabIds] /\ \A c, d \in Conns : c # d => P[c] \cap P[d] = {}
  BY DEF Grows
<1>4. Inv'
  BY <1>1, <1>2, <1>3, StepKeeps
<1>5. Tidy(tabs) /\ tabs' = tabs /\ active' = active /\ active \in Conns \cup {None}
  BY DEF Inv, Types
<1>6. Others
  <2>1. ASSUME active' # None PROVE Others
    <3>1. Relisted(tabs, tabs', active, Ids(Of(tabs, active)))
      BY <1>5, <2>1, Unchanged
    <3> QED
      BY <1>5, <2>1, <3>1, OthersKept
  <2> QED
    BY <2>1 DEF Others
<1> QED
  BY <1>4, <1>6

\* The loads of before are within bounds.
LEMMA LoadsKept ==
    ASSUME Inv, loads' = loads, NEW P, Grows(P)
    PROVE /\ \A l \in loads' : l.conn \in Conns
                               /\ l = [conn |-> l.conn, reply |-> l.reply, nr |-> l.nr]
          /\ \A c \in Conns : LoadsOf(c, loads', P[c])
<1>1. \A c \in Conns : LoadsOf(c, loads, P[c])
  BY HeldWithin
<1> QED
  BY <1>1 DEF Inv, Shapes

\* Nothing happens.
LEMMA StutterKeeps ==
    ASSUME Inv, UNCHANGED vars
    PROVE Inv' /\ Others
<1>1. PICK P : Grows(P)
  BY GrowsNone
<1>2. /\ UNCHANGED <<tabs, active, activeTabIds, isLoading, recentTabs, previewTabs,
                     closedTabs, storage>>
      /\ UNCHANGED <<pendingNotebook, loads, sessions, releases>>
  BY DEF vars
<1>3. SessionsAreOwned' /\ Waiting' /\ sessions' \subseteq TabIds /\ releases' \subseteq TabIds
  BY <1>2 DEF Inv, Types, SessionsAreOwned, Waiting
<1> QED
  BY <1>1, <1>2, <1>3, LoadsKept, FrameKeeps

\* A run in a tab begins a transaction.
LEMMA BeginKeeps ==
    ASSUME Inv, NEW x \in TabIds, beginTransaction(x)
    PROVE Inv' /\ Others
<1>1. PICK P : Grows(P)
  BY GrowsNone
<1>2. /\ active # None /\ x \in Ids(Shown) /\ sessions' = sessions \cup {x}
      /\ UNCHANGED <<tabs, active, activeTabIds, isLoading, recentTabs, previewTabs,
                     closedTabs, storage>>
      /\ UNCHANGED <<pendingNotebook, loads, releases>>
  BY DEF beginTransaction
<1>3. x \in Ids(tabs)
  BY <1>2, ActiveFacts, OfIs
<1>4. SessionsAreOwned' /\ Waiting' /\ sessions' \subseteq TabIds /\ releases' \subseteq TabIds
  BY <1>2, <1>3 DEF Inv, Types, SessionsAreOwned, Waiting
<1> QED
  BY <1>1, <1>2, <1>4, LoadsKept, FrameKeeps

\* release_query_session.
LEMMA ReleaseKeeps ==
    ASSUME Inv, NEW x \in TabIds, releaseQuerySession(x)
    PROVE Inv' /\ Others
<1>1. PICK P : Grows(P)
  BY GrowsNone
<1>2. /\ releases' = releases \ {x} /\ sessions' = sessions \ {x}
      /\ UNCHANGED <<tabs, active, activeTabIds, isLoading, recentTabs, previewTabs,
                     closedTabs, storage>>
      /\ UNCHANGED <<pendingNotebook, loads>>
  BY DEF releaseQuerySession
<1>3. SessionsAreOwned' /\ Waiting' /\ sessions' \subseteq TabIds /\ releases' \subseteq TabIds
  BY <1>2 DEF Inv, Types, SessionsAreOwned, Waiting
<1> QED
  BY <1>1, <1>2, <1>3, LoadsKept, FrameKeeps

\* No tabs, and the preferences of a connection that has none.
LEMMA NothingListed ==
    ASSUME NEW c, NEW N
    PROVE Listed(<<>>, c, {}) /\ Sorted(<<>>) /\ Ids(<<>>) = {}
          /\ PrefsOf(c, [tabs |-> <<>>, activeTabId |-> None], N)
<1> DEFINE e == <<>>
           p == [tabs |-> e, activeTabId |-> None]
<1>1. e \in Seq(Tab) /\ DOMAIN e = {}
  OBVIOUS
<1>2. p.tabs = e /\ p \in Preferences
  BY <1>1 DEF Preferences
<1> HIDE DEF e, p
<1>3. Listed(e, c, {}) /\ Sorted(e) /\ Ids(e) = {}
  BY <1>1 DEF Listed, Sorted, Ids, Distinct
<1>4. PrefsOf(c, p, N)
  BY <1>2, <1>3, e = <<>> DEF PrefsOf, e
<1> QED
  BY <1>3, <1>4 DEF e, p

\* load_editor_preferences reads what is stored of the connection, or nothing.
LEMMA LoadEditorKeeps ==
    ASSUME Inv, NEW l \in loads, loadEditorPreferences(l)
    PROVE Inv' /\ Others
<1>1. PICK P : Grows(P)
  BY GrowsNone
<1>2. PICK r \in {storage[l.conn], [tabs |-> <<>>, activeTabId |-> None]} :
          loads' = (loads \ {l}) \cup {[l EXCEPT !.reply = r]}
  BY DEF loadEditorPreferences
<1>3. /\ UNCHANGED <<tabs, active, activeTabIds, isLoading, recentTabs, previewTabs,
                     closedTabs, storage>>
      /\ UNCHANGED <<pendingNotebook, sessions, releases>>
  BY DEF loadEditorPreferences
<1>4. SessionsAreOwned' /\ Waiting' /\ sessions' \subseteq TabIds /\ releases' \subseteq TabIds
  BY <1>3 DEF Inv, Types, SessionsAreOwned, Waiting
<1>5. /\ l.conn \in Conns /\ l = [conn |-> l.conn, reply |-> l.reply, nr |-> l.nr]
      /\ \A m \in loads : m.conn \in Conns
                          /\ m = [conn |-> m.conn, reply |-> m.reply, nr |-> m.nr]
  BY DEF Inv, Shapes
<1> DEFINE m == [conn |-> l.conn, reply |-> r, nr |-> l.nr]
<1>6. loads' = (loads \ {l}) \cup {m}
  BY <1>2, <1>5
<1>7. /\ m.conn = l.conn /\ m.reply = r
      /\ m = [conn |-> m.conn, reply |-> m.reply, nr |-> m.nr]
  OBVIOUS
<1>8. PrefsOf(l.conn, r, P[l.conn])
  BY <1>1, <1>2, <1>5, HeldWithin, NothingListed
<1> HIDE DEF m
<1>9. \A k \in loads' : k.conn \in Conns
                        /\ k = [conn |-> k.conn, reply |-> k.reply, nr |-> k.nr]
  BY <1>5, <1>6, <1>7
<1>10. \A c \in Conns : LoadsOf(c, loads', P[c])
  <2> SUFFICES ASSUME NEW c \in Conns, NEW k \in loads', k.conn = c, k.reply # None
               PROVE PrefsOf(c, k.reply, P[c])
    BY DEF LoadsOf
  <2>1. CASE k = m
    BY <1>7, <1>8, <2>1
  <2>2. CASE k # m
    BY <1>1, <1>6, <2>2, HeldWithin DEF LoadsOf
  <2> QED
    BY <2>1, <2>2
<1> QED
  BY <1>1, <1>3, <1>4, <1>9, <1>10, FrameKeeps

\* openNotebook, which waits while a list is loading.
LEMMA OpenNotebookKeeps ==
    ASSUME Inv, NEW x \in TabIds, openNotebook(x)
    PROVE Inv' /\ Others
<1>1. active # None /\ "notebook" \in Kinds /\ UNCHANGED <<closedTabs, loads>>
  BY DEF openNotebook
<1>2. active \in Conns /\ Tidy(tabs) /\ IdsOf(Committed) /\ Ids(Shown) \subseteq InUse
      /\ Shown = Of(tabs, active)
  BY <1>1, ActiveFacts
<1>3. CASE isLoading
  <2>1. PICK P : Grows(P)
    BY GrowsNone
  <2>2. /\ UNCHANGED <<tabs, active, activeTabIds, isLoading, recentTabs, previewTabs,
                       closedTabs, storage>>
        /\ UNCHANGED <<loads, sessions, releases>> /\ pendingNotebook' = active
    BY <1>3 DEF openNotebook
  <2>3. SessionsAreOwned' /\ Waiting' /\ sessions' \subseteq TabIds /\ releases' \subseteq TabIds
    BY <1>1, <1>2, <2>2 DEF Inv, Types, SessionsAreOwned, Waiting
  <2> QED
    BY <2>1, <2>2, <2>3, LoadsKept, FrameKeeps
<1>4. CASE ~isLoading
  <2> DEFINE s == Notebook(tabs, active, x)
             i == NotebookTab(tabs, active, x)
             N == Ids(Of(s, active))
  <2>1. x \in Fresh /\ pendingNotebook' = None /\ Handle(s, i, Committed)
    BY <1>4 DEF openNotebook
  <2>2. x \notin Ids(Of(tabs, active))
    BY <1>2, <2>1 DEF Fresh
  <2>3. /\ Relisted(tabs, s, active, N) /\ N \subseteq Ids(Of(tabs, active)) \cup {x}
        /\ i \in N
    BY <1>1, <1>2, <2>2, NotebookRelists
  <2>4. PICK P : Grows(P) /\ x \in P[active]
    BY <1>2, <2>1, GrowsOne
  <2>5. N \subseteq P[active]
    BY <1>2, <2>3, <2>4, HeldWithin
  <2>6. i \in TabIds \cup {None}
    BY <1>2, <2>3, <2>4, <2>5 DEF Grows
  <2>7. Waiting'
    BY <2>1 DEF Waiting
  <2>8. closedTabs' = [c \in Conns |-> closedTabs'[c]]
    BY <1>1 DEF Inv, Shapes
  <2>9. \A c \in Conns : StackOf(c, closedTabs'[c], P[c])
    BY <1>1, <2>4, HeldWithin
  <2> HIDE DEF s, i, N
  <2> QED
    BY <1>1, <1>2, <2>1, <2>3, <2>4, <2>5, <2>6, <2>7, <2>8, <2>9, HandleKeeps
<1> QED
  BY <1>3, <1>4

\* The last connection is disconnected.
LEMMA NoConnectionKeeps ==
    ASSUME Inv, noConnection
    PROVE Inv' /\ Others
<1> DEFINE e == <<>>
<1>1. /\ Effects(e, activeTabIds, None, previewTabs, FALSE)
      /\ UNCHANGED <<closedTabs, pendingNotebook, loads, storage>>
  BY DEF noConnection
<1>2. e \in Seq(Tab) /\ \A c : \A k \in DOMAIN e : e[k].conn = c
  OBVIOUS
<1>3. e = <<>>
  OBVIOUS
<1> HIDE DEF e
<1>4. ASSUME NEW c PROVE Of(e, c) = e
  BY <1>2, OfOwn
<1>5. Tidy(e)
  BY <1>2, <1>3, <1>4, NothingListed DEF Tidy
<1>6. Opens(e, activeTabIds)
  BY <1>3, <1>4 DEF Opens
<1>7. IdsOf(activeTabIds) /\ IdsOf(previewTabs)
  BY DEF Inv, Types, IdsOf
<1>8. None \in Conns \cup {None} /\ FALSE \in BOOLEAN
  OBVIOUS
<1>9. Types' /\ Tidy(tabs)' /\ ActiveIsOpen' /\ RecentAreOpen' /\ SessionsAreOwned'
  BY <1>1, <1>5, <1>6, <1>7, <1>8, EffectsKeep
<1>10. Waiting' /\ Shapes' /\ tabs' = e /\ active' = None
  BY <1>1 DEF Inv, Waiting, Shapes, Effects
<1>11. PICK P : Grows(P)
  BY GrowsNone
<1>12. \A c \in Conns : Ids(Of(tabs', c)) \subseteq P[c]
  BY <1>3, <1>4, <1>10, NothingListed
<1>13. \A c \in Conns : /\ Ids(Of(tabs', c)) \subseteq P[c]
                        /\ StackOf(c, closedTabs'[c], P[c])
                        /\ PrefsOf(c, storage'[c], P[c])
                        /\ LoadsOf(c, loads', P[c])
  BY <1>1, <1>11, <1>12, HeldWithin
<1>14. P \in [Conns -> SUBSET TabIds] /\ \A c, d \in Conns : c # d => P[c] \cap P[d] = {}
  BY <1>11 DEF Grows
<1> QED
  BY <1>9, <1>10, <1>13, <1>14, StepKeeps DEF Others

\* The connection whose notebook waits, when it opens and when it does not.
LEMMA WaitingOpens ==
    ASSUME NEW s, Tidy(s), NEW c \in Conns, NEW opens \in BOOLEAN,
           opens => "notebook" \in Kinds,
           NEW x \in TabIds, opens => x \notin Ids(Of(s, c)),
           NEW ids, IdsOf(ids), Opens(s, ids), NEW preview, IdsOf(preview),
           NEW P, Ids(Of(s, c)) \subseteq P, opens => x \in P, P \subseteq TabIds,
           NEW t, t = IF opens THEN Notebook(s, c, x) ELSE s,
           NEW now, now = IF opens THEN [ids EXCEPT ![c] = NotebookTab(s, c, x)] ELSE ids,
           NEW then, then = IF opens THEN [preview EXCEPT ![c] = None] ELSE preview
    PROVE /\ Relisted(s, t, c, Ids(Of(t, c))) /\ Ids(Of(t, c)) \subseteq P
          /\ IdsOf(now) /\ Opens(t, now) /\ IdsOf(then)
          /\ Of(t, c) = Of(s, c) \/ \E b \in Tab : Of(t, c) = Append(Of(s, c), b)
<1>1. CASE opens
  <2> DEFINE i == NotebookTab(s, c, x)
  <2>1. t = Notebook(s, c, x) /\ now = [ids EXCEPT ![c] = i] /\ then = [preview EXCEPT ![c] = None]
    BY <1>1
  <2>2. /\ Relisted(s, t, c, Ids(Of(t, c))) /\ Ids(Of(t, c)) \subseteq Ids(Of(s, c)) \cup {x}
        /\ i \in Ids(Of(t, c))
        /\ Of(t, c) = Of(s, c) \/ \E b \in Tab : Of(t, c) = Append(Of(s, c), b)
    BY <1>1, <2>1, NotebookRelists
  <2> HIDE DEF i
  <2>3. Ids(Of(t, c)) \subseteq P /\ i \in TabIds
    BY <1>1, <2>2
  <2>4. IdsOf(now) /\ now[c] = i /\ \A d \in Conns \ {c} : now[d] = ids[d]
    BY <2>1, <2>3 DEF IdsOf
  <2>5. IdsOf(then)
    BY <2>1 DEF IdsOf
  <2>6. Opens(t, now)
    <3> SUFFICES ASSUME NEW d \in Conns, Of(t, d) # <<>> PROVE now[d] \in Ids(Of(t, d))
      BY DEF Opens
    <3>1. CASE d = c
      BY <2>2, <2>4, <3>1
    <3>2. CASE d # c
      BY <2>2, <2>4, <3>2 DEF Relisted, Opens
    <3> QED
      BY <3>1, <3>2
  <2> QED
    BY <2>2, <2>3, <2>4, <2>5, <2>6
<1>2. CASE ~opens
  <2>1. t = s /\ now = ids /\ then = preview
    BY <1>2
  <2> QED
    BY <2>1, Unchanged
<1> QED
  BY <1>1, <1>2

\* The active connection changes, and its list is loaded or shown.
LEMMA SwitchKeeps ==
    ASSUME Inv, NEW c \in Conns, NEW x \in TabIds, switchConnection(c, x)
    PROVE Inv' /\ Others
<1> DEFINE live == Of(tabs, c) # <<>>
           opens == pendingNotebook = c /\ (live \/ ~isLoading)
           s == IF opens THEN Notebook(tabs, c, x) ELSE tabs
           ids == IF opens THEN [activeTabIds EXCEPT ![c] = NotebookTab(tabs, c, x)]
                  ELSE activeTabIds
           preview == IF opens THEN [previewTabs EXCEPT ![c] = None] ELSE previewTabs
<1>1. /\ opens => x \in Fresh
      /\ Effects(s, ids, c, preview, ~live)
      /\ pendingNotebook' = IF opens THEN None ELSE pendingNotebook
      /\ closedTabs' = closedTabs
  BY DEF switchConnection
<1>2. /\ live => SaveEffect(s, ids, c, FALSE) /\ loads' = loads
      /\ ~live => /\ SaveEffect(tabs, activeTabIds, c, isLoading)
                  /\ \E r \in {storage[c], None} : \E n :
                         loads' = loads \cup {[conn |-> c, reply |-> r, nr |-> n]}
  BY DEF switchConnection
<1>3. Tidy(tabs) /\ Types /\ Waiting /\ Shapes /\ ActiveIsOpen
  BY DEF Inv
<1>4. IdsOf(activeTabIds) /\ IdsOf(previewTabs) /\ Opens(tabs, activeTabIds)
  BY <1>3 DEF Types, IdsOf, Opens, ActiveIsOpen
<1>5. opens => "notebook" \in Kinds
  BY <1>3, TabsAssumption DEF Waiting
<1>6. opens => x \notin Ids(Of(tabs, c))
  <2>1. Ids(Of(tabs, c)) \subseteq Ids(tabs) /\ Ids(tabs) \subseteq InUse
    BY <1>3, OfIs, OwnedInUse DEF Tidy
  <2> QED
    BY <1>1, <2>1 DEF Fresh
<1>7. PICK P : Grows(P) /\ (opens => x \in P[c])
  <2>1. CASE opens
    BY <1>1, <2>1, GrowsOne
  <2>2. CASE ~opens
    BY <2>2, GrowsNone
  <2> QED
    BY <2>1, <2>2
<1>8. Ids(Of(tabs, c)) \subseteq P[c] /\ P[c] \subseteq TabIds
  BY <1>7, HeldWithin DEF Grows
<1>9. opens \in BOOLEAN /\ (~live) \in BOOLEAN
  OBVIOUS
<1>10. /\ s = IF opens THEN Notebook(tabs, c, x) ELSE tabs
       /\ ids = IF opens THEN [activeTabIds EXCEPT ![c] = NotebookTab(tabs, c, x)]
                ELSE activeTabIds
       /\ preview = IF opens THEN [previewTabs EXCEPT ![c] = None] ELSE previewTabs
  OBVIOUS
<1> HIDE DEF opens, s, ids, preview
<1>11. /\ Relisted(tabs, s, c, Ids(Of(s, c))) /\ Ids(Of(s, c)) \subseteq P[c]
       /\ IdsOf(ids) /\ Opens(s, ids) /\ IdsOf(preview)
  BY <1>3, <1>4, <1>5, <1>6, <1>7, <1>8, <1>9, <1>10, WaitingOpens
<1>12. Tidy(s)
  BY <1>3, <1>11, RelistedTidy
<1>13. c \in Conns \cup {None}
  OBVIOUS
<1>14. Types' /\ Tidy(tabs)' /\ ActiveIsOpen' /\ RecentAreOpen' /\ SessionsAreOwned'
  BY <1>1, <1>9, <1>11, <1>12, <1>13, EffectsKeep
<1>15. /\ storage' \in [Conns -> Preferences]
       /\ \A d \in Conns : PrefsOf(d, storage'[d], P[d])
  <2>1. CASE live
    BY <1>2, <1>7, <1>11, <1>12, <1>13, <2>1, SaveKeeps
  <2>2. CASE ~live
    BY <1>2, <1>3, <1>4, <1>7, <1>8, <1>13, <2>2, SaveKeeps
  <2> QED
    BY <2>1, <2>2
<1>16. /\ \A l \in loads' : l.conn \in Conns
                            /\ l = [conn |-> l.conn, reply |-> l.reply, nr |-> l.nr]
       /\ \A d \in Conns : LoadsOf(d, loads', P[d])
  <2>1. CASE live
    BY <1>2, <1>7, <2>1, LoadsKept
  <2>2. CASE ~live
    <3>1. PICK r \in {storage[c], None} :
              \E n : loads' = loads \cup {[conn |-> c, reply |-> r, nr |-> n]}
      BY <1>2, <2>2
    <3>2. PICK n : loads' = loads \cup {[conn |-> c, reply |-> r, nr |-> n]}
      BY <3>1
    <3> DEFINE m == [conn |-> c, reply |-> r, nr |-> n]
    <3>3. m.conn = c /\ m.reply = r /\ m = [conn |-> m.conn, reply |-> m.reply, nr |-> m.nr]
      OBVIOUS
    <3>4. r # None => PrefsOf(c, r, P[c])
      BY <1>7, <3>1, HeldWithin
    <3>5. loads' = loads \cup {m}
      BY <3>2
    <3> HIDE DEF m
    <3>6. \A l \in loads' : l.conn \in Conns
                            /\ l = [conn |-> l.conn, reply |-> l.reply, nr |-> l.nr]
      BY <1>3, <3>3, <3>5 DEF Shapes
    <3>7. \A d \in Conns : LoadsOf(d, loads', P[d])
      BY <1>7, <3>3, <3>4, <3>5, HeldWithin DEF LoadsOf
    <3> QED
      BY <3>6, <3>7
  <2> QED
    BY <2>1, <2>2
<1>17. Waiting'
  BY <1>1, <1>3 DEF Waiting
<1>18. closedTabs' = [d \in Conns |-> closedTabs'[d]]
  BY <1>1, <1>3 DEF Shapes
<1>19. Shapes'
  BY <1>15, <1>16, <1>18 DEF Shapes
<1>20. tabs' = s
  BY <1>1 DEF Effects
<1>21. \A d \in Conns : /\ Ids(Of(tabs', d)) \subseteq P[d]
                        /\ StackOf(d, closedTabs'[d], P[d])
                        /\ PrefsOf(d, storage'[d], P[d])
                        /\ LoadsOf(d, loads', P[d])
  <2>1. \A d \in Conns : Ids(Of(tabs, d)) \subseteq P[d] /\ StackOf(d, closedTabs[d], P[d])
    BY <1>7, HeldWithin
  <2>2. \A d \in Conns : Ids(Of(s, d)) \subseteq P[d]
    BY <1>11, <2>1 DEF Relisted
  <2> QED
    BY <1>1, <1>15, <1>16, <1>20, <2>1, <2>2
<1>22. P \in [Conns -> SUBSET TabIds] /\ \A d, e \in Conns : d # e => P[d] \cap P[e] = {}
  BY <1>7 DEF Grows
<1>23. Inv'
  BY <1>14, <1>17, <1>19, <1>21, <1>22, StepKeeps
<1>24. Others
  BY <1>3, <1>11, <1>20, OthersKept
<1> QED
  BY <1>23, <1>24

-----------------------------------------------------------------------------
(***************************************************************************)
(* A load that lands.                                                      *)
(***************************************************************************)
\* The tabs that a load gives connection c, the list with them, and the tab that is active.
LoadedTabs(c, r, x) == IF r.tabs = <<>> THEN <<NewTab(x, c, "console")>> ELSE r.tabs

LoadedList(s, c, r, x) ==
    IF r.tabs = <<>> THEN OfOthers(s, c) \o LoadedTabs(c, r, x)
    ELSE keepPinnedTabsFirst(OfOthers(s, c) \o LoadedTabs(c, r, x), c)

LoadedActive(c, r, x) ==
    IF r.tabs # <<>> /\ r.activeTabId # None THEN r.activeTabId ELSE LoadedTabs(c, r, x)[1].id

\* The loaded list, or a first tab, takes the place of the connection's list.
LEMMA LoadReplaces ==
    ASSUME NEW s, Tidy(s), NEW c \in Conns, NEW r, NEW N, PrefsOf(c, r, N),
           NEW x \in TabIds, r.tabs = <<>> => x \in N,
           NEW M, M = Ids(LoadedTabs(c, r, x))
    PROVE /\ Relisted(s, LoadedList(s, c, r, x), c, M)
          /\ M \subseteq N /\ M \subseteq {x} \cup Ids(r.tabs)
          /\ LoadedActive(c, r, x) \in M
<1> DEFINE loaded == LoadedTabs(c, r, x)
           merged == OfOthers(s, c) \o loaded
           ordered == LoadedList(s, c, r, x)
           current == LoadedActive(c, r, x)
<1>1. s \in Seq(Tab)
  BY DEF Tidy
<1>2. CASE r.tabs = <<>>
  <2> DEFINE t == NewTab(x, c, "console")
  <2>1. t \in Tab /\ t.conn = c /\ t.id = x
    BY TabsAssumption DEF NewTab, Tab
  <2>2. loaded = <<t>> /\ ordered = merged /\ current = loaded[1].id /\ M = Ids(loaded)
    BY <1>2 DEF LoadedTabs, LoadedList, LoadedActive
  <2> HIDE DEF t, loaded, ordered, current
  <2>3. loaded \in Seq(Tab) /\ Len(loaded) = 1 /\ loaded[1] = t
    BY <2>1, <2>2
  <2>4. Listed(loaded, c, M) /\ Sorted(loaded) /\ M = {x}
    <3>1. Listed(loaded, c, {x}) /\ Sorted(loaded)
      BY <2>1, <2>2, SingleListed
    <3> QED
      BY <2>2, <3>1 DEF Listed
  <2>5. Changed(s, merged, c, loaded)
    BY <1>1, <2>4, ReplaceChanges DEF Listed
  <2>6. Relisted(s, ordered, c, M)
    BY <2>2, <2>4, <2>5 DEF Changed, Relisted
  <2>7. M \subseteq N /\ M \subseteq {x} \cup Ids(r.tabs) /\ current \in M
    BY <1>2, <2>1, <2>2, <2>3, <2>4
  <2> QED
    BY <2>6, <2>7 DEF ordered, current
<1>3. CASE r.tabs # <<>>
  <2>1. /\ loaded = r.tabs /\ M = Ids(r.tabs)
        /\ ordered = keepPinnedTabsFirst(merged, c)
        /\ current = IF r.activeTabId # None THEN r.activeTabId ELSE loaded[1].id
    BY <1>3 DEF LoadedTabs, LoadedList, LoadedActive
  <2> HIDE DEF loaded, ordered, current
  <2>2. Listed(loaded, c, M) /\ M \subseteq N
    BY <2>1 DEF PrefsOf
  <2>3. Changed(s, merged, c, loaded)
    BY <1>1, <2>2, ReplaceChanges DEF Listed
  <2>4. Relisted(s, ordered, c, M)
    BY <2>1, <2>2, <2>3, ThenKeepPinned
  <2>5. loaded[1].id \in M
    <3>1. loaded \in Seq(Tab) /\ loaded # <<>> /\ M = Ids(loaded)
      BY <1>3, <2>1, <2>2 DEF Listed
    <3>2. 1 \in DOMAIN loaded
      BY <3>1
    <3> QED
      BY <3>1, <3>2 DEF Ids
  <2>6. current \in M
    BY <1>3, <2>1, <2>5 DEF PrefsOf
  <2>7. M \subseteq {x} \cup Ids(r.tabs)
    BY <2>1
  <2> QED
    BY <2>2, <2>4, <2>6, <2>7 DEF ordered, current
<1> QED
  BY <1>2, <1>3

\* The continuation of loadPreferences, whichever connection is active now.
LEMMA LoadKeeps ==
    ASSUME Inv, NEW l \in loads, NEW x \in TabIds, NEW y \in TabIds, loadPreferences(l, x, y)
    PROVE Inv' /\ Others
<1> DEFINE c == l.conn
           r == l.reply
           ordered == LoadedList(tabs, c, r, x)
           current == LoadedActive(c, r, x)
           M == Ids(LoadedTabs(c, r, x))
           opens == pendingNotebook # None /\ pendingNotebook = active
           s == IF opens THEN Notebook(ordered, active, y) ELSE ordered
           ids == [activeTabIds EXCEPT ![c] = current]
           now == IF opens THEN [ids EXCEPT ![active] = NotebookTab(ordered, active, y)]
                  ELSE ids
           preview == IF opens THEN Committed ELSE previewTabs
<1>1. /\ r # None /\ (r.tabs = <<>> => x \in Fresh) /\ (opens => y \in Fresh /\ y # x)
      /\ loads' = loads \ {l}
      /\ Effects(s, now, active, preview, FALSE)
      /\ SaveEffect(s, now, active, FALSE)
      /\ pendingNotebook' = IF opens THEN None ELSE pendingNotebook
      /\ closedTabs' = closedTabs
  BY DEF loadPreferences, LoadedTabs, LoadedList, LoadedActive
<1>2. Tidy(tabs) /\ Types /\ Waiting /\ Shapes /\ ActiveIsOpen
  BY DEF Inv
<1>3. c \in Conns /\ IdsOf(activeTabIds) /\ IdsOf(previewTabs) /\ Opens(tabs, activeTabIds)
  BY <1>2 DEF Shapes, Types, IdsOf, Opens, ActiveIsOpen
<1>4. opens => active \in Conns /\ "notebook" \in Kinds
  BY <1>2 DEF Types, Waiting
<1>5. PICK P : Grows(P) /\ (r.tabs = <<>> => x \in P[c]) /\ (opens => y \in P[active])
  <2> DEFINE first == r.tabs = <<>>
  <2> HIDE DEF first, opens
  <2>1. (first => x \in Fresh) /\ (opens => y \in Fresh /\ y # x)
    BY <1>1 DEF first
  <2>2. \E P : Grows(P) /\ (first => x \in P[c]) /\ (opens => y \in P[active])
    <3> HIDE DEF c
    <3>1. CASE first /\ opens
      BY <1>3, <1>4, <2>1, <3>1, GrowsTwo
    <3>2. CASE first /\ ~opens
      BY <1>3, <2>1, <3>2, GrowsOne
    <3>3. CASE ~first /\ opens
      BY <1>4, <2>1, <3>3, GrowsOne
    <3>4. CASE ~first /\ ~opens
      BY <3>4, GrowsNone
    <3> QED
      BY <3>1, <3>2, <3>3, <3>4
  <2> QED
    BY <2>2 DEF first
<1>6. PrefsOf(c, r, P[c])
  BY <1>1, <1>3, <1>5, HeldWithin DEF LoadsOf
<1>7. /\ ids = [activeTabIds EXCEPT ![c] = current]
      /\ s = IF opens THEN Notebook(ordered, active, y) ELSE ordered
      /\ now = IF opens THEN [ids EXCEPT ![active] = NotebookTab(ordered, active, y)] ELSE ids
      /\ preview = IF opens THEN [previewTabs EXCEPT ![active] = None] ELSE previewTabs
      /\ opens \in BOOLEAN
  BY DEF Committed
<1>8. \A d \in Conns : Ids(Of(tabs, d)) \subseteq P[d] /\ P[d] \subseteq TabIds
  BY <1>5, HeldWithin DEF Grows
<1>9. /\ Relisted(tabs, ordered, c, M) /\ M \subseteq P[c] /\ current \in M
      /\ M \subseteq {x} \cup Ids(r.tabs)
  BY <1>2, <1>3, <1>5, <1>6, LoadReplaces
<1>10. opens => y \notin M /\ \A d \in Conns : y \notin Ids(Of(tabs, d))
  <2>1. Ids(r.tabs) \subseteq Owned(c)
    BY <1>1 DEF Owned, OwnedIn
  <2>2. \A d \in Conns : Ids(Of(tabs, d)) \subseteq Owned(d)
    BY DEF Owned, OwnedIn
  <2>3. \A d \in Conns : Owned(d) \subseteq InUse
    BY OwnedInUse
  <2> HIDE DEF M, opens
  <2> QED
    BY <1>1, <1>3, <1>9, <2>1, <2>2, <2>3 DEF Fresh
<1> HIDE DEF c, ordered, current, M, opens, s, ids, now, preview
<1>11. /\ Tidy(ordered) /\ Ids(Of(ordered, c)) = M
       /\ \A d \in Conns \ {c} : Of(ordered, d) = Of(tabs, d)
  BY <1>2, <1>3, <1>9, RelistedTidy DEF Relisted
<1>12. \A d \in Conns : Ids(Of(ordered, d)) \subseteq P[d]
  BY <1>8, <1>9, <1>11
<1>13. IdsOf(ids) /\ Opens(ordered, ids)
  <2>1. current \in TabIds
    BY <1>3, <1>8, <1>9
  <2>2. ids = [activeTabIds EXCEPT ![c] = current]
    BY <1>7
  <2>3. IdsOf(ids) /\ ids[c] = current /\ \A d \in Conns \ {c} : ids[d] = activeTabIds[d]
    BY <1>3, <2>1, <2>2 DEF IdsOf
  <2>4. ASSUME NEW d \in Conns, Of(ordered, d) # <<>> PROVE ids[d] \in Ids(Of(ordered, d))
    <3>1. CASE d = c
      BY <1>9, <1>11, <2>3, <3>1
    <3>2. CASE d # c
      BY <1>3, <1>11, <2>3, <2>4, <3>2 DEF Opens
    <3> QED
      BY <3>1, <3>2
  <2> QED
    BY <2>3, <2>4 DEF Opens
<1>14. /\ Tidy(s) /\ IdsOf(now) /\ Opens(s, now) /\ IdsOf(preview)
       /\ \A d \in Conns : Ids(Of(s, d)) \subseteq P[d]
       /\ \A d \in Conns \ {c} : IsPrefix(Of(tabs, d), Of(s, d))
  <2>1. \A d \in Conns \ {c} : IsPrefix(Of(tabs, d), Of(ordered, d))
    <3>1. tabs \in Seq(Tab)
      BY <1>2 DEF Tidy
    <3> QED
      BY <1>11, <3>1, PrefixSelf
  <2>2. ASSUME ~opens
        PROVE /\ Tidy(s) /\ IdsOf(now) /\ Opens(s, now) /\ IdsOf(preview)
              /\ \A d \in Conns : Ids(Of(s, d)) \subseteq P[d]
              /\ \A d \in Conns \ {c} : IsPrefix(Of(tabs, d), Of(s, d))
    <3>1. s = ordered /\ now = ids /\ preview = previewTabs
      BY <1>7, <2>2
    <3> QED
      BY <1>3, <1>11, <1>12, <1>13, <2>1, <3>1
  <2>3. ASSUME opens
        PROVE /\ Tidy(s) /\ IdsOf(now) /\ Opens(s, now) /\ IdsOf(preview)
              /\ \A d \in Conns : Ids(Of(s, d)) \subseteq P[d]
              /\ \A d \in Conns \ {c} : IsPrefix(Of(tabs, d), Of(s, d))
    <3>1. active \in Conns /\ "notebook" \in Kinds /\ y \in P[active]
      BY <1>4, <1>5, <2>3
    <3>2. y \notin Ids(Of(ordered, active))
      BY <1>10, <1>11, <2>3, <3>1
    <3>3. /\ s = IF opens THEN Notebook(ordered, active, y) ELSE ordered
          /\ now = IF opens THEN [ids EXCEPT ![active] = NotebookTab(ordered, active, y)] ELSE ids
          /\ preview = IF opens THEN [previewTabs EXCEPT ![active] = None] ELSE previewTabs
          /\ opens \in BOOLEAN
      BY <1>7
    <3>4. Ids(Of(ordered, active)) \subseteq P[active] /\ P[active] \subseteq TabIds
      BY <1>8, <1>12, <3>1
    <3>5. /\ Relisted(ordered, s, active, Ids(Of(s, active)))
          /\ Ids(Of(s, active)) \subseteq P[active]
          /\ IdsOf(now) /\ Opens(s, now) /\ IdsOf(preview)
          /\ Of(s, active) = Of(ordered, active)
             \/ \E b \in Tab : Of(s, active) = Append(Of(ordered, active), b)
      BY <1>3, <1>11, <1>13, <3>1, <3>2, <3>3, <3>4, WaitingOpens
    <3>6. Tidy(s) /\ \A d \in Conns \ {active} : Of(s, d) = Of(ordered, d)
      BY <1>11, <3>1, <3>5, RelistedTidy DEF Relisted
    <3>7. \A d \in Conns : Ids(Of(s, d)) \subseteq P[d]
      BY <1>12, <3>5, <3>6
    <3>8. ASSUME NEW d \in Conns \ {c} PROVE IsPrefix(Of(tabs, d), Of(s, d))
      <4>1. CASE d # active
        BY <2>1, <3>6, <4>1
      <4>2. CASE d = active /\ Of(s, active) = Of(ordered, active)
        BY <2>1, <4>2
      <4>3. CASE d = active /\ Of(s, active) # Of(ordered, active)
        <5>1. PICK b \in Tab : Of(s, active) = Append(Of(ordered, active), b)
          BY <3>5, <4>3
        <5>2. Of(ordered, d) = Of(tabs, d)
          BY <1>11
        <5>3. Of(tabs, d) \in Seq(Tab)
          BY <1>2 DEF Tidy, Listed
        <5> QED
          BY <4>3, <5>1, <5>2, <5>3, PrefixAppend
      <4> QED
        BY <4>1, <4>2, <4>3
    <3> QED
      BY <3>5, <3>6, <3>7, <3>8
  <2> QED
    BY <2>2, <2>3
<1>15. active \in Conns \cup {None} /\ FALSE \in BOOLEAN
  BY <1>2 DEF Types
<1>16. Types' /\ Tidy(tabs)' /\ ActiveIsOpen' /\ RecentAreOpen' /\ SessionsAreOwned'
  BY <1>1, <1>14, <1>15, EffectsKeep
<1>17. /\ storage' \in [Conns -> Preferences]
       /\ \A d \in Conns : PrefsOf(d, storage'[d], P[d])
  BY <1>1, <1>5, <1>14, <1>15, SaveKeeps
<1>18. /\ \A d \in Conns : LoadsOf(d, loads', P[d])
       /\ \A k \in loads' : k.conn \in Conns
                            /\ k = [conn |-> k.conn, reply |-> k.reply, nr |-> k.nr]
  <2>1. \A d \in Conns : LoadsOf(d, loads, P[d])
    BY <1>5, HeldWithin
  <2> QED
    BY <1>1, <1>2, <2>1 DEF Shapes, LoadsOf
<1>19. Waiting'
  BY <1>1, <1>2 DEF Waiting
<1>20. Shapes'
  BY <1>1, <1>2, <1>17, <1>18 DEF Shapes
<1>21. tabs' = s /\ active' = active
  BY <1>1 DEF Effects
<1>22. \A d \in Conns : /\ Ids(Of(tabs', d)) \subseteq P[d]
                        /\ StackOf(d, closedTabs'[d], P[d])
                        /\ PrefsOf(d, storage'[d], P[d])
                        /\ LoadsOf(d, loads', P[d])
  BY <1>1, <1>5, <1>14, <1>17, <1>18, <1>21, HeldWithin
<1>23. P \in [Conns -> SUBSET TabIds] /\ \A d, e \in Conns : d # e => P[d] \cap P[e] = {}
  BY <1>5 DEF Grows
<1>24. Inv'
  BY <1>16, <1>19, <1>20, <1>22, <1>23, StepKeeps
<1>25. Others
  BY <1>3, <1>14, <1>21 DEF Others
<1> QED
  BY <1>24, <1>25

-----------------------------------------------------------------------------
(***************************************************************************)
(* The initial states, and every step.                                     *)
(***************************************************************************)
LEMMA StartKeeps ==
    ASSUME Init
    PROVE Inv
<1> DEFINE e == <<>>
<1>1. e \in Seq(Tab) /\ Len(e) = 0 /\ DOMAIN e = {} /\ e = <<>>
      /\ \A c : \A k \in DOMAIN e : e[k].conn = c
  OBVIOUS
<1>2. /\ tabs = e /\ active = None /\ isLoading = FALSE
      /\ activeTabIds = [c \in Conns |-> None]
      /\ recentTabs = [c \in Conns |-> e] /\ previewTabs = [c \in Conns |-> None]
      /\ closedTabs = [c \in Conns |-> e] /\ pendingNotebook = None
      /\ loads = {} /\ sessions = {} /\ releases = {}
      /\ storage \in [Conns -> UNION {Stored(c, TabIds) : c \in Conns}]
      /\ \A c \in Conns : storage[c] \in Stored(c, TabIds)
      /\ \A c, d \in Conns : c # d => Ids(storage[c].tabs) \cap Ids(storage[d].tabs) = {}
  BY DEF Init
<1> HIDE DEF e
<1>3. ASSUME NEW c PROVE Of(e, c) = e /\ Ids(e) = {} /\ ToSet(e) = {}
  <2>1. Of(e, c) = e
    BY <1>1, OfOwn
  <2> QED
    BY <1>1, <2>1 DEF Ids, ToSet
<1>4. Tidy(tabs)
  BY <1>1, <1>2, <1>3, NothingListed DEF Tidy
<1>5. Types
  <2>1. e \in Seq(TabIds \cup {None})
    BY DEF e
  <2> QED
    BY <1>2, <2>1 DEF Types
<1>6. Waiting
  BY <1>2 DEF Waiting
<1>7. ASSUME NEW c \in Conns PROVE PrefsOf(c, storage[c], TabIds)
  <2>1. CASE storage[c] = Empty
    BY <2>1, NothingListed DEF Empty
  <2>2. CASE storage[c] # Empty
    <3>1. PICK x \in TabIds, p \in BOOLEAN :
              storage[c] = [tabs |-> <<[NewTab(x, c, "console") EXCEPT !.pinned = p]>>,
                            activeTabId |-> x]
      BY <1>2, <2>2 DEF Stored
    <3> DEFINE t == [NewTab(x, c, "console") EXCEPT !.pinned = p]
               z == <<t>>
               r == [tabs |-> z, activeTabId |-> x]
    <3>2. t \in Tab /\ t.conn = c /\ t.id = x
      BY TabsAssumption DEF NewTab, Tab
    <3> HIDE DEF t
    <3>3. Listed(z, c, {x})
      BY <3>2, SingleListed
    <3>4. z \in Seq(Tab) /\ Ids(z) = {x}
      BY <3>3 DEF Listed
    <3> HIDE DEF z
    <3>5. r \in Preferences /\ r.tabs = z /\ r.activeTabId = x
      BY <3>4 DEF Preferences
    <3> HIDE DEF r
    <3>6. PrefsOf(c, r, TabIds)
      BY <3>3, <3>4, <3>5 DEF PrefsOf
    <3> QED
      BY <3>1, <3>6 DEF r, z, t
  <2> QED
    BY <2>1, <2>2
<1>8. storage \in [Conns -> Preferences]
  BY <1>2, <1>7 DEF PrefsOf
<1>9. Shapes
  BY <1>2, <1>8 DEF Shapes
<1>10. Held
  <2>1. ASSUME NEW c \in Conns PROVE StackOf(c, closedTabs[c], TabIds)
    <3>1. closedTabs[c] = e /\ Len(e) = 0 /\ MaxClosedTabs \in Nat
      BY <1>1, <1>2, TabsAssumption
    <3>2. e \in Seq(Entry(c, TabIds))
      BY DEF e
    <3> QED
      BY <3>1, <3>2 DEF StackOf
  <2> QED
    BY <1>2, <1>7, <2>1 DEF Held, LoadsOf
<1>11. Separate
  <2>1. ASSUME NEW c \in Conns PROVE Owned(c) = Ids(storage[c].tabs)
    BY <1>2, <1>3 DEF Owned, OwnedIn
  <2> QED
    BY <1>2, <2>1 DEF Separate
<1>12. ActiveIsOpen
  BY <1>1, <1>2, <1>3 DEF ActiveIsOpen
<1>13. RecentAreOpen
  BY <1>2, <1>3 DEF RecentAreOpen
<1>14. SessionsAreOwned
  BY <1>2 DEF SessionsAreOwned
<1> QED
  BY <1>4, <1>5, <1>6, <1>9, <1>10, <1>11, <1>12, <1>13, <1>14 DEF Inv

\* Every step.
LEMMA NextKeeps ==
    ASSUME Inv, [Next]_vars
    PROVE Inv' /\ Others
<1>1. ASSUME NEW k \in Kinds, NEW a \in TabIds \cup {None}, NEW x \in TabIds, AddTab(k, a, x)
      PROVE Inv' /\ Others
  BY <1>1, AddTabKeeps
<1>2. ASSUME NEW x \in TabIds, NEW b \in BOOLEAN, setActiveTabId(x, b) PROVE Inv' /\ Others
  BY <1>2, SetActiveKeeps
<1>3. ASSUME NEW x \in TabIds, openNotebook(x) PROVE Inv' /\ Others
  BY <1>3, OpenNotebookKeeps
<1>4. ASSUME NEW x \in TabIds, closeTab(x) PROVE Inv' /\ Others
  BY <1>4, CloseKeeps
<1>5. ASSUME NEW a \in {"all", "others", "left", "right"}, NEW x \in TabIds, closeTabs(a, x)
      PROVE Inv' /\ Others
  BY <1>5, BulkCloseKeeps
<1>6. ASSUME NEW x \in TabIds, reopenClosedTab(x) PROVE Inv' /\ Others
  BY <1>6, ReopenKeeps
<1>7. ASSUME NEW x \in TabIds, NEW n \in 0 .. MaxTabs, reorderTab(x, n) PROVE Inv' /\ Others
  <2>1. n \in Nat
    BY TabsAssumption
  <2> QED
    BY <1>7, <2>1, ReorderKeeps
<1>8. ASSUME NEW x \in TabIds, NEW b \in BOOLEAN, pinTab(x, b) PROVE Inv' /\ Others
  BY <1>8, PinKeeps
<1>9. ASSUME NEW c \in Conns, NEW x \in TabIds, switchConnection(c, x) PROVE Inv' /\ Others
  BY <1>9, SwitchKeeps
<1>10. ASSUME noConnection PROVE Inv' /\ Others
  BY <1>10, NoConnectionKeeps
<1>11. ASSUME NEW l \in loads, loadEditorPreferences(l) PROVE Inv' /\ Others
  BY <1>11, LoadEditorKeeps
<1>12. ASSUME NEW l \in loads, NEW x \in TabIds, NEW y \in TabIds, loadPreferences(l, x, y)
       PROVE Inv' /\ Others
  BY <1>12, LoadKeeps
<1>13. ASSUME NEW x \in TabIds, beginTransaction(x) PROVE Inv' /\ Others
  BY <1>13, BeginKeeps
<1>14. ASSUME NEW x \in TabIds, releaseQuerySession(x) PROVE Inv' /\ Others
  BY <1>14, ReleaseKeeps
<1>15. CASE UNCHANGED vars
  BY <1>15, StutterKeeps
<1> QED
  BY <1>1, <1>2, <1>3, <1>4, <1>5, <1>6, <1>7, <1>8, <1>9, <1>10, <1>11, <1>12, <1>13, <1>14,
     <1>15 DEF Next

\* The inductive invariant of the editor tabs.
THEOREM InvariantHolds == Spec => []Inv
<1>1. Init => Inv
  BY StartKeeps
<1>2. Inv /\ [Next]_vars => Inv'
  BY NextKeeps
<1> QED
  BY <1>1, <1>2, PTL DEF Spec

\* Tabs of one connection have different ids, and so have those of two.
LEMMA TabsDistinct ==
    ASSUME Inv
    PROVE Distinct(tabs)
<1>1. Tidy(tabs) /\ tabs \in Seq(Tab) /\ Apart(tabs)
  BY TabsApart DEF Inv, Tidy
<1> SUFFICES ASSUME NEW i \in DOMAIN tabs, NEW j \in DOMAIN tabs, tabs[i].id = tabs[j].id
             PROVE i = j
  BY DEF Distinct
<1>2. tabs[i] \in Tab /\ tabs[j] \in Tab
  BY <1>1
<1> DEFINE c == tabs[i].conn
           o == Of(tabs, c)
<1>3. c \in Conns /\ tabs[j].conn \in Conns
  BY <1>2, TabFields
<1>4. tabs[j].conn = c
  <2>1. i \in Slots(tabs, tabs[i].conn) /\ j \in Slots(tabs, tabs[j].conn)
    BY DEF Slots
  <2>2. ASSUME NEW d, NEW k \in Slots(tabs, d) PROVE tabs[k].id \in Ids(Of(tabs, d))
    <3>1. Ids(Of(tabs, d)) = {tabs[m].id : m \in Slots(tabs, d)}
      BY <1>1, OfIs
    <3> QED
      BY <3>1
  <2>3. tabs[i].id \in Ids(Of(tabs, c)) /\ tabs[j].id \in Ids(Of(tabs, tabs[j].conn))
    BY <2>1, <2>2
  <2> QED
    BY <1>1, <1>3, <2>3 DEF Apart
<1> HIDE DEF c
<1>5. i \in Slots(tabs, c) /\ j \in Slots(tabs, c)
  BY <1>4 DEF Slots, c
<1>6. PICK e : /\ Enumerates(e, Len(o), Slots(tabs, c))
               /\ \A k \in 1 .. Len(o) : o[k] = tabs[e[k]]
  BY <1>1, OfIs
<1>7. PICK k \in 1 .. Len(o) : e[k] = i
  BY <1>5, <1>6 DEF Enumerates
<1>8. PICK m \in 1 .. Len(o) : e[m] = j
  BY <1>5, <1>6 DEF Enumerates
<1>9. o[k].id = o[m].id
  BY <1>6, <1>7, <1>8
<1>10. Listed(o, c, Ids(o))
  BY <1>1, <1>3 DEF Tidy
<1>11. k \in DOMAIN o /\ m \in DOMAIN o /\ Distinct(o)
  BY <1>10 DEF Listed
<1>12. k = m
  BY <1>9, <1>11 DEF Distinct
<1> QED
  BY <1>7, <1>8, <1>12

\* Every tab id is open once, whatever was closed, reopened and loaded since (TypeOK).
THEOREM TypeCorrect == Spec => []TypeOK
<1>1. Inv => TypeOK
  <2> SUFFICES ASSUME Inv PROVE TypeOK
    OBVIOUS
  <2>1. tabs \in Seq(Tab) /\ Types /\ Waiting
    BY DEF Inv, Tidy
  <2>2. \A i \in DOMAIN tabs : tabs[i] \in Tab
    BY <2>1
  <2>3. Cardinality(Ids(tabs)) = Len(tabs)
    <3> DEFINE n == Len(tabs)
               f == [k \in 1 .. n |-> tabs[k].id]
    <3>1. n \in Nat /\ DOMAIN tabs = 1 .. n
      BY <2>1
    <3> HIDE DEF n
    <3>2. f \in Bijection(1 .. n, Ids(tabs))
      <4>1. f \in [1 .. n -> Ids(tabs)]
        BY <3>1 DEF Ids
      <4>2. \A a, b \in 1 .. n : f[a] = f[b] => a = b
        BY <3>1, TabsDistinct DEF Distinct
      <4>3. \A x \in Ids(tabs) : \E k \in 1 .. n : f[k] = x
        BY <3>1 DEF Ids
      <4> QED
        BY <4>1, <4>2, <4>3 DEF Bijection, Injection, Surjection, IsInjective
    <3>3. IsFiniteSet(1 .. n) /\ Cardinality(1 .. n) = n
      BY <3>1, FS_Interval
    <3>4. Cardinality(Ids(tabs)) = n
      BY <3>2, <3>3, FS_Bijection DEF ExistsBijection
    <3> QED
      BY <3>4 DEF n
  <2>4. \A c \in Conns : Len(closedTabs[c]) <= MaxClosedTabs
    BY DEF Inv, Held, StackOf
  <2> QED
    BY <2>1, <2>2, <2>3, <2>4 DEF TypeOK, Types, Waiting
<1> QED
  BY <1>1, InvariantHolds, PTL

\* In the list of every connection the pinned tabs come first (PinnedFirst).
THEOREM PinnedFirstHolds == Spec => []PinnedFirst
<1>1. Inv => PinnedFirst
  BY DEF Inv, Tidy, Sorted, PinnedFirst
<1> QED
  BY <1>1, InvariantHolds, PTL

\* A connection that has tabs in memory has one of them active (ActiveIsOpen).
THEOREM ActiveIsOpenHolds == Spec => []ActiveIsOpen
<1>1. Inv => ActiveIsOpen
  BY DEF Inv
<1> QED
  BY <1>1, InvariantHolds, PTL

\* The order in which the switcher walks a connection's tabs is one of all its open tabs and
\* of no other (RecentAreOpen).
THEOREM RecentAreOpenHolds == Spec => []RecentAreOpen
<1>1. Inv => RecentAreOpen
  BY DEF Inv
<1> QED
  BY <1>1, InvariantHolds, PTL

\* Closing a tab and reopening it gives the list back as it was (ReopenUndoesClose).
THEOREM ReopenUndoesCloseHolds == Spec => []ReopenUndoesClose
<1>1. Inv => ReopenUndoesClose
  <2> SUFFICES ASSUME Inv, NEW i \in DOMAIN tabs, tabs[i].kind # "notebook", MaxClosedTabs > 0
               PROVE LET t == tabs[i]
                         stacks == pushClosedTabs(closedTabs, tabs, {t.id})
                         rest == Without(tabs, {t.id})
                     IN  Of(keepPinnedTabsFirst(
                                insertReopenedTab(rest, t.conn, Last(stacks[t.conn]), t.id),
                                t.conn), t.conn) = Of(tabs, t.conn)
    BY DEF ReopenUndoesClose
  <2>1. Tidy(tabs) /\ Apart(tabs) /\ tabs[i].conn \in Conns
    BY TabsApart, TabFields DEF Inv, Tidy
  <2>2. MaxClosedTabs \in Nat \ {0}
    BY TabsAssumption
  <2>3. closedTabs[tabs[i].conn] \in Seq(Entry(tabs[i].conn, TabIds))
    BY <2>1 DEF Inv, Held, StackOf
  <2> QED
    BY <2>1, <2>2, <2>3, ReopenUndoes
<1> QED
  BY <1>1, InvariantHolds, PTL

\* A pinned connection in the backend belongs to an open tab, or its release is on its way
\* (SessionsAreOwned).
THEOREM SessionsAreOwnedHolds == Spec => []SessionsAreOwned
<1>1. Inv => SessionsAreOwned
  BY DEF Inv
<1> QED
  BY <1>1, InvariantHolds, PTL

\* No handler and no load disturbs the list of more than one connection (OthersUntouched).
THEOREM OthersUntouchedHolds == Spec => OthersUntouched
<1>1. Inv /\ [Next]_vars =>
          [active' # None =>
              \E c \in Conns : \A d \in Conns \ {c} : IsPrefix(Of(tabs, d), Of(tabs', d))]_vars
  BY NextKeeps DEF Others
<1> QED
  BY <1>1, InvariantHolds, PTL DEF Spec, OthersUntouched
=============================================================================
