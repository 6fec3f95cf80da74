--------------------------- MODULE FactoryProofs ----------------------------
(***************************************************************************)
(* Theorems about GraphFactory, for every set of configurations, every     *)
(* number of libraries and every kind of port.  They hold of the behaviours *)
(* of GraphGui, where createGraph() is followed by the GUI.                *)
(***************************************************************************)
EXTENDS GraphGui, SequenceTheorems, FiniteSetTheorems, WellFoundedInduction, TLAPS

\* Induction over the natural numbers, for a set instead of a predicate.
LEMMA SetInduction ==
    ASSUME NEW G, 0 \in G, \A n \in Nat : n \in G => n + 1 \in G
    PROVE  \A n \in Nat : n \in G
<1> DEFINE Rest == Nat \ G
<1> SUFFICES ASSUME Rest # {} PROVE FALSE
  OBVIOUS
<1>1. Rest \subseteq Nat
  OBVIOUS
<1>2. PICK k \in Rest : \A m \in Rest : <<m, k>> \notin OpToRel(<, Nat)
  <2> HIDE DEF Rest
  <2> QED
    BY <1>1, NatLessThanWellFounded, WFMin
<1>3. k - 1 \in Nat /\ k - 1 < k
  OBVIOUS
<1>4. <<k - 1, k>> \in OpToRel(<, Nat)
  BY <1>3 DEF OpToRel
<1>5. k - 1 \notin Rest
  <2> HIDE DEF Rest
  <2> QED
    BY <1>2, <1>4
<1> QED
  BY <1>3, <1>5

-----------------------------------------------------------------------------
(***************************************************************************)
(* What is flattened: each item of the result has a place of its own in    *)
(* the sequence of sequences, and each of the places an item.              *)
(***************************************************************************)

Spots(ss, n) == UNION {{<<i, j>> : j \in DOMAIN ss[i]} : i \in 1..n}

Places1(g, s, ss, n) ==
    /\ g \in [1..Len(s) -> Spots(ss, n)]
    /\ \A k, l \in 1..Len(s) : g[k] = g[l] => k = l
    /\ \A p \in Spots(ss, n) : \E k \in 1..Len(s) : g[k] = p
    /\ \A k \in 1..Len(s) : s[k] = ss[g[k][1]][g[k][2]]

\* The recursive function that flattens is there.
LEMMA FlattenExists ==
    ASSUME NEW ss
    PROVE  \A n \in Nat : \E f : f = [i \in 1..n |-> IF i = 1 THEN ss[i] ELSE f[i-1] \o ss[i]]
<1> DEFINE G == {n \in Nat : \E f : f = [i \in 1..n |-> IF i = 1 THEN ss[i] ELSE f[i-1] \o ss[i]]}
<1>1. 0 \in G
  <2> DEFINE f == [i \in 1..0 |-> ss[i]]
  <2>1. f = [i \in 1..0 |-> IF i = 1 THEN ss[i] ELSE f[i-1] \o ss[i]]
    OBVIOUS
  <2> QED
    BY <2>1
<1>2. ASSUME NEW n \in Nat, n \in G PROVE n + 1 \in G
  <2>1. PICK h : h = [i \in 1..n |-> IF i = 1 THEN ss[i] ELSE h[i-1] \o ss[i]]
    BY <1>2
  <2> DEFINE f == [i \in 1..(n+1) |-> IF i = 1 THEN ss[i] ELSE IF i = n + 1 THEN h[n] \o ss[i] ELSE h[i]]
  <2>2. ASSUME NEW i \in 1..(n+1) PROVE f[i] = IF i = 1 THEN ss[i] ELSE f[i-1] \o ss[i]
    <3>1. CASE i = 1
      BY <3>1
    <3>2. CASE i # 1 /\ i = n + 1
      <4>1. n \in 1..n /\ n # n + 1 /\ n \in 1..(n + 1) /\ i - 1 = n
        BY <3>2
      <4>2. f[i] = h[n] \o ss[i]
        BY <3>2
      <4>3. f[n] = h[n]
        <5>1. n = 1 => h[n] = ss[n]
          BY <2>1, <4>1
        <5> QED
          BY <4>1, <5>1
      <4> HIDE DEF f
      <4> QED
        BY <3>2, <4>1, <4>2, <4>3
    <3>3. CASE i # 1 /\ i # n + 1
      <4>1. i \in 1..n /\ i - 1 \in 1..n /\ f[i] = h[i]
        BY <3>3
      <4>2. h[i] = h[i-1] \o ss[i]
        BY <2>1, <3>3, <4>1
      <4>3. f[i-1] = h[i-1]
        <5>1. i - 1 = 1 => h[i-1] = ss[i-1]
          BY <2>1, <4>1
        <5> QED
          BY <3>3, <4>1, <5>1
      <4> QED
        BY <3>3, <4>1, <4>2, <4>3
    <3> QED
      BY <3>1, <3>2, <3>3
  <2>3. f = [i \in 1..(n+1) |-> IF i = 1 THEN ss[i] ELSE f[i-1] \o ss[i]]
    <3>1. f = [i \in 1..(n+1) |-> f[i]]
      OBVIOUS
    <3> HIDE DEF f
    <3> QED
      BY <2>2, <3>1
  <2>4. \E e : e = [i \in 1..(n+1) |-> IF i = 1 THEN ss[i] ELSE e[i-1] \o ss[i]]
    <3> HIDE DEF f
    <3> QED
      BY <2>3
  <2>5. n + 1 \in Nat
    OBVIOUS
  <2> QED
    BY <2>4, <2>5, Zenon
<1> HIDE DEF G
<1>3. \A n \in Nat : n \in G
  BY <1>1, <1>2, SetInduction
<1> QED
  BY <1>3 DEF G

\* One more sequence is appended.
LEMMA PlacesAppend ==
    ASSUME NEW S, NEW ss, NEW n \in Nat, NEW t \in Seq(S), ss[n + 1] \in Seq(S),
           NEW g, Places1(g, t, ss, n)
    PROVE  \E h : Places1(h, t \o ss[n + 1], ss, n + 1)
<1> DEFINE u == ss[n + 1]
           s == t \o u
           h == [k \in 1..Len(s) |-> IF k <= Len(t) THEN g[k] ELSE <<n + 1, k - Len(t)>>]
<1>1. /\ Len(t) \in Nat /\ Len(u) \in Nat /\ Len(s) = Len(t) + Len(u)
      /\ \A k \in 1..(Len(t) + Len(u)) : s[k] = IF k <= Len(t) THEN t[k] ELSE u[k - Len(t)]
      /\ DOMAIN u = 1..Len(u)
  <2>1. u \in Seq(S)
    OBVIOUS
  <2> HIDE DEF u
  <2> QED
    BY <2>1, ConcatProperties, LenProperties
<1>2. /\ g \in [1..Len(t) -> Spots(ss, n)]
      /\ \A k, l \in 1..Len(t) : g[k] = g[l] => k = l
      /\ \A p \in Spots(ss, n) : \E k \in 1..Len(t) : g[k] = p
      /\ \A k \in 1..Len(t) : t[k] = ss[g[k][1]][g[k][2]]
  BY DEF Places1
<1>3. \A p : p \in Spots(ss, n + 1) <=> p \in Spots(ss, n) \/ \E j \in 1..Len(u) : p = <<n + 1, j>>
  <2>1. \A i : i \in 1..(n + 1) <=> i \in 1..n \/ i = n + 1
    OBVIOUS
  <2> QED
    BY <1>1, <2>1 DEF Spots
<1>4. \A p \in Spots(ss, n) : p[1] # n + 1
  <2>1. \A i \in 1..n : i # n + 1
    OBVIOUS
  <2> QED
    BY <2>1 DEF Spots
<1>5. ASSUME NEW k \in 1..Len(s)
      PROVE  /\ k <= Len(t) => k \in 1..Len(t) /\ h[k] = g[k] /\ g[k] \in Spots(ss, n) /\ s[k] = t[k]
             /\ ~(k <= Len(t)) => /\ k - Len(t) \in 1..Len(u)
                                  /\ h[k] = <<n + 1, k - Len(t)>> /\ s[k] = u[k - Len(t)]
  <2>1. k <= Len(t) => k \in 1..Len(t)
    BY <1>1
  <2>2. ~(k <= Len(t)) => k - Len(t) \in 1..Len(u)
    BY <1>1
  <2> HIDE DEF s, u
  <2> QED
    BY <1>1, <1>2, <2>1, <2>2
<1>6. h \in [1..Len(s) -> Spots(ss, n + 1)]
  <2>1. \A k \in 1..Len(s) : h[k] \in Spots(ss, n + 1)
    <3> HIDE DEF h, s, u
    <3> QED
      BY <1>3, <1>5
  <2> HIDE DEF s, u
  <2> QED
    BY <2>1
<1>7. \A k, l \in 1..Len(s) : h[k] = h[l] => k = l
  <2> HIDE DEF h, s, u
  <2> QED
    BY <1>1, <1>2, <1>4, <1>5
<1>8. ASSUME NEW p \in Spots(ss, n + 1) PROVE \E k \in 1..Len(s) : h[k] = p
  <2>1. CASE p \in Spots(ss, n)
    <3>1. PICK k \in 1..Len(t) : g[k] = p
      BY <1>2, <2>1
    <3>2. k \in 1..Len(s) /\ k <= Len(t)
      BY <1>1
    <3> HIDE DEF h, s, u
    <3> QED
      BY <1>5, <3>1, <3>2
  <2>2. CASE \E j \in 1..Len(u) : p = <<n + 1, j>>
    <3>1. PICK j \in 1..Len(u) : p = <<n + 1, j>>
      BY <2>2
    <3>2. Len(t) + j \in 1..Len(s) /\ ~(Len(t) + j <= Len(t)) /\ (Len(t) + j) - Len(t) = j
      BY <1>1
    <3> HIDE DEF h, s, u
    <3> QED
      BY <1>5, <3>1, <3>2
  <2> HIDE DEF h, s, u
  <2> QED
    BY <1>3, <2>1, <2>2
<1>9. ASSUME NEW k \in 1..Len(s) PROVE s[k] = ss[h[k][1]][h[k][2]]
  <2>1. CASE k <= Len(t)
    <3> HIDE DEF h, s, u
    <3> QED
      BY <1>2, <1>5, <2>1
  <2>2. CASE ~(k <= Len(t))
    <3>1. h[k][1] = n + 1 /\ h[k][2] = k - Len(t) /\ s[k] = u[k - Len(t)]
      <4> HIDE DEF h, s, u
      <4> QED
        BY <1>5, <2>2
    <3> HIDE DEF h, s
    <3> QED
      BY <3>1
  <2> QED
    BY <2>1, <2>2
<1> HIDE DEF h
<1>10. Places1(h, s, ss, n + 1)
  <2> HIDE DEF s
  <2> QED
    BY <1>6, <1>7, <1>8, <1>9 DEF Places1
<1> QED
  BY <1>10

\* FlattenSeq() gives each place of each sequence one item, and no other.
LEMMA FlattenPlaces ==
    ASSUME NEW S, NEW ss \in Seq(Seq(S))
    PROVE  /\ FlattenSeq(ss) \in Seq(S)
           /\ \E g : Places1(g, FlattenSeq(ss), ss, Len(ss))
<1> DEFINE N == Len(ss)
<1>1. N \in Nat /\ \A i \in 1..N : ss[i] \in Seq(S)
  OBVIOUS
<1>2. CASE N = 0
  <2>1. FlattenSeq(ss) = ss /\ ss = <<>>
    BY <1>2 DEF FlattenSeq
  <2>2. <<>> \in Seq(S) /\ Len(<<>>) = 0
    OBVIOUS
  <2>3. \A p : p \notin Spots(ss, 0)
    BY DEF Spots
  <2>4. Places1([k \in 1..0 |-> 0], <<>>, ss, 0)
    BY <2>2, <2>3 DEF Places1
  <2> QED
    BY <1>2, <2>1, <2>2, <2>4
<1>3. CASE N # 0
  <2> DEFINE F(f) == f = [i \in 1..N |-> IF i = 1 THEN ss[i] ELSE f[i-1] \o ss[i]]
  <2>1. \E f : F(f)
    BY <1>1, FlattenExists
  <2> DEFINE f == CHOOSE e : F(e)
  <2>2. F(f)
    BY <2>1
  <2>3. FlattenSeq(ss) = f[N]
    BY <1>3 DEF FlattenSeq
  <2> HIDE DEF f
  <2>4. \A i \in 1..N : f[i] = IF i = 1 THEN ss[i] ELSE f[i-1] \o ss[i]
    BY <2>2
  <2> DEFINE G == {n \in Nat : n + 1 \in 1..N => f[n + 1] \in Seq(S) /\ \E g : Places1(g, f[n + 1], ss, n + 1)}
  <2>5. 0 \in G
    <3>1. 0 + 1 = 1 /\ 0 \in Nat /\ 1 \in 1..N
      BY <1>1, <1>3
    <3>2. f[1] = ss[1] /\ ss[1] \in Seq(S)
      BY <1>1, <2>4, <3>1
    <3>3. \A p : p \notin Spots(ss, 0)
      BY DEF Spots
    <3>4. Places1([k \in 1..0 |-> 0], <<>>, ss, 0)
      BY <3>3 DEF Places1
    <3>5. \E g : Places1(g, <<>> \o ss[0 + 1], ss, 0 + 1)
      <4>1. ss[0 + 1] \in Seq(S) /\ <<>> \in Seq(S)
        BY <3>1, <3>2
      <4> QED
        BY <3>1, <3>4, <4>1, PlacesAppend
    <3>6. <<>> \o ss[1] = ss[1]
      BY <3>2
    <3> QED
      BY <3>1, <3>2, <3>5, <3>6
  <2>6. ASSUME NEW n \in Nat, n \in G PROVE n + 1 \in G
    <3> SUFFICES ASSUME (n + 1) + 1 \in 1..N
                 PROVE  f[(n + 1) + 1] \in Seq(S) /\ \E g : Places1(g, f[(n + 1) + 1], ss, (n + 1) + 1)
      OBVIOUS
    <3>1. n + 1 \in 1..N /\ n + 1 \in Nat /\ ((n + 1) + 1) - 1 = n + 1 /\ (n + 1) + 1 # 1
      BY <1>1
    <3>2. f[n + 1] \in Seq(S) /\ \E g : Places1(g, f[n + 1], ss, n + 1)
      BY <2>6, <3>1
    <3>3. f[(n + 1) + 1] = f[n + 1] \o ss[(n + 1) + 1] /\ ss[(n + 1) + 1] \in Seq(S)
      BY <1>1, <2>4, <3>1
    <3>4. PICK g : Places1(g, f[n + 1], ss, n + 1)
      BY <3>2
    <3>5. \E h : Places1(h, f[n + 1] \o ss[(n + 1) + 1], ss, (n + 1) + 1)
      BY <3>1, <3>2, <3>3, <3>4, PlacesAppend
    <3>6. f[n + 1] \o ss[(n + 1) + 1] \in Seq(S)
      BY <3>2, <3>3
    <3> QED
      BY <3>3, <3>5, <3>6
  <2> HIDE DEF G
  <2>7. \A n \in Nat : n \in G
    BY <2>5, <2>6, SetInduction
  <2>8. N - 1 \in G /\ N - 1 \in Nat /\ (N - 1) + 1 = N /\ N \in 1..N
    BY <1>1, <1>3, <2>7
  <2>9. f[N] \in Seq(S) /\ \E g : Places1(g, f[N], ss, N)
    BY <2>8 DEF G
  <2> QED
    BY <2>3, <2>9
<1> QED
  BY <1>2, <1>3

\* The items of the result are those of the sequences.
LEMMA FlattenRange ==
    ASSUME NEW S, NEW s \in Seq(S), NEW ss, NEW n, NEW g, Places1(g, s, ss, n)
    PROVE  \A x : x \in Range(s) <=> \E i \in 1..n : x \in Range(ss[i])
<1>2. DOMAIN s = 1..Len(s)
  BY LenProperties
<1>3. ASSUME NEW x \in Range(s) PROVE \E i \in 1..n : x \in Range(ss[i])
  <2>1. PICK k \in 1..Len(s) : x = s[k]
    BY <1>2 DEF Range
  <2>2. g[k] \in Spots(ss, n) /\ s[k] = ss[g[k][1]][g[k][2]]
    BY DEF Places1
  <2>3. PICK i \in 1..n : \E j \in DOMAIN ss[i] : g[k] = <<i, j>>
    BY <2>2 DEF Spots
  <2>4. PICK j \in DOMAIN ss[i] : g[k] = <<i, j>>
    BY <2>3
  <2>5. x = ss[i][j]
    BY <2>1, <2>2, <2>4
  <2> QED
    BY <2>5 DEF Range
<1>4. ASSUME NEW i \in 1..n, NEW x \in Range(ss[i]) PROVE x \in Range(s)
  <2>1. PICK j \in DOMAIN ss[i] : x = ss[i][j]
    BY DEF Range
  <2>2. <<i, j>> \in Spots(ss, n)
    BY DEF Spots
  <2>3. PICK k \in 1..Len(s) : g[k] = <<i, j>>
    BY <2>2 DEF Places1
  <2>4. s[k] = x
    BY <2>1, <2>3 DEF Places1
  <2> QED
    BY <1>2, <2>4 DEF Range
<1> QED
  BY <1>3, <1>4

-----------------------------------------------------------------------------
(***************************************************************************)
(* The factories: of each type the factory of the first library.           *)
(***************************************************************************)

\* The recursive function that merges them is there.
LEMMA FactoriesExist ==
    \A n \in Nat : \E f : f = [i \in 0..n |-> IF i = 0 THEN Nothing ELSE Plus(f[i - 1], FactoryMaps[i])]
<1> DEFINE G == {n \in Nat : \E f : f = [i \in 0..n |-> IF i = 0 THEN Nothing ELSE Plus(f[i - 1], FactoryMaps[i])]}
<1>1. 0 \in G
  <2> DEFINE f == [i \in 0..0 |-> Nothing]
  <2>1. f = [i \in 0..0 |-> IF i = 0 THEN Nothing ELSE Plus(f[i - 1], FactoryMaps[i])]
    OBVIOUS
  <2>2. 0 \in Nat /\ \E e : e = [i \in 0..0 |-> IF i = 0 THEN Nothing ELSE Plus(e[i - 1], FactoryMaps[i])]
    BY <2>1
  <2> QED
    BY <2>2, Zenon
<1>2. ASSUME NEW n \in Nat, n \in G PROVE n + 1 \in G
  <2>1. PICK h : h = [i \in 0..n |-> IF i = 0 THEN Nothing ELSE Plus(h[i - 1], FactoryMaps[i])]
    BY <1>2
  <2> DEFINE f == [i \in 0..(n + 1) |-> IF i = n + 1 THEN Plus(h[n], FactoryMaps[n + 1]) ELSE h[i]]
  <2>2. \A i \in 0..n : h[i] = IF i = 0 THEN Nothing ELSE Plus(h[i - 1], FactoryMaps[i])
    BY <2>1
  <2>3. f[n + 1] = Plus(h[n], FactoryMaps[n + 1]) /\ \A i \in 0..n : f[i] = h[i]
    OBVIOUS
  <2>4. f = [i \in 0..(n + 1) |-> f[i]]
    OBVIOUS
  <2> HIDE DEF f
  <2>5. ASSUME NEW i \in 0..(n + 1) PROVE f[i] = IF i = 0 THEN Nothing ELSE Plus(f[i - 1], FactoryMaps[i])
    <3>1. CASE i = n + 1
      BY <2>3, <3>1
    <3>2. CASE i = 0
      BY <2>2, <2>3, <3>2
    <3>3. CASE i \in 1..n
      <4>1. i \in 0..n /\ i - 1 \in 0..n /\ i # 0
        BY <3>3
      <4> QED
        BY <2>2, <2>3, <4>1
    <3> QED
      BY <3>1, <3>2, <3>3
  <2>6. \E e : e = [i \in 0..(n + 1) |-> IF i = 0 THEN Nothing ELSE Plus(e[i - 1], FactoryMaps[i])]
    BY <2>4, <2>5
  <2>7. n + 1 \in Nat
    OBVIOUS
  <2> QED
    BY <2>6, <2>7, Zenon
<1> HIDE DEF G
<1>3. \A n \in Nat : n \in G
  BY <1>1, <1>2, SetInduction
<1> QED
  BY <1>3 DEF G

First(i, type) ==
    /\ type \in DOMAIN FactoryMaps[i]
    /\ \A j \in 1..(i - 1) : type \notin DOMAIN FactoryMaps[j]

\* A type can be made if the first library that knows it makes it.
LEMMA FactoriesAreFirst ==
    \A type : Makes(type) <=> type \in DOMAIN Factories /\ Factories[type] = "makes"
<1> DEFINE N == Len(FactoryMaps)
<1>1. N \in Nat /\ DOMAIN FactoryMaps = 1..N
  BY FactoryMapsAssumption, LenProperties
<1> DEFINE F(f) == f = [n \in 0..N |-> IF n = 0 THEN Nothing ELSE Plus(f[n - 1], FactoryMaps[n])]
<1>2. \E f : F(f)
  BY <1>1, FactoriesExist
<1>3. F(FactoriesOf)
  BY <1>2 DEF FactoriesOf
<1>4. /\ FactoriesOf[0] = Nothing
      /\ \A n \in 1..N : FactoriesOf[n] = Plus(FactoriesOf[n - 1], FactoryMaps[n])
  <2>1. 0 \in 0..N /\ \A n \in 1..N : n \in 0..N /\ n # 0
    BY <1>1
  <2>2. \A n \in 0..N : FactoriesOf[n] = IF n = 0 THEN Nothing ELSE Plus(FactoriesOf[n - 1], FactoryMaps[n])
    BY <1>3
  <2> HIDE DEF N
  <2> QED
    BY <2>1, <2>2
<1> HIDE DEF N, F
<1> DEFINE Right(n, f) ==
        /\ \A type \in DOMAIN f : \E i \in 1..n : First(i, type) /\ f[type] = FactoryMaps[i][type]
        /\ \A i \in 1..n : DOMAIN FactoryMaps[i] \subseteq DOMAIN f
    G == {n \in Nat : n <= N => Right(n, FactoriesOf[n])}
<1>5. 0 \in G
  <2>1. DOMAIN Nothing = {}
    BY DEF Nothing
  <2> QED
    BY <1>4, <2>1
<1>6. ASSUME NEW n \in Nat, n \in G PROVE n + 1 \in G
  <2> SUFFICES ASSUME n + 1 <= N PROVE Right(n + 1, FactoriesOf[n + 1])
    OBVIOUS
  <2> DEFINE f == FactoriesOf[n]
             g == FactoryMaps[n + 1]
             h == FactoriesOf[n + 1]
  <2>1. Right(n, f) /\ (n + 1) - 1 = n /\ \A i : i \in 1..(n + 1) <=> i \in 1..n \/ i = n + 1
    BY <1>1, <1>6
  <2>2. h = Plus(f, g)
    <3>1. n + 1 \in 1..N
      BY <1>1
    <3> QED
      BY <1>4, <2>1, <3>1
  <2>3. DOMAIN h = DOMAIN f \cup DOMAIN g
        /\ \A t \in DOMAIN h : h[t] = IF t \in DOMAIN f THEN f[t] ELSE g[t]
    BY <2>2 DEF Plus
  <2> HIDE DEF f, h
  <2>4. ASSUME NEW type \in DOMAIN h
        PROVE  \E i \in 1..(n + 1) : First(i, type) /\ h[type] = FactoryMaps[i][type]
    <3>1. CASE type \in DOMAIN f
      BY <2>1, <2>3, <3>1
    <3>2. CASE type \notin DOMAIN f
      <4>1. \A i \in 1..n : type \notin DOMAIN FactoryMaps[i]
        BY <2>1, <3>2
      <4>2. First(n + 1, type)
        BY <2>1, <2>3, <3>2, <4>1 DEF First
      <4> QED
        BY <2>1, <2>3, <3>2, <4>2
    <3> QED
      BY <3>1, <3>2
  <2>5. \A i \in 1..(n + 1) : DOMAIN FactoryMaps[i] \subseteq DOMAIN h
    BY <2>1, <2>3
  <2> QED
    BY <2>4, <2>5 DEF h
<1> HIDE DEF G
<1>7. \A n \in Nat : n \in G
  BY <1>5, <1>6, SetInduction
<1>8. Right(N, Factories)
  BY <1>1, <1>7 DEF G, Factories, N
<1>9. ASSUME NEW type, type \in DOMAIN Factories, Factories[type] = "makes" PROVE Makes(type)
  BY <1>1, <1>8, <1>9 DEF Makes, First
<1>10. ASSUME NEW type, Makes(type) PROVE type \in DOMAIN Factories /\ Factories[type] = "makes"
  <2>1. PICK i \in 1..N : First(i, type) /\ FactoryMaps[i][type] = "makes"
    BY <1>1, <1>10 DEF Makes, First
  <2>2. PICK k \in 1..N : First(k, type) /\ Factories[type] = FactoryMaps[k][type]
    BY <1>8, <2>1 DEF First
  <2>3. i = k
    <3>1. i \in Nat /\ k \in Nat /\ (i < k => i \in 1..(k - 1)) /\ (k < i => k \in 1..(i - 1))
      BY <1>1
    <3>2. ~(i < k) /\ ~(k < i)
      BY <2>1, <2>2, <3>1 DEF First
    <3> QED
      BY <3>1, <3>2
  <2> QED
    BY <1>8, <2>1, <2>2, <2>3 DEF First
<1> QED
  BY <1>9, <1>10

-----------------------------------------------------------------------------
(***************************************************************************)
(* What YamlConfig makes of the files.                                     *)
(***************************************************************************)

LEMMA FilesTyped ==
    ASSUME NEW fs \in Files
    PROVE  /\ Len(fs) \in Nat \ {0} /\ DOMAIN fs = 1..Len(fs)
           /\ \A i \in 1..Len(fs) : /\ fs[i].proxels \in Seq(Entry)
                                    /\ fs[i].hasConnections \in BOOLEAN
                                    /\ fs[i].connections \in Seq(PortSpec \X PortSpec)
<1>1. fs \in Seq(File) /\ fs # <<>>
  BY FilesAssumption
<1>2. Len(fs) \in Nat \ {0} /\ DOMAIN fs = 1..Len(fs)
  <2> DEFINE S == File
  <2> HIDE DEF S
  <2>1. fs \in Seq(S)
    BY <1>1 DEF S
  <2> QED
    BY <1>1, <2>1, EmptySeq, LenProperties
<1>3. \A i \in 1..Len(fs) : fs[i] \in File
  <2> DEFINE S == File
  <2> HIDE DEF S
  <2>1. fs \in Seq(S)
    BY <1>1 DEF S
  <2> QED
    BY <2>1, ElementOfSeq DEF S
<1>4. \A f \in File : /\ f.proxels \in Seq(Entry)
                      /\ f.hasConnections \in BOOLEAN
                      /\ f.connections \in Seq(PortSpec \X PortSpec)
  <2> DEFINE E == Seq(Entry)
             C == Seq(PortSpec \X PortSpec)
  <2> HIDE DEF E, C
  <2>1. File = [proxels : E, hasConnections : BOOLEAN, connections : C]
    BY DEF File, E, C
  <2>2. \A f \in File : f.proxels \in E /\ f.hasConnections \in BOOLEAN /\ f.connections \in C
    BY <2>1
  <2> QED
    BY <2>2 DEF E, C
<1> QED
  BY <1>2, <1>3, <1>4

\* The entries of all files, each at its place.
LEMMA EntriesPlaces ==
    ASSUME NEW fs \in Files
    PROVE  /\ Entries(fs) \in Seq(Entry)
           /\ \E g : Places1(g, Entries(fs), [i \in DOMAIN fs |-> fs[i].proxels], Len(fs))
<1> DEFINE ss == [i \in DOMAIN fs |-> fs[i].proxels]
           n == Len(fs)
           S == Entry
<1>1. n \in Nat /\ DOMAIN fs = 1..n /\ \A i \in 1..n : fs[i].proxels \in Seq(S)
  BY FilesTyped
<1> HIDE DEF n, S
<1>2. ss \in Seq(Seq(S)) /\ Len(ss) = n
  BY <1>1
<1> HIDE DEF ss
<1>3. FlattenSeq(ss) \in Seq(S) /\ \E g : Places1(g, FlattenSeq(ss), ss, Len(ss))
  BY <1>2, FlattenPlaces
<1>4. Entries(fs) = FlattenSeq(ss)
  BY DEF Entries, ss
<1> QED
  BY <1>2, <1>3, <1>4 DEF S, ss, n

\* The connections of all files.
LEMMA AllConnectionsTyped ==
    ASSUME NEW fs \in Files
    PROVE  /\ AllConnections(fs) \in Seq(PortSpec \X PortSpec)
           /\ Range(AllConnections(fs)) = UNION {Range(fs[i].connections) : i \in DOMAIN fs}
<1> DEFINE ss == [i \in DOMAIN fs |-> fs[i].connections]
           n == Len(fs)
           S == PortSpec \X PortSpec
<1>1. n \in Nat /\ DOMAIN fs = 1..n /\ \A i \in 1..n : fs[i].connections \in Seq(S)
  BY FilesTyped
<1> HIDE DEF n, S
<1>2. ss \in Seq(Seq(S)) /\ Len(ss) = n /\ \A i \in 1..n : ss[i] = fs[i].connections
  BY <1>1
<1> HIDE DEF ss
<1> DEFINE s == FlattenSeq(ss)
<1>3. s \in Seq(S) /\ \E g : Places1(g, s, ss, n)
  BY <1>2, FlattenPlaces
<1>4. AllConnections(fs) = s
  BY DEF AllConnections, ss
<1> HIDE DEF s
<1>5. PICK g : Places1(g, s, ss, n)
  BY <1>3
<1>6. \A x : x \in Range(s) <=> \E i \in 1..n : x \in Range(ss[i])
  BY <1>3, <1>5, FlattenRange
<1>7. Range(s) = UNION {Range(fs[i].connections) : i \in 1..n}
  BY <1>2, <1>6
<1> QED
  BY <1>1, <1>3, <1>4, <1>7 DEF S

\* A function on 1..n is a sequence.
LEMMA ListIsSeq ==
    ASSUME NEW n \in Nat, NEW f, f = [i \in 1..n |-> f[i]]
    PROVE  f \in Seq(Range(f)) /\ Len(f) = n /\ DOMAIN f = 1..n
<1>1. DOMAIN f = 1..n
  OBVIOUS
<1>2. \A i \in 1..n : f[i] \in Range(f)
  BY <1>1 DEF Range
<1> DEFINE S == Range(f)
<1> HIDE DEF S
<1>3. f \in [1..n -> S]
  BY <1>2 DEF S
<1>4. f \in Seq(S) /\ Len(f) = n
  BY <1>3
<1> QED
  BY <1>1, <1>4 DEF S

\* An entry stands for its replicas, or for nothing if it is not enabled.
LEMMA ConfigsOfEntry ==
    ASSUME NEW e \in Entry
    PROVE  /\ ConfigsOf(e) \in Seq(Range(ConfigsOf(e)))
           /\ DOMAIN ConfigsOf(e) = IF e.enable THEN Copies(e) ELSE {}
           /\ \A n \in DOMAIN ConfigsOf(e) :
                ConfigsOf(e)[n].id = Called(e, n) /\ ConfigsOf(e)[n].type = e.type
<1>1. e.replicate \in Nat /\ e.enable \in BOOLEAN
  BY DEF Entry
<1>2. CASE ~e.enable
  <2>1. ConfigsOf(e) = <<>>
    BY <1>2 DEF ConfigsOf
  <2>2. ConfigsOf(e) = [i \in 1..0 |-> ConfigsOf(e)[i]]
    BY <2>1
  <2>3. ConfigsOf(e) \in Seq(Range(ConfigsOf(e))) /\ DOMAIN ConfigsOf(e) = 1..0
    BY <2>2, ListIsSeq
  <2> QED
    BY <1>2, <2>3
<1>3. CASE e.enable /\ e.replicate > 1
  <2>1. ConfigsOf(e) = [i \in 1..e.replicate |-> ProxelConfig(ReplicaId(e.name, i - 1), e)]
    BY <1>3 DEF ConfigsOf, ReplicatedConfigs
  <2>2. ConfigsOf(e) = [i \in 1..e.replicate |-> ConfigsOf(e)[i]]
    BY <2>1
  <2>3. ConfigsOf(e) \in Seq(Range(ConfigsOf(e))) /\ DOMAIN ConfigsOf(e) = 1..e.replicate
    BY <1>1, <2>2, ListIsSeq
  <2>4. \A n \in 1..e.replicate : ConfigsOf(e)[n] = ProxelConfig(Called(e, n), e)
    BY <1>3, <2>1 DEF Called
  <2>5. \A n \in 1..e.replicate : ConfigsOf(e)[n].id = Called(e, n) /\ ConfigsOf(e)[n].type = e.type
    <3>1. \A id : ProxelConfig(id, e).id = id /\ ProxelConfig(id, e).type = e.type
      BY DEF ProxelConfig
    <3> QED
      BY <2>4, <3>1
  <2>6. Copies(e) = 1..e.replicate
    BY <1>3 DEF Copies
  <2> QED
    BY <1>3, <2>3, <2>5, <2>6
<1>4. CASE e.enable /\ ~(e.replicate > 1)
  <2>1. ConfigsOf(e) = <<ProxelConfig(e.name, e)>>
    BY <1>4 DEF ConfigsOf
  <2>2. ConfigsOf(e) = [i \in 1..1 |-> ConfigsOf(e)[i]] /\ 1..1 = {1}
    BY <2>1
  <2>3. ConfigsOf(e) \in Seq(Range(ConfigsOf(e))) /\ DOMAIN ConfigsOf(e) = 1..1
    BY <2>2, ListIsSeq
  <2>4. ConfigsOf(e)[1] = ProxelConfig(Called(e, 1), e)
    BY <1>4, <2>1 DEF Called
  <2> QED
    BY <1>4, <2>2, <2>3, <2>4 DEF Copies, ProxelConfig
<1> QED
  BY <1>1, <1>2, <1>3, <1>4

\* The proxels to make: one for each place of each entry's list.
LEMMA ConfigsPlaces ==
    ASSUME NEW fs \in Files
    PROVE  /\ ProxelConfigs(fs) \in Seq(Range(ProxelConfigs(fs)))
           /\ \E g : Places1(g, ProxelConfigs(fs),
                             [k \in DOMAIN Entries(fs) |-> ConfigsOf(Entries(fs)[k])], Len(Entries(fs)))
<1> DEFINE es == Entries(fs)
           ss == [k \in DOMAIN es |-> ConfigsOf(es[k])]
           n == Len(es)
           S == UNION {Range(ConfigsOf(es[k])) : k \in DOMAIN es}
           s == ProxelConfigs(fs)
<1>1. n \in Nat /\ DOMAIN es = 1..n /\ \A k \in 1..n : es[k] \in Entry
  <2> DEFINE E == Entry
  <2>1. es \in Seq(E)
    BY EntriesPlaces
  <2> HIDE DEF es, E
  <2>2. Len(es) \in Nat /\ DOMAIN es = 1..Len(es) /\ \A k \in 1..Len(es) : es[k] \in E
    BY <2>1, LenProperties, ElementOfSeq
  <2> QED
    BY <2>2 DEF E
<1>2. s = FlattenSeq(ss)
  BY DEF ProxelConfigs
<1> HIDE DEF es, n, s
<1>3. \A k \in 1..n : ConfigsOf(es[k]) \in Seq(S)
  <2> SUFFICES ASSUME NEW k \in 1..n PROVE ConfigsOf(es[k]) \in Seq(S)
    OBVIOUS
  <2> DEFINE c == ConfigsOf(es[k])
  <2>1. c \in Seq(Range(c))
    BY <1>1, ConfigsOfEntry
  <2>2. Range(c) \subseteq S
    BY <1>1
  <2> HIDE DEF S, c
  <2>3. c \in Seq(S)
    BY <2>1, <2>2, SeqMonotonic
  <2> QED
    BY <2>3 DEF c
<1> HIDE DEF S
<1>4. ss \in Seq(Seq(S)) /\ Len(ss) = n
  BY <1>1, <1>3
<1> HIDE DEF ss
<1>5. s \in Seq(S) /\ \E g : Places1(g, s, ss, n)
  BY <1>2, <1>4, FlattenPlaces
<1>6. s \in Seq(Range(s))
  BY <1>5, SeqOfRange
<1> QED
  BY <1>5, <1>6 DEF s, es, ss, n

LEMMA MinOfNats ==
    ASSUME NEW S \in SUBSET Nat, S # {}
    PROVE  Min(S) \in S
<1>1. PICK u \in S : \A v \in S : <<v, u>> \notin OpToRel(<, Nat)
  BY NatLessThanWellFounded, WFMin
<1>2. \A v \in S : u <= v
  <2> SUFFICES ASSUME NEW v \in S, ~(u <= v) PROVE FALSE
    OBVIOUS
  <2>1. <<v, u>> \in OpToRel(<, Nat)
    BY DEF OpToRel
  <2> QED
    BY <1>1, <2>1
<1>3. \E x \in S : \A y \in S : x =< y
  BY <1>2
<1> QED
  BY <1>3 DEF Min

\* A name is replicated as an entry of the name says.
LEMMA ReplicasOfName ==
    ASSUME NEW fs \in Files, NEW name
    PROVE  /\ Replicas(fs, name) \in Nat \ {0}
           /\ Replicas(fs, name) > 1 =>
                \E e \in Range(Entries(fs)) : e.name = name /\ e.replicate = Replicas(fs, name)
           /\ \A e \in Range(Entries(fs)) : e.name = name /\ e.replicate > 1 => Replicas(fs, name) > 1
<1> DEFINE es == Entries(fs)
           at == {i \in DOMAIN es : es[i].name = name /\ es[i].replicate > 1}
<1>1. DOMAIN es \subseteq Nat /\ \A k \in DOMAIN es : es[k].replicate \in Nat
  <2> DEFINE E == Entry
  <2>1. es \in Seq(E)
    BY EntriesPlaces
  <2> HIDE DEF es, E
  <2>2. DOMAIN es = 1..Len(es) /\ \A k \in 1..Len(es) : es[k] \in E
    BY <2>1, LenProperties, ElementOfSeq
  <2> QED
    BY <2>2 DEF E, Entry
<1>2. Replicas(fs, name) = IF at = {} THEN 1 ELSE es[Min(at)].replicate
  BY DEF Replicas
<1>3. at # {} => Min(at) \in at
  <2>1. at \in SUBSET Nat
    BY <1>1
  <2> HIDE DEF at
  <2> QED
    BY <2>1, MinOfNats
<1> HIDE DEF es
<1>4. at # {} <=> \E e \in Range(es) : e.name = name /\ e.replicate > 1
  BY DEF Range
<1>5. CASE at = {}
  <2>1. Replicas(fs, name) = 1
    BY <1>2, <1>5
  <2> HIDE DEF at
  <2> QED
    BY <1>4, <1>5, <2>1 DEF es
<1>6. CASE at # {}
  <2>1. Min(at) \in DOMAIN es /\ es[Min(at)].name = name /\ es[Min(at)].replicate > 1
    BY <1>3, <1>6
  <2>2. Replicas(fs, name) = es[Min(at)].replicate
    BY <1>2, <1>6
  <2> HIDE DEF at
  <2>3. es[Min(at)] \in Range(es)
    BY <2>1 DEF Range
  <2> QED
    BY <1>1, <2>1, <2>2, <2>3 DEF es
<1> QED
  BY <1>5, <1>6

\* One side of a connection: a port of each replica, or each port of the one proxel.
LEMMA SideIs ==
    ASSUME NEW fs \in Files, NEW spec \in PortSpec
    PROVE  /\ Len(Side(fs, spec)) \in Nat \ {0}
           /\ Side(fs, spec) = [i \in 1..Len(Side(fs, spec)) |-> Side(fs, spec)[i]]
           /\ Replicas(fs, spec.name) > 1 =>
                /\ Len(Side(fs, spec)) = Replicas(fs, spec.name)
                /\ \A i \in 1..Replicas(fs, spec.name) :
                    Side(fs, spec)[i] = <<ReplicaId(spec.name, i - 1), spec.ports[1]>>
           /\ ~(Replicas(fs, spec.name) > 1) =>
                /\ Len(Side(fs, spec)) = Len(spec.ports)
                /\ \A i \in 1..Len(spec.ports) : Side(fs, spec)[i] = <<spec.name, spec.ports[i]>>
<1> DEFINE r == Replicas(fs, spec.name)
           s == Side(fs, spec)
           ports == spec.ports
<1>1. r \in Nat \ {0}
  BY ReplicasOfName
<1>2. Len(ports) \in Nat \ {0} /\ DOMAIN ports = 1..Len(ports)
  <2> DEFINE P == Seq(STRING) \ {<<>>}
  <2>1. ports \in P
    <3> HIDE DEF P
    <3>1. PortSpec = [name : STRING, ports : P]
      BY DEF PortSpec, P
    <3> QED
      BY <3>1
  <2> HIDE DEF ports
  <2>2. ports \in Seq(STRING) /\ ports # <<>>
    BY <2>1
  <2> QED
    BY <2>2, EmptySeq, LenProperties
<1>3. CASE r > 1
  <2>1. s = [i \in 1..r |-> <<ReplicaId(spec.name, i - 1), spec.ports[1]>>]
    BY <1>3 DEF Side, Expand
  <2>2. s = [i \in 1..r |-> s[i]]
    BY <2>1
  <2> HIDE DEF s, r
  <2>3. Len(s) = r
    BY <1>1, <2>2, ListIsSeq
  <2> QED
    BY <1>1, <1>3, <2>1, <2>2, <2>3 DEF s, r
<1>4. CASE ~(r > 1)
  <2>1. s = [i \in 1..Len(ports) |-> <<spec.name, spec.ports[i]>>]
    BY <1>2, <1>4 DEF Side, Expand
  <2>2. s = [i \in 1..Len(ports) |-> s[i]]
    BY <2>1
  <2> HIDE DEF s, r
  <2>3. Len(s) = Len(ports)
    <3> HIDE DEF ports
    <3> QED
      BY <1>2, <2>2, ListIsSeq
  <2> QED
    BY <1>2, <1>4, <2>1, <2>2, <2>3 DEF s, r
<1> QED
  BY <1>3, <1>4

At(list, size, i) == IF Len(list) = size THEN list[i] ELSE list[1]
SizeOf(l, r) == IF Len(l) > Len(r) THEN Len(l) ELSE Len(r)

\* Two sides in pairs, the shorter side stretched.
LEMMA PairsAre ==
    ASSUME NEW l, Len(l) \in Nat \ {0}, l = [i \in 1..Len(l) |-> l[i]],
           NEW r, Len(r) \in Nat \ {0}, r = [i \in 1..Len(r) |-> r[i]]
    PROVE  Pairs(l, r) = [i \in 1..SizeOf(l, r) |-> <<At(l, SizeOf(l, r), i), At(r, SizeOf(l, r), i)>>]
<1> DEFINE size == SizeOf(l, r)
<1>1. size \in Nat
  BY DEF SizeOf
<1>2. Pairs(l, r) = Zip(Stretch(l, size), Stretch(r, size))
  BY DEF Pairs, SizeOf
<1> HIDE DEF size
<1>3. ASSUME NEW list, list = [i \in 1..Len(list) |-> list[i]]
      PROVE  Len(Stretch(list, size)) = size /\ \A i \in 1..size : Stretch(list, size)[i] = At(list, size, i)
  <2>1. CASE Len(list) = size
    BY <2>1 DEF Stretch, At
  <2>2. CASE Len(list) # size
    <3> DEFINE t == Stretch(list, size)
    <3>1. t = [i \in 1..size |-> list[1]]
      BY <2>2 DEF Stretch
    <3>2. t = [i \in 1..size |-> t[i]]
      BY <3>1
    <3>3. Len(t) = size
      <4> HIDE DEF t
      <4> QED
        BY <1>1, <3>2, ListIsSeq
    <3> QED
      BY <2>2, <3>1, <3>3 DEF At
  <2> QED
    BY <2>1, <2>2
<1> DEFINE sl == Stretch(l, size)
           sr == Stretch(r, size)
<1>4. /\ Len(sl) = size /\ \A i \in 1..size : sl[i] = At(l, size, i)
      /\ Len(sr) = size /\ \A i \in 1..size : sr[i] = At(r, size, i)
  BY <1>3
<1> HIDE DEF sl, sr
<1>5. Zip(sl, sr) = [i \in 1..size |-> <<sl[i], sr[i]>>]
  BY <1>1, <1>4 DEF Zip
<1> QED
  BY <1>2, <1>4, <1>5 DEF sl, sr, size

\* What is to be connected: the pairs of the connections that are not left out.
LEMMA ConnectionsAre ==
    ASSUME NEW fs \in Files
    PROVE  /\ Connections(fs) \in Seq(Range(Connections(fs)))
           /\ \A x : x \in Range(Connections(fs)) <=>
                \E c \in Range(AllConnections(fs)) :
                    Enabled(fs, c) /\ x \in Range(Pairs(Side(fs, c[1]), Side(fs, c[2])))
<1> DEFINE cs == AllConnections(fs)
           ss == [k \in DOMAIN cs |-> SpecsOf(fs, cs[k])]
           n == Len(cs)
           S == UNION {Range(SpecsOf(fs, cs[k])) : k \in DOMAIN cs}
           s == Connections(fs)
<1>1. n \in Nat /\ DOMAIN cs = 1..n /\ \A k \in 1..n : cs[k] \in PortSpec \X PortSpec
  <2> DEFINE C == PortSpec \X PortSpec
  <2>1. cs \in Seq(C)
    BY AllConnectionsTyped
  <2> HIDE DEF cs, C
  <2>2. Len(cs) \in Nat /\ DOMAIN cs = 1..Len(cs) /\ \A k \in 1..Len(cs) : cs[k] \in C
    BY <2>1, LenProperties, ElementOfSeq
  <2> QED
    BY <2>2 DEF C
<1>2. s = FlattenSeq(ss)
  BY DEF Connections
<1> HIDE DEF cs, n, s
<1>3. ASSUME NEW c \in PortSpec \X PortSpec PROVE SpecsOf(fs, c) \in Seq(Range(SpecsOf(fs, c)))
  <2> DEFINE l == Side(fs, c[1])
             r == Side(fs, c[2])
  <2>1. CASE Enabled(fs, c)
    <3>1. SpecsOf(fs, c) = Pairs(l, r)
      BY <2>1 DEF SpecsOf
    <3>2. /\ Len(l) \in Nat \ {0} /\ l = [i \in 1..Len(l) |-> l[i]]
          /\ Len(r) \in Nat \ {0} /\ r = [i \in 1..Len(r) |-> r[i]]
      <4>1. c[1] \in PortSpec /\ c[2] \in PortSpec
        OBVIOUS
      <4> QED
        BY <4>1, SideIs
    <3> DEFINE p == Pairs(l, r)
               size == SizeOf(l, r)
    <3> HIDE DEF l, r
    <3>3. size \in Nat
      BY <3>2 DEF SizeOf
    <3>4. p = [i \in 1..size |-> p[i]]
      <4>1. p = [i \in 1..size |-> <<At(l, size, i), At(r, size, i)>>]
        BY <3>2, PairsAre
      <4> HIDE DEF p, size
      <4> QED
        BY <4>1
    <3> HIDE DEF p, size
    <3>5. p \in Seq(Range(p))
      BY <3>3, <3>4, ListIsSeq
    <3> QED
      BY <3>1, <3>5 DEF p
  <2>2. CASE ~Enabled(fs, c)
    <3>1. SpecsOf(fs, c) = <<>>
      BY <2>2 DEF SpecsOf
    <3> QED
      BY <3>1
  <2> QED
    BY <2>1, <2>2
<1>4. \A k \in 1..n : SpecsOf(fs, cs[k]) \in Seq(S)
  <2> SUFFICES ASSUME NEW k \in 1..n PROVE SpecsOf(fs, cs[k]) \in Seq(S)
    OBVIOUS
  <2> DEFINE c == SpecsOf(fs, cs[k])
  <2>1. c \in Seq(Range(c))
    BY <1>1, <1>3
  <2>2. Range(c) \subseteq S
    BY <1>1
  <2> HIDE DEF S, c
  <2>3. c \in Seq(S)
    BY <2>1, <2>2, SeqMonotonic
  <2> QED
    BY <2>3 DEF c
<1> HIDE DEF S
<1>5. ss \in Seq(Seq(S)) /\ Len(ss) = n /\ \A k \in 1..n : ss[k] = SpecsOf(fs, cs[k])
  BY <1>1, <1>4
<1> HIDE DEF ss
<1>6. s \in Seq(S) /\ \E g : Places1(g, s, ss, n)
  BY <1>2, <1>5, FlattenPlaces
<1>7. s \in Seq(Range(s))
  BY <1>6, SeqOfRange
<1>8. PICK g : Places1(g, s, ss, n)
  BY <1>6
<1>9. \A x : x \in Range(s) <=> \E k \in 1..n : x \in Range(ss[k])
  BY <1>6, <1>8, FlattenRange
<1>10. Range(<<>>) = {}
  BY DEF Range
<1>11. ASSUME NEW x
       PROVE  x \in Range(s) <=>
                \E c \in Range(cs) : Enabled(fs, c) /\ x \in Range(Pairs(Side(fs, c[1]), Side(fs, c[2])))
  <2>1. x \in Range(s) <=> \E k \in 1..n : x \in Range(SpecsOf(fs, cs[k]))
    BY <1>5, <1>9
  <2>2. \A k \in 1..n : x \in Range(SpecsOf(fs, cs[k])) <=>
            Enabled(fs, cs[k]) /\ x \in Range(Pairs(Side(fs, cs[k][1]), Side(fs, cs[k][2])))
    BY <1>10 DEF SpecsOf
  <2>3. \A c : c \in Range(cs) <=> \E k \in 1..n : c = cs[k]
    BY <1>1 DEF Range
  <2> QED
    BY <2>1, <2>2, <2>3
<1> QED
  BY <1>7, <1>11 DEF s, cs

-----------------------------------------------------------------------------
(***************************************************************************)
(* createGraph() step by step.                                             *)
(***************************************************************************)

\* At the beginning everything is left; at the end everything is done.
LEMMA AllIsLeft ==
    ASSUME NEW list, list \in Seq(Range(list))
    PROVE  /\ IsRest(list, list) /\ Done(list, list) = {}
           /\ Done(<<>>, list) = DOMAIN list
<1> DEFINE S == Range(list)
<1> HIDE DEF S
<1>1. list \in Seq(S)
  BY DEF S
<1>2. Len(list) \in Nat /\ DOMAIN list = 1..Len(list) /\ Len(<<>>) = 0
  BY <1>1, LenProperties, EmptySeq
<1> QED
  BY <1>1, <1>2 DEF IsRest, Done, S

\* One step takes one item from what is left to what is done.
LEMMA HeadIsDone ==
    ASSUME NEW list, list \in Seq(Range(list)), NEW rest, IsRest(rest, list), rest # <<>>
    PROVE  /\ IsRest(Tail(rest), list)
           /\ \E k \in DOMAIN list :
                /\ Head(rest) = list[k]
                /\ k \notin Done(rest, list)
                /\ Done(Tail(rest), list) = Done(rest, list) \cup {k}
           /\ Done(rest, list) \subseteq DOMAIN list
<1> DEFINE S == Range(list)
<1> HIDE DEF S
<1>1. list \in Seq(S) /\ rest \in Seq(S) /\ Len(rest) <= Len(list)
  BY DEF IsRest, S
<1>2. \A i \in DOMAIN rest : rest[i] = list[Len(list) - Len(rest) + i]
  BY DEF IsRest
<1>3. /\ Len(list) \in Nat /\ DOMAIN list = 1..Len(list)
      /\ Len(rest) \in Nat \ {0} /\ DOMAIN rest = 1..Len(rest)
  BY <1>1, LenProperties, EmptySeq
<1> DEFINE tail == Tail(rest)
<1>4. /\ tail \in Seq(S) /\ Len(tail) = Len(rest) - 1 /\ DOMAIN tail = 1..Len(tail)
      /\ \A i \in 1..Len(tail) : tail[i] = rest[i + 1]
      /\ Head(rest) = rest[1]
  <2>1. tail \in Seq(S) /\ Len(tail) = Len(rest) - 1 /\ \A i \in 1..Len(tail) : tail[i] = rest[i + 1]
    BY <1>1, HeadTailProperties
  <2>2. Head(rest) = rest[1]
    OBVIOUS
  <2> HIDE DEF tail
  <2> QED
    BY <2>1, <2>2, LenProperties
<1> HIDE DEF tail
<1>5. \A i \in DOMAIN tail : tail[i] = list[Len(list) - Len(tail) + i]
  <2> SUFFICES ASSUME NEW i \in 1..Len(tail) PROVE tail[i] = list[Len(list) - Len(tail) + i]
    BY <1>4
  <2>1. i + 1 \in DOMAIN rest /\ Len(list) - Len(rest) + (i + 1) = Len(list) - Len(tail) + i
    BY <1>3, <1>4
  <2>2. tail[i] = rest[i + 1]
    BY <1>4
  <2>3. rest[i + 1] = list[Len(list) - Len(rest) + (i + 1)]
    BY <1>2, <2>1
  <2> QED
    BY <2>1, <2>2, <2>3
<1>6. IsRest(tail, list)
  BY <1>1, <1>3, <1>4, <1>5 DEF IsRest, S
<1> DEFINE k == Len(list) - Len(rest) + 1
<1>7. k \in DOMAIN list /\ Head(rest) = list[k]
  BY <1>1, <1>2, <1>3, <1>4
<1>8. k \notin Done(rest, list) /\ Done(tail, list) = Done(rest, list) \cup {k} /\ Done(rest, list) \subseteq DOMAIN list
  <2>1. Done(rest, list) = 1..(k - 1) /\ Done(tail, list) = 1..k /\ k \in Nat \ {0} /\ k <= Len(list)
    <3>1. /\ Len(list) - Len(rest) = k - 1 /\ Len(list) - Len(tail) = k
          /\ k \in Nat \ {0} /\ k <= Len(list)
      <4>1. /\ Len(list) \in Nat /\ Len(rest) \in Nat /\ Len(rest) # 0
            /\ Len(rest) <= Len(list) /\ Len(tail) = Len(rest) - 1
        BY <1>1, <1>3, <1>4
      <4> QED
        BY <4>1
    <3> HIDE DEF k
    <3> QED
      BY <3>1 DEF Done
  <2> HIDE DEF k
  <2> QED
    BY <1>3, <2>1
<1> QED
  BY <1>6, <1>7, <1>8 DEF tail

\* Once all proxels are made, they are the map of all that is asked for.
LEMMA MadeAll ==
    ASSUME files \in Files, ProxelsMade, configs = <<>>
    PROVE  proxels = MadeOf(files) /\ ConfigsFit(files)
<1> DEFINE all == ProxelConfigs(files)
<1>1. all \in Seq(Range(all))
  BY ConfigsPlaces
<1>2. Done(configs, all) = DOMAIN all
  BY <1>1, AllIsLeft
<1>3. /\ proxels = [id \in {all[i].id : i \in DOMAIN all} |-> proxels[id]]
      /\ \A i \in DOMAIN all : proxels[all[i].id] = all[i].type /\ Makes(all[i].type)
      /\ \A i, j \in DOMAIN all : all[i].id = all[j].id => i = j
  BY <1>2 DEF ProxelsMade
<1>4. ConfigsFit(files)
  BY <1>3 DEF ConfigsFit
<1> HIDE DEF all
<1> DEFINE ids == {c.id : c \in Range(all)}
<1>5. ids = {all[i].id : i \in DOMAIN all}
  BY DEF Range
<1>6. ASSUME NEW id \in ids PROVE proxels[id] = (CHOOSE c \in Range(all) : c.id = id).type
  <2>1. \E c \in Range(all) : c.id = id
    OBVIOUS
  <2> DEFINE d == CHOOSE c \in Range(all) : c.id = id
  <2>2. d \in Range(all) /\ d.id = id
    BY <2>1
  <2> HIDE DEF d
  <2>3. PICK i \in DOMAIN all : d = all[i]
    BY <2>2 DEF Range
  <2> QED
    BY <1>3, <2>2, <2>3 DEF d
<1> HIDE DEF ids
<1>7. proxels = [id \in ids |-> (CHOOSE c \in Range(all) : c.id = id).type]
  BY <1>3, <1>5, <1>6
<1> QED
  BY <1>4, <1>7 DEF MadeOf, all, ids

\* Once all links are made, they are those of all that is asked for.
LEMMA LinkedAll ==
    ASSUME files \in Files, ProxelsMade, configs = <<>>, LinksMade, specs = <<>>
    PROVE  links = LinksOf(files) /\ SpecsFit(files)
<1> DEFINE all == Connections(files)
<1>1. all \in Seq(Range(all))
  BY ConnectionsAre
<1>2. Done(specs, all) = DOMAIN all
  BY <1>1, AllIsLeft
<1>3. /\ links = {Link(proxels, all[i][1], all[i][2]) : i \in DOMAIN all}
      /\ \A i \in DOMAIN all : /\ all[i][1][1] # all[i][2][1]
                               /\ HasPort(proxels, all[i][1]) /\ HasPort(proxels, all[i][2])
      /\ \A l \in links : Fits(l)
  BY <1>2 DEF LinksMade
<1>4. proxels = MadeOf(files)
  BY MadeAll
<1> HIDE DEF all
<1>5. links = {Link(proxels, c[1], c[2]) : c \in Range(all)}
  BY <1>3 DEF Range
<1>6. links = LinksOf(files)
  BY <1>4, <1>5 DEF LinksOf, all
<1>7. \A c \in Range(all) : c[1][1] # c[2][1] /\ HasPort(proxels, c[1]) /\ HasPort(proxels, c[2])
  BY <1>3 DEF Range
<1>8. SpecsFit(files)
  BY <1>3, <1>4, <1>6, <1>7 DEF SpecsFit, Fits, all
<1> QED
  BY <1>6, <1>8

\* The configuration stays.
LEMMA FilesStay == [Next]_vars => files' = files
  BY DEF Next, CreateGraph, Parse, ParseThrows, CreateProxel, CreateThrows, BeginConnect, Connect, ConnectThrows,
     ReturnGraph, Throws, Gui, ReadStatuses, Draw, Resize, Crash, graphVars, vars

\* createGraph() begins with nothing made.
LEMMA ParseKeeps ==
    ASSUME files \in Files, FactoryInv, Parse
    PROVE  FactoryInv'
<1> DEFINE all == ProxelConfigs(files)
           cs == Connections(files)
<1>1. /\ files' = files /\ stage' = "create" /\ ~CreateGraphFails(files)
      /\ configs' = all /\ specs' = cs /\ proxels' = Nothing /\ links' = {}
  BY DEF Parse, FactoryInv
<1>2. all \in Seq(Range(all)) /\ cs \in Seq(Range(cs))
  BY ConfigsPlaces, ConnectionsAre
<1>3. IsRest(all, all) /\ Done(all, all) = {} /\ IsRest(cs, cs) /\ Done(cs, cs) = {}
  BY <1>2, AllIsLeft
<1> HIDE DEF all, cs
<1>4. ProxelsMade'
  <2>1. Nothing = [id \in {} |-> Nothing[id]]
    BY DEF Nothing
  <2> QED
    BY <1>1, <1>3, <2>1 DEF ProxelsMade, all
<1>5. LinksMade'
  BY <1>1, <1>3 DEF LinksMade, cs
<1> QED
  BY <1>1, <1>4, <1>5 DEF FactoryInv, cs

\* A proxel more is made.
LEMMA CreateProxelKeeps ==
    ASSUME files \in Files, FactoryInv, CreateProxel
    PROVE  FactoryInv'
<1> DEFINE all == ProxelConfigs(files)
           config == Head(configs)
           done == Done(configs, all)
<1>1. /\ files' = files /\ stage' = stage /\ stage = "create" /\ specs' = specs /\ links' = links
      /\ configs # <<>> /\ CanCreate(config) /\ configs' = Tail(configs)
      /\ proxels' = [id \in DOMAIN proxels \cup {config.id} |->
            IF id \in DOMAIN proxels THEN proxels[id] ELSE config.type]
  BY DEF CreateProxel
<1>2. ~CreateGraphFails(files) /\ ProxelsMade /\ LinksMade /\ specs = Connections(files)
  BY <1>1 DEF FactoryInv
<1>3. all \in Seq(Range(all)) /\ IsRest(configs, all)
  BY <1>2, ConfigsPlaces DEF ProxelsMade
<1>4. PICK k \in DOMAIN all : /\ config = all[k] /\ k \notin done
                              /\ Done(Tail(configs), all) = done \cup {k}
  BY <1>1, <1>3, HeadIsDone
<1>5. IsRest(Tail(configs), all)
  BY <1>1, <1>3, HeadIsDone
<1>6. /\ proxels = [id \in {all[i].id : i \in done} |-> proxels[id]]
      /\ \A i \in done : proxels[all[i].id] = all[i].type /\ Makes(all[i].type)
      /\ \A i, j \in done : all[i].id = all[j].id => i = j
  BY <1>2 DEF ProxelsMade
<1>7. all[k].id \notin DOMAIN proxels /\ Makes(all[k].type)
  BY <1>1, <1>4, FactoriesAreFirst DEF CanCreate
<1> HIDE DEF all, config, done
<1> DEFINE more == done \cup {k}
<1>8. DOMAIN proxels = {all[i].id : i \in done}
  BY <1>6
<1>9. proxels' = [id \in {all[i].id : i \in more} |-> proxels'[id]]
  <2>1. DOMAIN proxels' = {all[i].id : i \in more}
    BY <1>1, <1>4, <1>8
  <2> QED
    BY <1>1, <2>1
<1>10. ASSUME NEW i \in more PROVE proxels'[all[i].id] = all[i].type /\ Makes(all[i].type)
  <2>1. CASE i \in done
    BY <1>1, <1>6, <1>8, <2>1
  <2>2. CASE i = k
    BY <1>1, <1>4, <1>7, <2>2
  <2> QED
    BY <2>1, <2>2
<1>11. ASSUME NEW i \in more, NEW j \in more, all[i].id = all[j].id PROVE i = j
  BY <1>6, <1>7, <1>8, <1>11
<1>12. ProxelsMade'
  <2>1. Done(configs', all) = more
    BY <1>1, <1>4
  <2>2. IsRest(configs', all)
    BY <1>1, <1>5
  <2>3. ProxelConfigs(files') = all
    BY <1>1 DEF all
  <2>4. /\ \A i \in more : proxels'[all[i].id] = all[i].type /\ Makes(all[i].type)
        /\ \A i, j \in more : all[i].id = all[j].id => i = j
    BY <1>10, <1>11
  <2> HIDE DEF more
  <2> QED
    BY <1>9, <2>1, <2>2, <2>3, <2>4 DEF ProxelsMade
<1>13. LinksMade'
  <2> DEFINE cs == Connections(files)
  <2>1. cs \in Seq(Range(cs))
    BY ConnectionsAre
  <2>2. Done(cs, cs) = {} /\ IsRest(cs, cs)
    BY <2>1, AllIsLeft
  <2>3. links = {}
    BY <1>2, <2>2 DEF LinksMade
  <2> QED
    BY <1>1, <1>2, <2>2, <2>3 DEF LinksMade
<1> QED
  BY <1>1, <1>2, <1>12, <1>13 DEF FactoryInv

\* A proxel that cannot be made, could not be made in another order either.
LEMMA CreateThrowsKeeps ==
    ASSUME files \in Files, FactoryInv, CreateThrows
    PROVE  FactoryInv'
<1> DEFINE all == ProxelConfigs(files)
           config == Head(configs)
           done == Done(configs, all)
<1>1. /\ files' = files /\ stage' = "failed" /\ stage = "create" /\ specs' = <<>> /\ links' = {}
      /\ configs # <<>> /\ ~CanCreate(config) /\ configs' = <<>> /\ proxels' = Nothing
  BY DEF CreateThrows, Throws
<1>2. ProxelsMade
  BY <1>1 DEF FactoryInv
<1>3. all \in Seq(Range(all)) /\ IsRest(configs, all)
  BY <1>2, ConfigsPlaces DEF ProxelsMade
<1>4. PICK k \in DOMAIN all : config = all[k] /\ k \notin done
  BY <1>1, <1>3, HeadIsDone
<1>5. done \subseteq DOMAIN all
  BY <1>1, <1>3, HeadIsDone
<1>6. proxels = [id \in {all[i].id : i \in done} |-> proxels[id]]
  BY <1>2 DEF ProxelsMade
<1>7. all[k].id \in DOMAIN proxels \/ ~Makes(all[k].type)
  BY <1>1, <1>4, FactoriesAreFirst DEF CanCreate
<1>8. ~ConfigsFit(files)
  <2>1. CASE ~Makes(all[k].type)
    BY <1>4, <2>1 DEF ConfigsFit
  <2>2. CASE all[k].id \in DOMAIN proxels
    <3>1. PICK i \in done : all[i].id = all[k].id
      BY <1>6, <2>2
    <3>2. i \in DOMAIN all /\ i # k
      BY <1>4, <1>5
    <3> HIDE DEF all
    <3> QED
      BY <3>1, <3>2 DEF ConfigsFit, all
  <2> QED
    BY <1>7, <2>1, <2>2
<1> QED
  BY <1>1, <1>8 DEF FactoryInv, CanBeMade

\* A connection more is made.
LEMMA ConnectKeeps ==
    ASSUME files \in Files, FactoryInv, Connect
    PROVE  FactoryInv'
<1> DEFINE all == Connections(files)
           c == Head(specs)
           done == Done(specs, all)
           new == Link(proxels, c[1], c[2])
<1>1. /\ files' = files /\ stage' = stage /\ stage = "connect" /\ configs' = configs /\ proxels' = proxels
      /\ specs # <<>> /\ CanConnect(c[1], c[2]) /\ specs' = Tail(specs)
      /\ links' = links \cup {new}
  BY DEF Connect
<1>2. ~CreateGraphFails(files) /\ ProxelsMade /\ LinksMade /\ configs = <<>>
  BY <1>1 DEF FactoryInv
<1>3. all \in Seq(Range(all)) /\ IsRest(specs, all)
  BY <1>2, ConnectionsAre DEF LinksMade
<1>4. PICK k \in DOMAIN all : /\ c = all[k] /\ k \notin done
                              /\ Done(Tail(specs), all) = done \cup {k}
  BY <1>1, <1>3, HeadIsDone
<1>5. IsRest(Tail(specs), all)
  BY <1>1, <1>3, HeadIsDone
<1>6. /\ links = {Link(proxels, all[i][1], all[i][2]) : i \in done}
      /\ \A i \in done : /\ all[i][1][1] # all[i][2][1]
                         /\ HasPort(proxels, all[i][1]) /\ HasPort(proxels, all[i][2])
      /\ \A l \in links : Fits(l)
  BY <1>2 DEF LinksMade
<1>7. /\ c[1][1] # c[2][1] /\ HasPort(proxels, c[1]) /\ HasPort(proxels, c[2])
      /\ Fits(new)
  BY <1>1 DEF CanConnect
<1>8. new = Link(proxels, all[k][1], all[k][2])
  BY <1>4
<1> HIDE DEF all, c, done, new
<1> DEFINE more == done \cup {k}
<1>9. links' = {Link(proxels, all[i][1], all[i][2]) : i \in more}
  BY <1>1, <1>6, <1>8
<1>10. \A i \in more : /\ all[i][1][1] # all[i][2][1]
                       /\ HasPort(proxels, all[i][1]) /\ HasPort(proxels, all[i][2])
  BY <1>4, <1>6, <1>7
<1>11. \A l \in links' : Fits(l)'
  <2> SUFFICES ASSUME NEW l \in links'
               PROVE  /\ Kind(proxels', l[1]) = "out" /\ Kind(proxels', l[2]) \in {"in", "multi"}
                      /\ Data(proxels', l[1]) \cap Data(proxels', l[2]) # {}
                      /\ Kind(proxels', l[2]) = "in" => \A m \in links' : m[2] = l[2] => m = l
    BY DEF Fits
  <2> QED
    BY <1>1, <1>6, <1>7 DEF Fits
<1>12. LinksMade'
  <2>1. Done(specs', all) = more /\ IsRest(specs', all) /\ Connections(files') = all
    BY <1>1, <1>4, <1>5 DEF all
  <2> HIDE DEF more
  <2> QED
    BY <1>1, <1>9, <1>10, <1>11, <2>1 DEF LinksMade
<1>13. ProxelsMade'
  BY <1>1, <1>2 DEF ProxelsMade
<1> QED
  BY <1>1, <1>2, <1>12, <1>13 DEF FactoryInv

\* A connection that cannot be made, could not be made in another order either.
LEMMA ConnectThrowsKeeps ==
    ASSUME files \in Files, FactoryInv, ConnectThrows
    PROVE  FactoryInv'
<1> DEFINE all == Connections(files)
           c == Head(specs)
           done == Done(specs, all)
           new == Link(proxels, c[1], c[2])
<1>1. /\ files' = files /\ stage' = "failed" /\ stage = "connect" /\ configs' = <<>> /\ links' = {}
      /\ specs # <<>> /\ ~CanConnect(c[1], c[2]) /\ specs' = <<>> /\ proxels' = Nothing
  BY DEF ConnectThrows, Throws
<1>2. ProxelsMade /\ LinksMade /\ configs = <<>>
  BY <1>1 DEF FactoryInv
<1>3. all \in Seq(Range(all)) /\ IsRest(specs, all)
  BY <1>2, ConnectionsAre DEF LinksMade
<1>4. PICK k \in DOMAIN all : c = all[k]
  BY <1>1, <1>3, HeadIsDone
<1>5. done \subseteq DOMAIN all
  BY <1>1, <1>3, HeadIsDone
<1>6. links = {Link(proxels, all[i][1], all[i][2]) : i \in done}
  BY <1>2 DEF LinksMade
<1>7. proxels = MadeOf(files)
  BY <1>2, MadeAll
<1>8. c \in Range(all) /\ \A i \in done : all[i] \in Range(all)
  BY <1>4, <1>5 DEF Range
<1>9. new \in LinksOf(files) /\ links \subseteq LinksOf(files)
  BY <1>6, <1>7, <1>8 DEF LinksOf
<1>10. ~SpecsFit(files)
  <2> HIDE DEF c, new
  <2>1. c[1][1] # c[2][1] /\ HasPort(proxels, c[1]) /\ HasPort(proxels, c[2]) => ~Fits(new)
    BY <1>1 DEF CanConnect, new
  <2> QED
    BY <1>7, <1>8, <1>9, <2>1 DEF SpecsFit, Fits
<1> QED
  BY <1>1, <1>10 DEF FactoryInv, CanBeMade

\* Every step keeps the invariant.
LEMMA FactoryInvLemma == files \in Files /\ FactoryInv /\ [Next]_vars => (files \in Files /\ FactoryInv)'
<1> SUFFICES ASSUME files \in Files, FactoryInv, [Next]_vars PROVE files' \in Files /\ FactoryInv'
  OBVIOUS
<1>1. files' = files
  BY FilesStay
<1>2. CASE Parse
  BY <1>1, <1>2, ParseKeeps
<1>3. CASE ParseThrows
  BY <1>3 DEF ParseThrows, Throws, FactoryInv, CanBeMade
<1>4. CASE CreateProxel
  BY <1>1, <1>4, CreateProxelKeeps
<1>5. CASE CreateThrows
  BY <1>1, <1>5, CreateThrowsKeeps
<1>6. CASE BeginConnect
  <2>1. ProxelsMade' = ProxelsMade /\ LinksMade' = LinksMade
    BY <1>6 DEF BeginConnect, ProxelsMade, LinksMade, Fits
  <2> QED
    BY <1>6, <2>1 DEF BeginConnect, FactoryInv
<1>7. CASE Connect
  BY <1>1, <1>7, ConnectKeeps
<1>8. CASE ConnectThrows
  BY <1>1, <1>8, ConnectThrowsKeeps
<1>9. CASE ReturnGraph
  <2>1. ProxelsMade' = ProxelsMade /\ LinksMade' = LinksMade
    BY <1>9 DEF ReturnGraph, ProxelsMade, LinksMade, Fits
  <2> QED
    BY <1>9, <2>1 DEF ReturnGraph, FactoryInv
<1>10. CASE UNCHANGED graphVars
  BY <1>10 DEF graphVars, FactoryInv, ProxelsMade, LinksMade, Fits
<1>11. Gui \/ UNCHANGED vars => UNCHANGED graphVars
  BY DEF Gui, ReadStatuses, Draw, Resize, Crash, graphVars, vars
<1> QED
  BY <1>1, <1>2, <1>3, <1>4, <1>5, <1>6, <1>7, <1>8, <1>9, <1>10, <1>11 DEF Next, CreateGraph

\* createGraph() makes the proxels one by one and then the links one by one, each once
\* and each as the configuration asks; a Single consumer gets one producer; a graph that
\* fails leaves nothing, and there was something in the files that cannot be made.
THEOREM FactorySafety == Spec => [](files \in Files /\ FactoryInv)
<1>1. Start => files \in Files /\ FactoryInv
  BY DEF Start, Init, FactoryInv
<1> QED
  BY <1>1, FactoryInvLemma, PTL DEF Spec

-----------------------------------------------------------------------------
(***************************************************************************)
(* What is written and what is asked for are the same.                     *)
(***************************************************************************)

\* The entries by their places.
LEMMA EntriesWritten ==
    ASSUME files \in Files
    PROVE  \E g :
            /\ \A k \in DOMAIN Entries(files) :
                    /\ Entries(files)[k] = EntryAt(g[k]) /\ Entries(files)[k] \in Entry
                    /\ Entries(files)[k].enable => g[k] \in Written
            /\ \A k, l \in DOMAIN Entries(files) : g[k] = g[l] => k = l
            /\ \A w \in Written : \E k \in DOMAIN Entries(files) : g[k] = w
<1> DEFINE ss == [i \in DOMAIN files |-> files[i].proxels]
           n == Len(files)
           es == Entries(files)
<1>1. DOMAIN files = 1..n
  BY FilesTyped
<1>2. es \in Seq(Entry)
  BY EntriesPlaces
<1>3. DOMAIN es = 1..Len(es) /\ \A k \in 1..Len(es) : es[k] \in Entry
  <2> DEFINE E == Entry
  <2>1. es \in Seq(E)
    BY <1>2
  <2> HIDE DEF es, E
  <2>2. DOMAIN es = 1..Len(es) /\ \A k \in 1..Len(es) : es[k] \in E
    BY <2>1, LenProperties, ElementOfSeq
  <2> QED
    BY <2>2 DEF E
<1>4. PICK g : Places1(g, es, ss, n)
  BY EntriesPlaces
<1>5. \A k \in 1..Len(es) : g[k] \in Spots(ss, n) /\ es[k] = ss[g[k][1]][g[k][2]]
  BY <1>4 DEF Places1
<1>6. /\ \A k, l \in 1..Len(es) : g[k] = g[l] => k = l
      /\ \A p \in Spots(ss, n) : \E k \in 1..Len(es) : g[k] = p
  BY <1>4 DEF Places1
<1>7. \A p : p \in Spots(ss, n) <=>
            p \in UNION {{<<i, j>> : j \in DOMAIN files[i].proxels} : i \in DOMAIN files}
  BY <1>1 DEF Spots
<1>8. \A p \in Spots(ss, n) : ss[p[1]][p[2]] = EntryAt(p)
  BY <1>1 DEF Spots, EntryAt
<1> HIDE DEF ss
<1>9. \A p : p \in Written <=> p \in Spots(ss, n) /\ EntryAt(p).enable
  BY <1>7 DEF Written
<1>10. \A k \in DOMAIN es :
            /\ es[k] = EntryAt(g[k]) /\ es[k] \in Entry
            /\ es[k].enable => g[k] \in Written
  BY <1>3, <1>5, <1>8, <1>9
<1>11. /\ \A k, l \in DOMAIN es : g[k] = g[l] => k = l
       /\ \A w \in Written : \E k \in DOMAIN es : g[k] = w
  BY <1>3, <1>6, <1>9
<1> QED
  BY <1>10, <1>11

\* The entries that are enabled.
LEMMA EnabledWritten ==
    ASSUME files \in Files
    PROVE  /\ \A e : e \in EnabledEntries(files) <=> \E w \in Written : EntryAt(w) = e
           /\ \A w \in Written : EntryAt(w) \in Entry /\ EntryAt(w) \in Range(Entries(files))
<1>1. PICK g :
        /\ \A k \in DOMAIN Entries(files) :
                /\ Entries(files)[k] = EntryAt(g[k]) /\ Entries(files)[k] \in Entry
                /\ Entries(files)[k].enable => g[k] \in Written
        /\ \A k, l \in DOMAIN Entries(files) : g[k] = g[l] => k = l
        /\ \A w \in Written : \E k \in DOMAIN Entries(files) : g[k] = w
  BY EntriesWritten
<1>2. \A w \in Written : EntryAt(w).enable
  BY DEF Written
<1>3. \A e : e \in EnabledEntries(files) <=> (\E k \in DOMAIN Entries(files) : Entries(files)[k] = e) /\ e.enable
  BY DEF EnabledEntries, Range
<1>4. \A w \in Written : \E k \in DOMAIN Entries(files) : EntryAt(w) = Entries(files)[k]
  BY <1>1
<1>5. \A w \in Written : EntryAt(w) \in Entry /\ EntryAt(w) \in Range(Entries(files))
  BY <1>1, <1>4 DEF Range
<1>6. \A e \in EnabledEntries(files) : \E w \in Written : EntryAt(w) = e
  BY <1>1, <1>3
<1>7. \A w \in Written : EntryAt(w) \in EnabledEntries(files)
  BY <1>2, <1>3, <1>4
<1> QED
  BY <1>5, <1>6, <1>7

\* The proxels to make are those that are declared, each once.
LEMMA ConfigsDeclared ==
    ASSUME files \in Files
    PROVE  \E d :
            /\ \A m \in DOMAIN ProxelConfigs(files) :
                    /\ d[m] \in Declared
                    /\ ProxelConfigs(files)[m].id = IdOf(d[m])
                    /\ ProxelConfigs(files)[m].type = EntryAt(d[m][1]).type
            /\ \A k, l \in DOMAIN ProxelConfigs(files) : d[k] = d[l] => k = l
            /\ \A x \in Declared : \E m \in DOMAIN ProxelConfigs(files) : d[m] = x
<1> DEFINE es == Entries(files)
           all == ProxelConfigs(files)
           ss == [k \in DOMAIN es |-> ConfigsOf(es[k])]
           n == Len(es)
<1>1. PICK g :
        /\ \A k \in DOMAIN es : /\ es[k] = EntryAt(g[k]) /\ es[k] \in Entry
                                /\ es[k].enable => g[k] \in Written
        /\ \A k, l \in DOMAIN es : g[k] = g[l] => k = l
        /\ \A w \in Written : \E k \in DOMAIN es : g[k] = w
  BY EntriesWritten
<1>2. DOMAIN es = 1..n
  <2> DEFINE E == Entry
  <2>1. es \in Seq(E)
    BY EntriesPlaces
  <2> HIDE DEF es, E
  <2> QED
    BY <2>1, LenProperties
<1>3. all \in Seq(Range(all)) /\ \E h : Places1(h, all, ss, n)
  BY ConfigsPlaces
<1>4. PICK h : Places1(h, all, ss, n)
  BY <1>3
<1>5. DOMAIN all = 1..Len(all)
  <2> HIDE DEF all
  <2> QED
    BY <1>3, LenProperties
<1> HIDE DEF es, n, all
<1>6. \A k \in DOMAIN es :
        /\ DOMAIN ConfigsOf(es[k]) = IF es[k].enable THEN Copies(es[k]) ELSE {}
        /\ \A j \in DOMAIN ConfigsOf(es[k]) :
                ConfigsOf(es[k])[j].id = Called(es[k], j) /\ ConfigsOf(es[k])[j].type = es[k].type
  BY <1>1, ConfigsOfEntry
<1>7. \A p : p \in Spots(ss, n) <=> \E k \in DOMAIN es : \E j \in DOMAIN ConfigsOf(es[k]) : p = <<k, j>>
  BY <1>2 DEF Spots
<1>8. \A k \in DOMAIN es : ss[k] = ConfigsOf(es[k])
  OBVIOUS
<1> HIDE DEF ss
<1>9. /\ \A m \in DOMAIN all : h[m] \in Spots(ss, n) /\ all[m] = ss[h[m][1]][h[m][2]]
      /\ \A k, l \in DOMAIN all : h[k] = h[l] => k = l
      /\ \A p \in Spots(ss, n) : \E m \in DOMAIN all : h[m] = p
  BY <1>4, <1>5 DEF Places1
<1> DEFINE d == [m \in DOMAIN all |-> <<g[h[m][1]], h[m][2]>>]
<1>10. ASSUME NEW m \in DOMAIN all
       PROVE  /\ h[m][1] \in DOMAIN es /\ h[m] = <<h[m][1], h[m][2]>>
              /\ d[m] = <<g[h[m][1]], h[m][2]>>
              /\ d[m] \in Declared /\ all[m].id = IdOf(d[m]) /\ all[m].type = EntryAt(d[m][1]).type
  <2>1. PICK k \in DOMAIN es : \E j \in DOMAIN ConfigsOf(es[k]) : h[m] = <<k, j>>
    BY <1>7, <1>9
  <2>2. PICK j \in DOMAIN ConfigsOf(es[k]) : h[m] = <<k, j>>
    BY <2>1
  <2>3. h[m][1] = k /\ h[m][2] = j /\ d[m] = <<g[k], j>>
    BY <2>2
  <2>4. all[m] = ConfigsOf(es[k])[j]
    BY <1>8, <1>9, <2>3
  <2>5. es[k].enable /\ j \in Copies(es[k]) /\ g[k] \in Written /\ es[k] = EntryAt(g[k])
    BY <1>1, <1>6
  <2>6. <<g[k], j>> \in Declared
    BY <2>5 DEF Declared
  <2>7. all[m].id = Called(es[k], j) /\ all[m].type = es[k].type
    BY <1>6, <2>4
  <2> HIDE DEF d
  <2> QED
    BY <2>2, <2>3, <2>5, <2>6, <2>7 DEF IdOf
<1>11. ASSUME NEW k \in DOMAIN all, NEW l \in DOMAIN all, d[k] = d[l] PROVE k = l
  <2>1. g[h[k][1]] = g[h[l][1]] /\ h[k][2] = h[l][2]
    BY <1>11
  <2>2. h[k][1] = h[l][1]
    <3>1. h[k][1] \in DOMAIN es /\ h[l][1] \in DOMAIN es
      BY <1>10
    <3> HIDE DEF d
    <3> QED
      BY <1>1, <2>1, <3>1
  <2>3. h[k] = h[l]
    BY <1>10, <2>1, <2>2
  <2> QED
    BY <1>9, <2>3
<1>12. ASSUME NEW x \in Declared PROVE \E m \in DOMAIN all : d[m] = x
  <2>1. PICK w \in Written : \E j \in Copies(EntryAt(w)) : x = <<w, j>>
    BY DEF Declared
  <2>2. PICK j \in Copies(EntryAt(w)) : x = <<w, j>>
    BY <2>1
  <2>3. PICK k \in DOMAIN es : g[k] = w
    BY <1>1
  <2>4. es[k] = EntryAt(w) /\ es[k].enable
    BY <1>1, <2>3 DEF Written
  <2>5. j \in DOMAIN ConfigsOf(es[k])
    BY <1>6, <2>4
  <2>6. PICK m \in DOMAIN all : h[m] = <<k, j>>
    BY <1>7, <1>9, <2>5
  <2>7. d[m] = <<g[k], j>>
    BY <2>6
  <2> QED
    BY <2>2, <2>3, <2>7
<1> HIDE DEF d
<1>13. /\ \A m \in DOMAIN all : d[m] \in Declared /\ all[m].id = IdOf(d[m]) /\ all[m].type = EntryAt(d[m][1]).type
       /\ \A k, l \in DOMAIN all : d[k] = d[l] => k = l
       /\ \A x \in Declared : \E m \in DOMAIN all : d[m] = x
  BY <1>10, <1>11, <1>12
<1> QED
  BY <1>13 DEF all

LEMMA CopiesOfEntry ==
    ASSUME NEW e \in Entry
    PROVE  /\ e.replicate \in Nat /\ 1 \in Copies(e)
           /\ Copies(e) = IF e.replicate > 1 THEN 1..e.replicate ELSE {1}
<1>1. e.replicate \in Nat
  BY DEF Entry
<1> QED
  BY <1>1 DEF Copies

\* The names that a connection may use: those of the entries and those of the proxels.
LEMMA NamesDeclared ==
    ASSUME files \in Files
    PROVE  \A name : name \in ProxelNames(files) <=>
                (\E w \in Written : EntryAt(w).name = name) \/ (\E d \in Declared : IdOf(d) = name)
<1>1. /\ \A e : e \in EnabledEntries(files) <=> \E w \in Written : EntryAt(w) = e
      /\ \A w \in Written : EntryAt(w) \in Entry
  BY EnabledWritten
<1>2. ASSUME NEW name, name \in ProxelNames(files)
      PROVE  (\E w \in Written : EntryAt(w).name = name) \/ (\E d \in Declared : IdOf(d) = name)
  <2>1. CASE \E e \in EnabledEntries(files) : name = e.name
    BY <1>1, <2>1
  <2>2. CASE \E e \in EnabledEntries(files) :
                e.replicate > 1 /\ \E i \in 1..e.replicate : name = ReplicaId(e.name, i - 1)
    <3>1. PICK e \in EnabledEntries(files) :
                e.replicate > 1 /\ \E i \in 1..e.replicate : name = ReplicaId(e.name, i - 1)
      BY <2>2
    <3>2. PICK w \in Written : EntryAt(w) = e
      BY <1>1
    <3>3. PICK i \in 1..e.replicate : name = ReplicaId(e.name, i - 1)
      BY <3>1
    <3>4. i \in Copies(EntryAt(w))
      BY <3>1, <3>2, <3>3 DEF Copies
    <3>5. <<w, i>> \in Declared
      BY <3>4 DEF Declared
    <3>6. IdOf(<<w, i>>) = name
      BY <3>1, <3>2, <3>3 DEF IdOf, Called
    <3> QED
      BY <3>5, <3>6
  <2> QED
    BY <1>2, <2>1, <2>2 DEF ProxelNames
<1>3. ASSUME NEW w \in Written PROVE EntryAt(w).name \in ProxelNames(files)
  BY <1>1 DEF ProxelNames
<1>4. ASSUME NEW d \in Declared PROVE IdOf(d) \in ProxelNames(files)
  <2>1. PICK w \in Written : \E j \in Copies(EntryAt(w)) : d = <<w, j>>
    BY DEF Declared
  <2>2. PICK j \in Copies(EntryAt(w)) : d = <<w, j>>
    BY <2>1
  <2>3. EntryAt(w) \in EnabledEntries(files)
    BY <1>1
  <2>4. CASE EntryAt(w).replicate > 1
    <3>1. j \in 1..EntryAt(w).replicate
      BY <2>2, <2>4 DEF Copies
    <3>2. IdOf(d) = ReplicaId(EntryAt(w).name, j - 1)
      BY <2>2, <2>4 DEF IdOf, Called
    <3> QED
      BY <2>3, <2>4, <3>1, <3>2 DEF ProxelNames
  <2>5. CASE ~(EntryAt(w).replicate > 1)
    <3>1. IdOf(d) = EntryAt(w).name
      BY <2>2, <2>5 DEF IdOf, Called
    <3> QED
      BY <1>3, <3>1
  <2> QED
    BY <2>4, <2>5
<1> QED
  BY <1>2, <1>3, <1>4

\* What a side of a connection means: something, if the name may be used; and as many
\* proxels as the name has replicas.
LEMMA MeansReplicas ==
    ASSUME files \in Files, NEW spec
    PROVE  /\ spec.name \in ProxelNames(files) <=> Means(spec) # {}
           /\ CountsAgree /\ Means(spec) # {} =>
                Means(spec) = IF Replicas(files, spec.name) > 1
                              THEN 1..Replicas(files, spec.name) ELSE {1}
<1> DEFINE name == spec.name
           r == Replicas(files, name)
           IsId == \E d \in Declared : IdOf(d) = name
<1>1. \A w \in Written : EntryAt(w) \in Entry /\ EntryAt(w) \in Range(Entries(files))
  BY EnabledWritten
<1>2. \A w \in Written : EntryAt(w).replicate \in Nat /\ 1 \in Copies(EntryAt(w))
  BY <1>1, CopiesOfEntry
<1>3. \A u : u \in Means(spec) <=>
            (\E w \in Written : EntryAt(w).name = name /\ u \in Copies(EntryAt(w))) \/ (u = 1 /\ IsId)
  <2> DEFINE A == UNION {Copies(EntryAt(w)) : w \in {v \in Written : EntryAt(v).name = name}}
             B == {n \in {1} : \E d \in Declared : IdOf(d) = name}
  <2>1. Means(spec) = B \cup A
    BY DEF Means
  <2>2. \A u : u \in A <=> \E w \in Written : EntryAt(w).name = name /\ u \in Copies(EntryAt(w))
    OBVIOUS
  <2>3. \A u : u \in B <=> u = 1 /\ IsId
    OBVIOUS
  <2> HIDE DEF A, B, IsId, name
  <2> QED
    BY <2>1, <2>2, <2>3
<1>4. name \in ProxelNames(files) <=> (\E w \in Written : EntryAt(w).name = name) \/ IsId
  BY NamesDeclared
<1>5. name \in ProxelNames(files) <=> Means(spec) # {}
  <2> HIDE DEF name, IsId
  <2>1. name \in ProxelNames(files) => 1 \in Means(spec)
    BY <1>2, <1>3, <1>4
  <2>2. Means(spec) # {} => name \in ProxelNames(files)
    BY <1>3, <1>4
  <2> QED
    BY <2>1, <2>2
<1>6. ASSUME CountsAgree, Means(spec) # {} PROVE Means(spec) = IF r > 1 THEN 1..r ELSE {1}
  <2>1. /\ \A e, f \in Range(Entries(files)) : e.name = f.name => Copies(e) = Copies(f)
        /\ \A e \in Range(Entries(files)), d \in Declared : e.replicate > 1 /\ IdOf(d) = e.name => e.enable
    BY <1>6 DEF CountsAgree
  <2>2. /\ r \in Nat \ {0}
        /\ r > 1 => \E e \in Range(Entries(files)) : e.name = name /\ e.replicate = r
        /\ \A e \in Range(Entries(files)) : e.name = name /\ e.replicate > 1 => r > 1
    BY ReplicasOfName
  <2>3. CASE \E w \in Written : EntryAt(w).name = name
    <3>1. PICK w \in Written : EntryAt(w).name = name
      BY <2>3
    <3>2. \A v \in Written : EntryAt(v).name = name => Copies(EntryAt(v)) = Copies(EntryAt(w))
      BY <1>1, <2>1, <3>1
    <3>3. Means(spec) = Copies(EntryAt(w))
      <4> HIDE DEF name, IsId
      <4>1. \A u : u \in Means(spec) <=> u \in Copies(EntryAt(w))
        BY <1>2, <1>3, <3>1, <3>2
      <4> QED
        BY <4>1
    <3>4. Copies(EntryAt(w)) = IF EntryAt(w).replicate > 1 THEN 1..EntryAt(w).replicate ELSE {1}
      BY DEF Copies
    <3>5. CASE r > 1
      <4>1. PICK e \in Range(Entries(files)) : e.name = name /\ e.replicate = r
        BY <2>2, <3>5
      <4>2. Copies(e) = 1..r
        BY <3>5, <4>1 DEF Copies
      <4>3. Copies(e) = Copies(EntryAt(w))
        BY <1>1, <2>1, <3>1, <4>1
      <4> QED
        BY <3>3, <3>5, <4>2, <4>3
    <3>6. CASE ~(r > 1)
      <4>1. ~(EntryAt(w).replicate > 1)
        BY <1>1, <2>2, <3>1, <3>6
      <4> QED
        BY <3>3, <3>4, <3>6, <4>1
    <3> QED
      BY <3>5, <3>6
  <2>4. CASE ~\E w \in Written : EntryAt(w).name = name
    <3>1. IsId /\ Means(spec) = {1}
      <4> HIDE DEF name, IsId
      <4>1. \A u : u \in Means(spec) <=> u = 1 /\ IsId
        BY <1>3, <2>4
      <4> QED
        BY <1>6, <4>1
    <3>2. ~(r > 1)
      <4> SUFFICES ASSUME r > 1 PROVE FALSE
        OBVIOUS
      <4>1. PICK e \in Range(Entries(files)) : e.name = name /\ e.replicate = r
        BY <2>2
      <4>2. e.enable
        BY <2>1, <3>1, <4>1
      <4>3. e \in EnabledEntries(files)
        BY <4>2 DEF EnabledEntries
      <4> QED
        BY <2>4, <4>1, <4>3, EnabledWritten
    <3> QED
      BY <3>1, <3>2
  <2> QED
    BY <2>3, <2>4
<1> QED
  BY <1>5, <1>6

LEMMA CountOfPlaces == \A n \in Nat : Cardinality(1..n) = n
<1> SUFFICES ASSUME NEW n \in Nat PROVE Cardinality(1..n) = n
  OBVIOUS
<1>1. Cardinality(1..n) = IF 1 > n THEN 0 ELSE n - 1 + 1
  BY FS_Interval
<1> QED
  BY <1>1

\* The '$' lists fit, written one way or the other.
LEMMA ListsWritten ==
    ASSUME files \in Files
    PROVE  ListsFit(files) <=>
            \A w \in Written : \A n \in EntryAt(w).lists : Cardinality(Copies(EntryAt(w))) \in {1, n}
<1>1. /\ \A e : e \in EnabledEntries(files) <=> \E w \in Written : EntryAt(w) = e
      /\ \A w \in Written : EntryAt(w) \in Entry
  BY EnabledWritten
<1>2. ASSUME NEW w \in Written
      PROVE  Cardinality(Copies(EntryAt(w))) =
                IF EntryAt(w).replicate > 1 THEN EntryAt(w).replicate ELSE 1
  <2>1. EntryAt(w).replicate \in Nat
        /\ Copies(EntryAt(w)) = IF EntryAt(w).replicate > 1 THEN 1..EntryAt(w).replicate ELSE {1}
    BY <1>1, CopiesOfEntry
  <2>2. Cardinality({1}) = 1
    BY FS_Singleton
  <2> QED
    BY <2>1, <2>2, CountOfPlaces
<1>3. ListsFit(files) <=>
        \A w \in Written : EntryAt(w).replicate > 1 => EntryAt(w).lists \subseteq {EntryAt(w).replicate}
  BY <1>1 DEF ListsFit
<1>4. ASSUME NEW w \in Written
      PROVE  (EntryAt(w).replicate > 1 => EntryAt(w).lists \subseteq {EntryAt(w).replicate}) <=>
             \A n \in EntryAt(w).lists : Cardinality(Copies(EntryAt(w))) \in {1, n}
  <2>1. EntryAt(w).replicate \in Nat
    BY <1>1, CopiesOfEntry
  <2> QED
    BY <1>2, <2>1
<1> QED
  BY <1>3, <1>4

\* The places of a side are those of its ends, and the ends are those of the places.
LEMMA SideWritten ==
    ASSUME files \in Files, CountsAgree, NEW spec \in PortSpec, Means(spec) # {}
    PROVE  /\ Places(spec) = 1..Len(Side(files, spec))
           /\ Cardinality(Places(spec)) = Len(Side(files, spec))
           /\ \A n \in Places(spec) : EndAt(spec, n) = Side(files, spec)[n]
           /\ Len(Side(files, spec)) = 1 => \A n : EndAt(spec, n) = Side(files, spec)[1]
           /\ Ambiguous(spec, Replicas(files, spec.name)) <=>
                Cardinality(Means(spec)) > 1 /\ Len(spec.ports) # 1
<1> DEFINE r == Replicas(files, spec.name)
           s == Side(files, spec)
<1>1. Means(spec) = IF r > 1 THEN 1..r ELSE {1}
  BY MeansReplicas
<1>2. r \in Nat \ {0}
  BY ReplicasOfName
<1>3. /\ Len(s) \in Nat \ {0}
      /\ r > 1 => Len(s) = r /\ \A i \in 1..r : s[i] = <<ReplicaId(spec.name, i - 1), spec.ports[1]>>
      /\ ~(r > 1) => /\ Len(s) = Len(spec.ports)
                     /\ \A i \in 1..Len(spec.ports) : s[i] = <<spec.name, spec.ports[i]>>
  BY SideIs
<1>4. Len(spec.ports) \in Nat \ {0} /\ DOMAIN spec.ports = 1..Len(spec.ports)
  <2> DEFINE P == Seq(STRING) \ {<<>>}
             ports == spec.ports
  <2>1. ports \in P
    <3> HIDE DEF P
    <3>1. PortSpec = [name : STRING, ports : P]
      BY DEF PortSpec, P
    <3> QED
      BY <3>1
  <2> HIDE DEF ports
  <2>2. ports \in Seq(STRING) /\ ports # <<>>
    BY <2>1
  <2>3. Len(ports) \in Nat \ {0} /\ DOMAIN ports = 1..Len(ports)
    BY <2>2, EmptySeq, LenProperties
  <2> QED
    BY <2>3 DEF ports
<1>5. Cardinality(Means(spec)) = IF r > 1 THEN r ELSE 1
  <2>1. Cardinality({1}) = 1
    BY FS_Singleton
  <2> HIDE DEF r
  <2> QED
    BY <1>1, <1>2, <2>1, CountOfPlaces
<1> HIDE DEF r, s
<1>6. Places(spec) = 1..Len(s)
  BY <1>1, <1>2, <1>3, <1>4, <1>5 DEF Places
<1>7. Cardinality(Places(spec)) = Len(s)
  BY <1>3, <1>6, CountOfPlaces
<1>8. CASE r > 1
  <2>1. \A n : EndAt(spec, n) = <<ReplicaId(spec.name, n - 1), spec.ports[1]>>
    BY <1>2, <1>5, <1>8 DEF EndAt
  <2>2. Ambiguous(spec, r) <=> Cardinality(Means(spec)) > 1 /\ Len(spec.ports) # 1
    <3> DEFINE k == Len(spec.ports)
               m == Cardinality(Means(spec))
    <3>1. k \in Nat \ {0} /\ m = r
      BY <1>4, <1>5, <1>8
    <3>2. Ambiguous(spec, r) <=> r > 1 /\ k > 1
      BY DEF Ambiguous
    <3> HIDE DEF k, m
    <3>3. k > 1 <=> k # 1
      BY <3>1
    <3>4. Ambiguous(spec, r) <=> m > 1 /\ k # 1
      BY <3>1, <3>2, <3>3, <1>8
    <3> QED
      BY <3>4 DEF k, m
  <2>3. Len(s) # 1
    <3>1. Len(s) = r
      BY <1>3, <1>8
    <3>2. r # 1
      BY ONLY <1>2, <1>8
    <3> QED
      BY <3>1, <3>2
  <2> QED
    BY <1>3, <1>6, <1>7, <1>8, <2>1, <2>2, <2>3 DEF r, s
<1>9. CASE ~(r > 1)
  <2>1. \A n : EndAt(spec, n) = <<spec.name, spec.ports[IF Len(spec.ports) > 1 THEN n ELSE 1]>>
    BY <1>2, <1>5, <1>9 DEF EndAt
  <2>2. ~Ambiguous(spec, r) /\ ~(Cardinality(Means(spec)) > 1)
    BY <1>2, <1>5, <1>9 DEF Ambiguous
  <2>3. \A n \in 1..Len(s) : EndAt(spec, n) = s[n]
    <3>1. CASE Len(spec.ports) > 1
      BY <1>3, <1>9, <2>1, <3>1
    <3>2. CASE ~(Len(spec.ports) > 1)
      <4> DEFINE k == Len(spec.ports)
      <4>2. k \in Nat \ {0} /\ Len(s) = k /\ ~(k > 1)
        BY <1>3, <1>4, <1>9, <3>2
      <4> HIDE DEF k
      <4>3. k = 1
        BY <4>2
      <4>4. \A n \in 1..1 : n = 1
        OBVIOUS
      <4>1. Len(spec.ports) = 1 /\ Len(s) = 1 /\ \A n \in 1..1 : n = 1
        BY <4>2, <4>3, <4>4 DEF k
      <4> QED
        BY <1>3, <1>9, <2>1, <4>1
    <3> QED
      BY <3>1, <3>2
  <2>4. ASSUME Len(s) = 1, NEW n PROVE EndAt(spec, n) = s[1]
    <3>1. ~(Len(spec.ports) > 1) /\ 1 \in 1..Len(spec.ports)
      <4>1. Len(spec.ports) = 1
        BY <1>3, <1>9, <2>4
      <4>2. ~(1 > 1) /\ 1 \in 1..1
        OBVIOUS
      <4> QED
        BY <4>1, <4>2
    <3> QED
      BY <1>3, <1>9, <2>1, <3>1
  <2> QED
    BY <1>6, <1>7, <2>2, <2>3, <2>4 DEF r, s
<1> QED
  BY <1>8, <1>9

\* What is made is called as what is declared.
LEMMA MadeAreDeclared ==
    ASSUME files \in Files
    PROVE  \A id : id \in DOMAIN MadeOf(files) <=> \E d \in Declared : IdOf(d) = id
<1> DEFINE all == ProxelConfigs(files)
<1>1. PICK d : /\ \A m \in DOMAIN all : d[m] \in Declared /\ all[m].id = IdOf(d[m])
               /\ \A x \in Declared : \E m \in DOMAIN all : d[m] = x
  BY ConfigsDeclared
<1>2. DOMAIN MadeOf(files) = {c.id : c \in Range(all)}
  BY DEF MadeOf
<1> HIDE DEF all
<1>3. \A id : id \in {c.id : c \in Range(all)} <=> \E m \in DOMAIN all : all[m].id = id
  BY DEF Range
<1>4. \A id : (\E m \in DOMAIN all : all[m].id = id) <=> \E x \in Declared : IdOf(x) = id
  BY <1>1
<1> QED
  BY <1>2, <1>3, <1>4

\* The proxels can be made if each has its factory and an id of its own.
LEMMA ConfigsWritten ==
    ASSUME files \in Files
    PROVE  ConfigsFit(files) <=>
                /\ \A w \in Written : Makes(EntryAt(w).type)
                /\ \A d, e \in Declared : IdOf(d) = IdOf(e) => d = e
<1> DEFINE all == ProxelConfigs(files)
           Typed == \A m \in DOMAIN all : Makes(all[m].type)
           Unique == \A i, j \in DOMAIN all : all[i].id = all[j].id => i = j
<1>1. PICK d : /\ \A m \in DOMAIN all : /\ d[m] \in Declared /\ all[m].id = IdOf(d[m])
                                        /\ all[m].type = EntryAt(d[m][1]).type
               /\ \A k, l \in DOMAIN all : d[k] = d[l] => k = l
               /\ \A x \in Declared : \E m \in DOMAIN all : d[m] = x
  BY ConfigsDeclared
<1>2. ConfigsFit(files) <=> Typed /\ Unique
  BY DEF ConfigsFit
<1> HIDE DEF all
<1>3. Typed <=> \A w \in Written : Makes(EntryAt(w).type)
  <2>1. \A x \in Declared : x[1] \in Written
    BY DEF Declared
  <2>2. ASSUME NEW w \in Written PROVE \E x \in Declared : x[1] = w
    <3>1. 1 \in Copies(EntryAt(w))
      BY <2>2, EnabledWritten, CopiesOfEntry
    <3>2. <<w, 1>> \in Declared
      BY <2>2, <3>1 DEF Declared
    <3> QED
      BY <3>2
  <2>3. ASSUME Typed, NEW w \in Written PROVE Makes(EntryAt(w).type)
    <3>1. PICK x \in Declared : x[1] = w
      BY <2>2
    <3>2. PICK m \in DOMAIN all : d[m] = x
      BY <1>1
    <3>3. all[m].type = EntryAt(w).type
      BY <1>1, <3>1, <3>2
    <3> QED
      BY <2>3, <3>3
  <2>4. ASSUME \A w \in Written : Makes(EntryAt(w).type), NEW m \in DOMAIN all PROVE Makes(all[m].type)
    <3>1. d[m][1] \in Written
      BY <1>1, <2>1
    <3>2. all[m].type = EntryAt(d[m][1]).type
      BY <1>1
    <3> QED
      BY <2>4, <3>1, <3>2
  <2> QED
    BY <2>3, <2>4
<1>4. Unique <=> \A x, y \in Declared : IdOf(x) = IdOf(y) => x = y
  <2>1. ASSUME Unique, NEW x \in Declared, NEW y \in Declared, IdOf(x) = IdOf(y) PROVE x = y
    <3>1. PICK k \in DOMAIN all : d[k] = x
      BY <1>1
    <3>2. PICK l \in DOMAIN all : d[l] = y
      BY <1>1
    <3>3. all[k].id = all[l].id
      BY <1>1, <2>1, <3>1, <3>2
    <3>4. k = l
      BY <2>1, <3>3
    <3> QED
      BY <3>1, <3>2, <3>4
  <2>2. ASSUME \A x, y \in Declared : IdOf(x) = IdOf(y) => x = y,
               NEW k \in DOMAIN all, NEW l \in DOMAIN all, all[k].id = all[l].id
        PROVE  k = l
    <3>1. d[k] \in Declared /\ d[l] \in Declared /\ IdOf(d[k]) = IdOf(d[l])
      BY <1>1, <2>2
    <3>2. d[k] = d[l]
      BY <2>2, <3>1
    <3> QED
      BY <1>1, <3>2
  <2> QED
    BY <2>1, <2>2
<1> QED
  BY <1>2, <1>3, <1>4

\* The proxels that can be made are those that are written.
LEMMA MadeAsWritten ==
    ASSUME files \in Files, ConfigsFit(files)
    PROVE  MadeOf(files) = [id \in {IdOf(d) : d \in Declared} |-> TypeOfId(id)]
<1> DEFINE all == ProxelConfigs(files)
           ids == {c.id : c \in Range(all)}
           named == {IdOf(x) : x \in Declared}
           first(id) == CHOOSE c \in Range(all) : c.id = id
           chosen(id) == CHOOSE x \in Declared : IdOf(x) = id
<1>1. PICK d : /\ \A m \in DOMAIN all : /\ d[m] \in Declared /\ all[m].id = IdOf(d[m])
                                        /\ all[m].type = EntryAt(d[m][1]).type
               /\ \A x \in Declared : \E m \in DOMAIN all : d[m] = x
  BY ConfigsDeclared
<1>2. \A x, y \in Declared : IdOf(x) = IdOf(y) => x = y
  BY ConfigsWritten
<1>3. MadeOf(files) = [id \in ids |-> first(id).type]
  BY DEF MadeOf
<1> HIDE DEF all
<1>4. \A id : id \in ids <=> id \in named
  <2>1. DOMAIN MadeOf(files) = ids
    BY <1>3
  <2> QED
    BY <2>1, MadeAreDeclared
<1>5. ASSUME NEW id \in named PROVE first(id).type = TypeOfId(id)
  <2>1. \E c \in Range(all) : c.id = id
    BY <1>4
  <2>2. first(id) \in Range(all) /\ first(id).id = id
    BY <2>1
  <2>3. \E x \in Declared : IdOf(x) = id
    OBVIOUS
  <2>4. chosen(id) \in Declared /\ IdOf(chosen(id)) = id
    BY <2>3
  <2>5. TypeOfId(id) = EntryAt(chosen(id)[1]).type
    BY DEF TypeOfId
  <2> HIDE DEF first, chosen
  <2>6. PICK m \in DOMAIN all : first(id) = all[m]
    BY <2>2 DEF Range
  <2>7. d[m] = chosen(id)
    BY <1>1, <1>2, <2>2, <2>4, <2>6
  <2> QED
    BY <1>1, <2>5, <2>6, <2>7
<1> HIDE DEF first, ids, named
<1>6. ids = named
  BY <1>4
<1> QED
  BY <1>3, <1>5, <1>6 DEF named

\* The names in the files are the declared proxels, and the base names of the
\* replicated entries.
LEMMA NamesAndBases ==
    ASSUME files \in Files
    PROVE  \A x : x \in ProxelNames(files) <=>
                \/ \E d \in Declared : IdOf(d) = x
                \/ x \in {e.name : e \in {f \in EnabledEntries(files) : f.replicate > 1}}
<1> DEFINE Base(x) == \E w \in Written : EntryAt(w).replicate > 1 /\ EntryAt(w).name = x
           Named(x) == \E w \in Written : EntryAt(w).name = x
           Ided(x) == \E d \in Declared : IdOf(d) = x
<1>1. /\ \A e : e \in EnabledEntries(files) <=> \E w \in Written : EntryAt(w) = e
      /\ \A w \in Written : EntryAt(w) \in Entry
  BY EnabledWritten
<1>2. \A x : x \in {e.name : e \in {f \in EnabledEntries(files) : f.replicate > 1}} <=> Base(x)
  BY <1>1
<1>3. ASSUME NEW w \in Written, ~(EntryAt(w).replicate > 1) PROVE Ided(EntryAt(w).name)
  <2>1. <<w, 1>> \in Declared
    BY <1>1, <1>3, CopiesOfEntry DEF Declared
  <2>2. IdOf(<<w, 1>>) = EntryAt(w).name
    BY <1>3 DEF IdOf, Called
  <2> QED
    BY <2>1, <2>2
<1>4. \A x : Named(x) => Base(x) \/ Ided(x)
  BY <1>3
<1>5. \A x : Base(x) => Named(x)
  OBVIOUS
<1>6. \A x : x \in ProxelNames(files) <=> Named(x) \/ Ided(x)
  BY NamesDeclared
<1> QED
  BY <1>2, <1>4, <1>5, <1>6

\* The graph that is created is all that is asked for.
LEMMA CreatedIsAll ==
    ASSUME files \in Files, FactoryInv, stage = "created"
    PROVE  /\ proxels = MadeOf(files) /\ links = LinksOf(files)
           /\ CanBeMade(files)
<1>1. ~CreateGraphFails(files) /\ ProxelsMade /\ LinksMade /\ configs = <<>> /\ specs = <<>>
  BY DEF FactoryInv
<1> QED
  BY <1>1, MadeAll, LinkedAll DEF CanBeMade

\* A connection has two ends.
LEMMA ConnectionsArePairs ==
    ASSUME files \in Files, NEW c \in Range(Connections(files))
    PROVE  c = <<c[1], c[2]>>
<1>1. PICK w \in Range(AllConnections(files)) : c \in Range(Pairs(Side(files, w[1]), Side(files, w[2])))
  BY ConnectionsAre
<1>2. w[1] \in PortSpec /\ w[2] \in PortSpec
  <2> DEFINE C == PortSpec \X PortSpec
  <2>1. AllConnections(files) \in Seq(C)
    BY AllConnectionsTyped
  <2> HIDE DEF C
  <2>2. w \in C
    BY <1>1, <2>1, ElementOfSeq DEF Range
  <2> QED
    BY <2>2 DEF C
<1> DEFINE l == Side(files, w[1])
           r == Side(files, w[2])
<1>3. /\ Len(l) \in Nat \ {0} /\ l = [i \in 1..Len(l) |-> l[i]]
      /\ Len(r) \in Nat \ {0} /\ r = [i \in 1..Len(r) |-> r[i]]
  BY <1>2, SideIs
<1> HIDE DEF l, r
<1>4. Pairs(l, r) = [i \in 1..SizeOf(l, r) |-> <<At(l, SizeOf(l, r), i), At(r, SizeOf(l, r), i)>>]
  BY <1>3, PairsAre
<1>5. c \in Range(Pairs(l, r))
  BY <1>1 DEF l, r
<1> QED
  BY <1>4, <1>5 DEF Range

-----------------------------------------------------------------------------
(***************************************************************************)
(* The connections: what createGraph() connects one by one is what the     *)
(* files say, and it can be done exactly if they are well formed.          *)
(***************************************************************************)

\* The connections that are not left out.
LEMMA ConnectionsEnabled ==
    ASSUME files \in Files
    PROVE  /\ \A c : c \in WrittenConnections <=> c \in Range(AllConnections(files)) /\ Enabled(files, c)
           /\ \A c \in WrittenConnections :
                /\ c[1] \in PortSpec /\ c[2] \in PortSpec /\ Range(c) = {c[1], c[2]}
                /\ Means(c[1]) # {} /\ Means(c[2]) # {}
<1> DEFINE P == PortSpec
           S == UNION {Range(files[i].connections) : i \in DOMAIN files}
           all == AllConnections(files)
<1>1. Range(all) = S /\ all \in Seq(P \X P)
  BY AllConnectionsTyped
<1> HIDE DEF P
<1>2. \A c \in Range(all) : c \in P \X P
  <2> HIDE DEF all, S
  <2> SUFFICES ASSUME NEW c \in Range(all) PROVE c \in P \X P
    OBVIOUS
  <2>1. PICK i \in DOMAIN all : c = all[i]
    BY DEF Range
  <2> QED
    BY <1>1, <2>1
<1>3. \A c : c \in WrittenConnections <=> c \in S /\ Means(c[1]) # {} /\ Means(c[2]) # {}
  BY DEF WrittenConnections
<1> HIDE DEF S, all
<1>4. \A spec : spec.name \in ProxelNames(files) <=> Means(spec) # {}
  BY MeansReplicas
<1>5. \A c : Enabled(files, c) <=> Means(c[1]) # {} /\ Means(c[2]) # {}
  BY <1>4 DEF Enabled
<1>6. \A c \in P \X P : c[1] \in P /\ c[2] \in P /\ Range(c) = {c[1], c[2]}
  <2> SUFFICES ASSUME NEW c \in P \X P PROVE c[1] \in P /\ c[2] \in P /\ Range(c) = {c[1], c[2]}
    OBVIOUS
  <2>1. DOMAIN c = {1, 2}
    OBVIOUS
  <2>2. Range(c) = {c[1], c[2]}
    BY <2>1 DEF Range
  <2> QED
    BY <2>2
<1>7. \A c : c \in WrittenConnections <=> c \in Range(all) /\ Enabled(files, c)
  BY <1>1, <1>3, <1>5
<1>8. \A c \in WrittenConnections : /\ c[1] \in P /\ c[2] \in P /\ Range(c) = {c[1], c[2]}
                                    /\ Means(c[1]) # {} /\ Means(c[2]) # {}
  BY <1>2, <1>3, <1>6, <1>7
<1> QED
  BY <1>7, <1>8 DEF P, all

\* Whether a connection can be expanded is a matter of its sides' places.
LEMMA FailsAsWritten ==
    ASSUME files \in Files, CountsAgree, NEW c \in WrittenConnections
    PROVE  ~ConnectionFails(files, c) <=>
                /\ \A spec \in Range(c) : Cardinality(Means(spec)) > 1 => Len(spec.ports) = 1
                /\ \/ Places(c[1]) = Places(c[2])
                   \/ Cardinality(Places(c[1])) = 1 \/ Cardinality(Places(c[2])) = 1
<1> DEFINE l == Len(Side(files, c[1]))
           r == Len(Side(files, c[2]))
           Unclear(spec) == Ambiguous(spec, Replicas(files, spec.name))
           Clear(spec) == Cardinality(Means(spec)) > 1 => Len(spec.ports) = 1
<1>1. /\ c[1] \in PortSpec /\ c[2] \in PortSpec /\ Range(c) = {c[1], c[2]}
      /\ Means(c[1]) # {} /\ Means(c[2]) # {}
  BY ConnectionsEnabled
<1>2. /\ Places(c[1]) = 1..l /\ Cardinality(Places(c[1])) = l
      /\ Places(c[2]) = 1..r /\ Cardinality(Places(c[2])) = r
  BY <1>1, SideWritten
<1>3. \A spec \in Range(c) : Unclear(spec) <=> ~Clear(spec)
  BY <1>1, SideWritten
<1>4. Places(c[1]) = Places(c[2]) <=> l = r
  BY <1>2
<1>5. ConnectionFails(files, c) <=>
        (\E spec \in Range(c) : Unclear(spec)) \/ (l # r /\ l # 1 /\ r # 1)
  BY DEF ConnectionFails
<1> HIDE DEF l, r, Unclear
<1> QED
  BY <1>2, <1>3, <1>4, <1>5

\* The item of a side at a place, stretched or not, is its end at that place.
LEMMA EndsAreAt ==
    ASSUME files \in Files, CountsAgree, NEW spec \in PortSpec, Means(spec) # {},
           NEW size, Len(Side(files, spec)) \in {size, 1}, NEW n \in 1..size
    PROVE  At(Side(files, spec), size, n) = EndAt(spec, n)
<1> DEFINE s == Side(files, spec)
<1>1. /\ Places(spec) = 1..Len(s)
      /\ \A m \in Places(spec) : EndAt(spec, m) = s[m]
      /\ Len(s) = 1 => \A m : EndAt(spec, m) = s[1]
  BY SideWritten
<1> HIDE DEF s
<1>2. CASE Len(s) = size
  <2>1. EndAt(spec, n) = s[n]
    BY <1>1, <1>2
  <2> QED
    BY <1>2, <2>1 DEF At, s
<1>3. CASE Len(s) # size
  <2>1. EndAt(spec, n) = s[1]
    BY <1>1, <1>3 DEF s
  <2> QED
    BY <1>3, <2>1 DEF At, s
<1> QED
  BY <1>2, <1>3

\* A connection is expanded to the links of its places.
LEMMA PairsWritten ==
    ASSUME files \in Files, CountsAgree, NEW c \in WrittenConnections, ~ConnectionFails(files, c)
    PROVE  \A x : x \in Range(Pairs(Side(files, c[1]), Side(files, c[2]))) <=>
                \E n \in Places(c[1]) \cup Places(c[2]) : x = <<EndAt(c[1], n), EndAt(c[2], n)>>
<1> DEFINE l == Side(files, c[1])
           r == Side(files, c[2])
           size == SizeOf(l, r)
<1>1. /\ c[1] \in PortSpec /\ c[2] \in PortSpec
      /\ Means(c[1]) # {} /\ Means(c[2]) # {}
  BY ConnectionsEnabled
<1>2. /\ Len(l) \in Nat \ {0} /\ l = [i \in 1..Len(l) |-> l[i]]
      /\ Len(r) \in Nat \ {0} /\ r = [i \in 1..Len(r) |-> r[i]]
  BY <1>1, SideIs
<1>3. Places(c[1]) = 1..Len(l) /\ Places(c[2]) = 1..Len(r)
  BY <1>1, SideWritten
<1>4. Len(l) = Len(r) \/ Len(l) = 1 \/ Len(r) = 1
  BY DEF ConnectionFails
<1> HIDE DEF l, r
<1>5. Len(l) \in {size, 1} /\ Len(r) \in {size, 1} /\ Places(c[1]) \cup Places(c[2]) = 1..size
  <2> DEFINE k == Len(l)
             m == Len(r)
  <2>1. k \in Nat \ {0} /\ m \in Nat \ {0} /\ (k = m \/ k = 1 \/ m = 1)
    BY <1>2, <1>4
  <2>2. size = IF k > m THEN k ELSE m
    BY DEF SizeOf
  <2> HIDE DEF k, m, size
  <2>3. k \in {size, 1} /\ m \in {size, 1} /\ (1..k) \cup (1..m) = 1..size
    BY <2>1, <2>2
  <2> QED
    BY <1>3, <2>3 DEF k, m
<1>6. Pairs(l, r) = [i \in 1..size |-> <<At(l, size, i), At(r, size, i)>>]
  BY <1>2, PairsAre
<1> HIDE DEF size
<1>7. \A i \in 1..size : At(l, size, i) = EndAt(c[1], i) /\ At(r, size, i) = EndAt(c[2], i)
  BY <1>1, <1>5, EndsAreAt DEF l, r
<1>8. \A x : x \in Range(Pairs(l, r)) <=> \E i \in 1..size : x = <<At(l, size, i), At(r, size, i)>>
  BY <1>6 DEF Range
<1> QED
  BY <1>5, <1>7, <1>8 DEF l, r

\* If no connection fails, what is connected one by one is what is written.
LEMMA ConnectionsWritten ==
    ASSUME files \in Files, CountsAgree, ~ConnectionsFail(files)
    PROVE  Range(Connections(files)) = WrittenLinks
<1> DEFINE Pair(c, n) == <<EndAt(c[1], n), EndAt(c[2], n)>>
           At2(c) == Places(c[1]) \cup Places(c[2])
           Expanded(c) == Range(Pairs(Side(files, c[1]), Side(files, c[2])))
<1>1. \A c : c \in WrittenConnections <=> c \in Range(AllConnections(files)) /\ Enabled(files, c)
  BY ConnectionsEnabled
<1>2. \A c \in WrittenConnections : ~ConnectionFails(files, c)
  BY <1>1 DEF ConnectionsFail
<1>3. \A c \in WrittenConnections : \A x : x \in Expanded(c) <=> \E n \in At2(c) : x = Pair(c, n)
  BY <1>2, PairsWritten
<1>4. \A x : x \in Range(Connections(files)) <=>
        \E c \in Range(AllConnections(files)) : Enabled(files, c) /\ x \in Expanded(c)
  BY ConnectionsAre
<1>5. WrittenLinks = UNION {{Pair(c, n) : n \in At2(c)} : c \in WrittenConnections}
  BY DEF WrittenLinks
<1> HIDE DEF Pair, At2, Expanded
<1>6. \A x : x \in WrittenLinks <=> \E c \in WrittenConnections : \E n \in At2(c) : x = Pair(c, n)
  BY <1>5
<1>7. \A x : x \in Range(Connections(files)) <=> x \in WrittenLinks
  BY <1>1, <1>3, <1>4, <1>6
<1> QED
  BY <1>7

\* What is well formed of the links, apart from the rest.
LinksFormed ==
    /\ \A l \in WrittenLinks :
            /\ l[1][1] # l[2][1]
            /\ \A end \in Range(l) :
                /\ \E d \in Declared : IdOf(d) = end[1]
                /\ end[2] \in DOMAIN PortsOf[TypeOfId(end[1])]
            /\ {"out"} \subseteq {KindOf(l[1]), KindOf(l[2])}
            /\ {KindOf(l[1]), KindOf(l[2])} \cap {"in", "multi"} # {}
            /\ DataOf(l[1]) \cap DataOf(l[2]) # {}
    /\ \A l, m \in Directed : l[2] = m[2] /\ KindOf(l[2]) = "in" => l = m

\* The links can be made if the ports are there, fit and are free; and they are
\* then the written ones, the producer first.
LEMMA SpecsWritten ==
    ASSUME files \in Files, CountsAgree, ~ConnectionsFail(files), ConfigsFit(files)
    PROVE  /\ SpecsFit(files) <=> LinksFormed
           /\ SpecsFit(files) => LinksOf(files) = Directed
<1> DEFINE made == MadeOf(files)
           named == {IdOf(d) : d \in Declared}
           Ends(l) == {l[1], l[2]}
           Ported == \A l \in WrittenLinks : l[1][1] # l[2][1] /\ HasPort(made, l[1]) /\ HasPort(made, l[2])
           Matches(a, b) == /\ KindOf(a) = "out" /\ KindOf(b) \in {"in", "multi"}
                            /\ DataOf(a) \cap DataOf(b) # {}
           Matched == \A l \in Directed : Matches(l[1], l[2])
           Free == \A l, m \in Directed : l[2] = m[2] /\ KindOf(l[2]) = "in" => l = m
           Turned(l) == IF KindOf(l[1]) = "out" THEN l ELSE <<l[2], l[1]>>
<1>1. Range(Connections(files)) = WrittenLinks
  BY ConnectionsWritten
<1>2. made = [id \in named |-> TypeOfId(id)]
  BY MadeAsWritten
<1>3. \A l \in WrittenLinks : l = <<l[1], l[2]>> /\ Range(l) = Ends(l)
  <2> SUFFICES ASSUME NEW l \in WrittenLinks PROVE l = <<l[1], l[2]>> /\ Range(l) = Ends(l)
    OBVIOUS
  <2>1. PICK c \in WrittenConnections :
            \E n \in Places(c[1]) \cup Places(c[2]) : l = <<EndAt(c[1], n), EndAt(c[2], n)>>
    BY DEF WrittenLinks
  <2>2. PICK n : l = <<EndAt(c[1], n), EndAt(c[2], n)>>
    BY <2>1
  <2>3. l = <<l[1], l[2]>> /\ DOMAIN l = {1, 2}
    BY <2>2
  <2> QED
    BY <2>3 DEF Range
<1> HIDE DEF made
<1>4. \A end : HasPort(made, end) <=>
        (\E d \in Declared : IdOf(d) = end[1]) /\ end[2] \in DOMAIN PortsOf[TypeOfId(end[1])]
  <2>1. \A id : id \in DOMAIN made <=> \E d \in Declared : IdOf(d) = id
    BY <1>2
  <2>2. \A id \in DOMAIN made : made[id] = TypeOfId(id)
    BY <1>2
  <2> QED
    BY <2>1, <2>2 DEF HasPort
<1>5. \A end : HasPort(made, end) => Kind(made, end) = KindOf(end) /\ Data(made, end) = DataOf(end)
  <2>1. \A id \in DOMAIN made : made[id] = TypeOfId(id)
    BY <1>2
  <2> QED
    BY <2>1 DEF HasPort, Kind, KindOf, Data, DataOf
<1>6. Directed = {Turned(l) : l \in WrittenLinks}
  BY DEF Directed
<1>7. ASSUME Ported
      PROVE  /\ LinksOf(files) = Directed
             /\ \A l \in Directed : HasPort(made, l[1]) /\ HasPort(made, l[2])
  <2>1. LinksOf(files) = {Link(made, l[1], l[2]) : l \in WrittenLinks}
    BY <1>1 DEF LinksOf, made
  <2>2. \A l \in WrittenLinks : Link(made, l[1], l[2]) = Turned(l)
    BY <1>3, <1>5, <1>7 DEF Link
  <2>3. \A l \in WrittenLinks : HasPort(made, Turned(l)[1]) /\ HasPort(made, Turned(l)[2])
    BY <1>7
  <2> HIDE DEF Turned
  <2> QED
    BY <1>6, <2>1, <2>2, <2>3
<1>8. SpecsFit(files) <=> Ported /\ Matched /\ Free
  <2> DEFINE Fit == \A l \in LinksOf(files) :
                        /\ Kind(made, l[1]) = "out" /\ Kind(made, l[2]) \in {"in", "multi"}
                        /\ Data(made, l[1]) \cap Data(made, l[2]) # {}
                        /\ Kind(made, l[2]) = "in" => \A m \in LinksOf(files) : m[2] = l[2] => m = l
  <2>1. SpecsFit(files) <=> Ported /\ Fit
    BY <1>1 DEF SpecsFit, made
  <2>2. ASSUME Ported PROVE Fit <=> Matched /\ Free
    <3>1. \A l \in Directed : /\ Kind(made, l[1]) = KindOf(l[1]) /\ Kind(made, l[2]) = KindOf(l[2])
                              /\ Data(made, l[1]) = DataOf(l[1]) /\ Data(made, l[2]) = DataOf(l[2])
      BY <1>5, <1>7, <2>2
    <3>2. Fit <=> \A l \in Directed :
                    /\ Matches(l[1], l[2])
                    /\ KindOf(l[2]) = "in" => \A m \in Directed : m[2] = l[2] => m = l
      BY <1>7, <2>2, <3>1
    <3> HIDE DEF Fit, Ported
    <3> QED
      BY <3>2
  <2> HIDE DEF Fit, Ported, Matched, Free
  <2> QED
    BY <2>1, <2>2
<1>9. LinksFormed <=> Ported /\ Matched /\ Free
  <2> DEFINE Paired(l) == /\ {"out"} \subseteq {KindOf(l[1]), KindOf(l[2])}
                          /\ {KindOf(l[1]), KindOf(l[2])} \cap {"in", "multi"} # {}
                          /\ DataOf(l[1]) \cap DataOf(l[2]) # {}
             There(end) == (\E d \in Declared : IdOf(d) = end[1]) /\ end[2] \in DOMAIN PortsOf[TypeOfId(end[1])]
  <2>1. LinksFormed <=>
          /\ \A l \in WrittenLinks : l[1][1] # l[2][1] /\ (\A end \in Range(l) : There(end)) /\ Paired(l)
          /\ Free
    BY DEF LinksFormed
  <2>2. \A l \in WrittenLinks : (\A end \in Range(l) : There(end)) <=> HasPort(made, l[1]) /\ HasPort(made, l[2])
    BY <1>3, <1>4
  <2>3. Matched <=> \A l \in WrittenLinks : Paired(l)
    <3>1. \A l : Paired(l) <=> Matches(Turned(l)[1], Turned(l)[2])
      <4> SUFFICES ASSUME NEW l
                   PROVE  Paired(l) <=> Matches(Turned(l)[1], Turned(l)[2])
        OBVIOUS
      <4>1. CASE KindOf(l[1]) = "out"
        BY <4>1
      <4>2. CASE KindOf(l[1]) # "out"
        <5>1. Turned(l)[1] = l[2] /\ Turned(l)[2] = l[1]
          BY <4>2
        <5> HIDE DEF Turned
        <5> QED
          BY <4>2, <5>1
      <4> QED
        BY <4>1, <4>2
    <3> HIDE DEF Paired, Turned, Matches
    <3> QED
      BY <1>6, <3>1
  <2> HIDE DEF Paired, There, Free, Matched
  <2> QED
    BY <2>1, <2>2, <2>3
<1> HIDE DEF Ported, Matched, Free
<1> QED
  BY <1>7, <1>8, <1>9

\* Under CountsAgree, what can be made step by step is what is well formed.
LEMMA WellFormedCanBeMade ==
    ASSUME files \in Files, CountsAgree
    PROVE  /\ CanBeMade(files) <=> WellFormed
           /\ CanBeMade(files) => /\ MadeOf(files) = [id \in {IdOf(d) : d \in Declared} |-> TypeOfId(id)]
                                  /\ LinksOf(files) = Directed
<1> DEFINE Listed == \A w \in Written : \A n \in EntryAt(w).lists : Cardinality(Copies(EntryAt(w))) \in {1, n}
           Typed == /\ \A w \in Written : Makes(EntryAt(w).type)
                    /\ \A d, e \in Declared : IdOf(d) = IdOf(e) => d = e
           Expandable(c) ==
                /\ \A spec \in Range(c) : Cardinality(Means(spec)) > 1 => Len(spec.ports) = 1
                /\ \/ Places(c[1]) = Places(c[2])
                   \/ Cardinality(Places(c[1])) = 1 \/ Cardinality(Places(c[2])) = 1
           Connected == \A c \in WrittenConnections : Expandable(c)
<1>1. WellFormed <=> SectionsAreThere /\ Listed /\ Typed /\ Connected /\ LinksFormed
  BY Zenon DEF WellFormed, LinksFormed
<1>2. SectionsAreThere <=> /\ \A i \in DOMAIN files \ {1} : files[i].hasConnections
                           /\ files[1].hasConnections \/ ~Unconnected(files)
  BY DEF SectionsAreThere, Unconnected
<1>3. ListsFit(files) <=> Listed
  BY ListsWritten
<1>4. ConnectionsFail(files) <=> ~Connected
  <2>1. \A c : c \in WrittenConnections <=> c \in Range(AllConnections(files)) /\ Enabled(files, c)
    BY ConnectionsEnabled
  <2>2. \A c \in WrittenConnections : ~ConnectionFails(files, c) <=> Expandable(c)
    BY FailsAsWritten
  <2>3. ConnectionsFail(files) <=> \E c \in Range(AllConnections(files)) : Enabled(files, c) /\ ConnectionFails(files, c)
    BY DEF ConnectionsFail
  <2> HIDE DEF Expandable
  <2> QED
    BY <2>1, <2>2, <2>3
<1>5. ConfigsFit(files) <=> Typed
  BY ConfigsWritten
<1> HIDE DEF Listed, Typed, Connected
<1>6. ~CreateGraphFails(files) <=> SectionsAreThere /\ Listed /\ Connected
  BY <1>2, <1>3, <1>4 DEF CreateGraphFails
<1>7. ASSUME Connected, Typed PROVE SpecsFit(files) <=> LinksFormed
  BY <1>4, <1>5, <1>7, SpecsWritten
<1>8. CanBeMade(files) <=> WellFormed
  BY <1>1, <1>5, <1>6, <1>7 DEF CanBeMade
<1>9. ASSUME CanBeMade(files)
      PROVE  /\ MadeOf(files) = [id \in {IdOf(d) : d \in Declared} |-> TypeOfId(id)]
             /\ LinksOf(files) = Directed
  <2>1. ~ConnectionsFail(files) /\ ConfigsFit(files) /\ SpecsFit(files)
    BY <1>9 DEF CanBeMade, CreateGraphFails
  <2> QED
    BY <2>1, MadeAsWritten, SpecsWritten
<1> QED
  BY <1>8, <1>9

\* For every configuration, every number of libraries and every kind of port:
\* createGraph() returns exactly the proxels and the connections that the files
\* describe, and throws exactly when the files are not well formed, whichever of
\* its steps finds out (createGraph(), FactoryMap, Graph::connect() and the yaml
\* module).
THEOREM GraphStaysAsWritten == Spec => []GraphIsWhatIsWritten
<1>1. files \in Files /\ FactoryInv => GraphIsWhatIsWritten
  <2> SUFFICES ASSUME files \in Files, FactoryInv, CountsAgree
               PROVE  /\ stage = "created" =>
                            /\ WellFormed
                            /\ proxels = [id \in {IdOf(d) : d \in Declared} |-> TypeOfId(id)]
                            /\ links = Directed
                      /\ stage = "failed" => ~WellFormed
    BY DEF GraphIsWhatIsWritten
  <2>1. ASSUME stage = "created"
        PROVE  /\ WellFormed
               /\ proxels = [id \in {IdOf(d) : d \in Declared} |-> TypeOfId(id)]
               /\ links = Directed
    <3>1. proxels = MadeOf(files) /\ links = LinksOf(files) /\ CanBeMade(files)
      BY <2>1, CreatedIsAll
    <3> QED
      BY <3>1, WellFormedCanBeMade
  <2>2. stage = "failed" => ~WellFormed
    BY WellFormedCanBeMade DEF FactoryInv
  <2> QED
    BY <2>1, <2>2
<1> QED
  BY <1>1, FactorySafety, PTL

\* In each state the DOT file of the same files shows the graph.
LEMMA DotIsTheGraph == files \in Files /\ FactoryInv => DotShowsTheGraph
<1> SUFFICES ASSUME files \in Files, FactoryInv, stage = "created"
             PROVE  IF files[1].hasConnections /\ \E i \in DOMAIN files : files[i].connections # <<>>
                    THEN /\ ~GenerateDOTFileFails(files)
                         /\ DotNodes(files) = DOMAIN proxels \cup
                                {e.name : e \in {f \in EnabledEntries(files) : f.replicate > 1}}
                         /\ links = (DotEdges(files) \ Backwards) \cup {<<c[2], c[1]>> : c \in Backwards}
                         /\ links \cap Backwards = {}
                         /\ CountsAgree => DotEdges(files) = WrittenLinks
                    ELSE GenerateDOTFileFails(files)
  BY DEF DotShowsTheGraph
<1> DEFINE Bases == {e.name : e \in {f \in EnabledEntries(files) : f.replicate > 1}}
           all == Range(Connections(files))
<1>1. proxels = MadeOf(files) /\ links = LinksOf(files) /\ ~CreateGraphFails(files) /\ SpecsFit(files)
  BY CreatedIsAll DEF CanBeMade
<1>2. /\ \A i \in DOMAIN files \ {1} : files[i].hasConnections
      /\ ~ConnectionsFail(files)
  BY <1>1 DEF CreateGraphFails
<1>3. 1 \in DOMAIN files
  BY FilesTyped
<1>4. ASSUME files[1].hasConnections, \E i \in DOMAIN files : files[i].connections # <<>>
      PROVE  ~GenerateDOTFileFails(files)
  BY <1>2, <1>4 DEF GenerateDOTFileFails, Unconnected
<1>5. ASSUME ~(files[1].hasConnections /\ \E i \in DOMAIN files : files[i].connections # <<>>)
      PROVE  GenerateDOTFileFails(files)
  BY <1>3, <1>5 DEF GenerateDOTFileFails, Unconnected
<1>6. DotNodes(files) = DOMAIN proxels \cup Bases
  <2>1. DotNodes(files) = ProxelNames(files) \cup UNION {{c[1][1], c[2][1]} : c \in all}
    BY DEF DotNodes
  <2>2. \A c \in all : {c[1][1], c[2][1]} \subseteq DOMAIN proxels
    BY <1>1 DEF SpecsFit, HasPort
  <2>3. \A x : x \in ProxelNames(files) <=> x \in DOMAIN proxels \/ x \in Bases
    BY <1>1, NamesAndBases, MadeAreDeclared
  <2> HIDE DEF all, Bases
  <2> QED
    BY <2>1, <2>2, <2>3
<1>7. links = (DotEdges(files) \ Backwards) \cup {<<c[2], c[1]>> : c \in Backwards}
  <2>1. links = {Link(proxels, c[1], c[2]) : c \in all}
    BY <1>1 DEF LinksOf
  <2>2. \A c \in all : c = <<c[1], c[2]>>
    BY ConnectionsArePairs
  <2>3. \A c \in all : Link(proxels, c[1], c[2]) = IF c \in Backwards THEN <<c[2], c[1]>> ELSE c
    BY <2>2 DEF Link, Backwards, DotEdges
  <2>4. DotEdges(files) = all /\ Backwards \subseteq all
    BY DEF Backwards, DotEdges
  <2>5. \A x : x \in links <=> \E c \in all : x = IF c \in Backwards THEN <<c[2], c[1]>> ELSE c
    BY <2>1, <2>3
  <2> HIDE DEF all
  <2>6. \A x : x \in {<<c[2], c[1]>> : c \in Backwards} <=> \E c \in Backwards : x = <<c[2], c[1]>>
    OBVIOUS
  <2>7. \A x : x \in links <=> x \in all \ Backwards \/ x \in {<<c[2], c[1]>> : c \in Backwards}
    BY <2>4, <2>5, <2>6
  <2> QED
    BY <2>4, <2>7
<1>8. links \cap Backwards = {}
  BY <1>1 DEF SpecsFit, Backwards
<1>9. CountsAgree => DotEdges(files) = WrittenLinks
  BY <1>2, ConnectionsWritten DEF DotEdges
<1> QED
  BY <1>4, <1>5, <1>6, <1>7, <1>8, <1>9

\* For every configuration, whenever createGraph() has made a graph the DOT file of
\* the same files shows it: the proxels with the base names of the replicated ones,
\* and the connections, those that are written consumer first the wrong way round
\* (GraphViz and generateDOTFile() beside createGraph()).
THEOREM DotStaysTheGraph == Spec => []DotShowsTheGraph
<1>1. files \in Files /\ FactoryInv => DotShowsTheGraph
  BY DotIsTheGraph
<1> QED
  BY <1>1, FactorySafety, PTL

=============================================================================
