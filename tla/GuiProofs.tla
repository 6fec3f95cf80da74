----------------------------- MODULE GuiProofs ------------------------------
(***************************************************************************)
(* Theorems about GraphGui, for every graph that createGraph() makes of    *)
(* the watched configurations, every number of ports and every size of the *)
(* screen.                                                                 *)
(***************************************************************************)
EXTENDS GraphGui, FiniteSetTheorems, WellFoundedInduction, TLAPS

\* A set of numbers that does not go beyond a bound has a largest one.
LEMMA BoundedHasMax ==
    ASSUME NEW S \in SUBSET Nat, S # {}, NEW b \in Nat, \A n \in S : n <= b
    PROVE  Max(S) \in S /\ \A n \in S : n <= Max(S)
<1> DEFINE Bounds == {u \in Nat : \A n \in S : n <= u}
<1>1. PICK u \in Bounds : \A v \in Bounds : <<v, u>> \notin OpToRel(<, Nat)
  <2>1. Bounds \subseteq Nat /\ b \in Bounds
    OBVIOUS
  <2> HIDE DEF Bounds
  <2> QED
    BY <2>1, NatLessThanWellFounded, WFMin
<1>2. u \in Nat /\ \A n \in S : n <= u
  BY <1>1
<1>3. u \in S
  <2> SUFFICES ASSUME u \notin S PROVE FALSE
    OBVIOUS
  <2>1. \A n \in S : n < u
    BY <1>2
  <2>2. u - 1 \in Nat /\ \A n \in S : n <= u - 1
    <3>1. PICK s \in S : s \in Nat
      OBVIOUS
    <3>2. u # 0
      BY <1>2, <2>1, <3>1
    <3>3. \A n \in S : n \in Nat
      OBVIOUS
    <3> QED
      BY <1>2, <2>1, <3>2, <3>3
  <2>3. u - 1 \in Bounds /\ u - 1 < u
    BY <1>2, <2>2
  <2>4. <<u - 1, u>> \in OpToRel(<, Nat)
    BY <1>2, <2>2, <2>3 DEF OpToRel
  <2> QED
    BY <1>1, <2>3, <2>4
<1>4. \E x \in S : \A y \in S : x >= y
  BY <1>2, <1>3
<1>5. Max(S) \in S /\ \A y \in S : Max(S) >= y
  BY <1>4 DEF Max
<1> QED
  BY <1>5

\* Finitely many numbers have a bound: the smallest place of an enumeration up to which there
\* is none cannot be.
LEMMA FiniteIsBounded ==
    ASSUME NEW S, IsFiniteSet(S), NEW g \in [S -> Nat]
    PROVE  \E b \in Nat : \A s \in S : g[s] <= b
<1>1. Cardinality(S) \in Nat /\ ExistsBijection(1..Cardinality(S), S)
  BY FS_CardinalityType
<1> DEFINE N == Cardinality(S)
<1> HIDE DEF N
<1>2. PICK f \in Bijection(1..N, S) : TRUE
  BY <1>1 DEF ExistsBijection, N
<1>3. f \in [1..N -> S] /\ \A s \in S : \E i \in 1..N : f[i] = s
  BY <1>2 DEF Bijection, Surjection, Injection
<1>n. N \in Nat
  BY <1>1 DEF N
<1> DEFINE Unbounded == {k \in 0..N : ~\E b \in Nat : \A i \in 1..k : g[f[i]] <= b}
<1>4. Unbounded = {}
  <2> SUFFICES ASSUME Unbounded # {} PROVE FALSE
    OBVIOUS
  <2>1. Unbounded \subseteq Nat
    BY <1>1 DEF N
  <2>2. PICK k \in Unbounded : \A m \in Unbounded : <<m, k>> \notin OpToRel(<, Nat)
    <3> HIDE DEF Unbounded
    <3> QED
      BY <2>1, NatLessThanWellFounded, WFMin
  <2>3. k \in 0..N /\ ~\E b \in Nat : \A i \in 1..k : g[f[i]] <= b
    BY <2>2
  <2>4. k # 0
    <3> SUFFICES ASSUME k = 0 PROVE FALSE
      OBVIOUS
    <3>1. \A i \in 1..k : g[f[i]] <= 0
      OBVIOUS
    <3> QED
      BY <2>3, <3>1
  <2>5. /\ k - 1 \in 0..N /\ k \in 1..N
        /\ k - 1 \in Nat /\ k \in Nat /\ k - 1 < k
    BY <1>n, <2>3, <2>4
  <2>6. k - 1 \notin Unbounded
    <3>1. <<k - 1, k>> \in OpToRel(<, Nat)
      BY <2>5 DEF OpToRel
    <3> HIDE DEF Unbounded
    <3> QED
      BY <2>2, <3>1
  <2>7. PICK b \in Nat : \A i \in 1..(k - 1) : g[f[i]] <= b
    BY <2>5, <2>6
  <2> HIDE DEF Unbounded
  <2>8. g[f[k]] \in Nat
    BY <1>3, <2>5
  <2>9. ASSUME NEW i \in 1..k PROVE g[f[i]] <= b + g[f[k]]
    <3>1. g[f[i]] \in Nat
      <4>1. i \in 1..N
        BY <1>n, <2>5
      <4> QED
        BY <1>3, <4>1
    <3>2. CASE i = k
      BY <2>7, <2>8, <3>2
    <3>3. CASE i # k
      <4>1. i \in 1..(k - 1)
        BY <1>n, <2>5, <3>3
      <4>2. g[f[i]] <= b
        BY <2>7, <4>1
      <4> QED
        BY <2>7, <2>8, <3>1, <4>2
    <3> QED
      BY <3>2, <3>3
  <2>10. b + g[f[k]] \in Nat
    BY <2>7, <2>8
  <2> QED
    BY <2>3, <2>9, <2>10
<1>5. PICK b \in Nat : \A i \in 1..N : g[f[i]] <= b
  <2>1. N \in 0..N
    BY <1>n
  <2>2. N \notin Unbounded
    BY <1>4
  <2> QED
    BY <2>1, <2>2
<1> QED
  BY <1>3, <1>5

-----------------------------------------------------------------------------
\* What is left of a row, divided among its columns.
LEMMA WidthFits ==
    ASSUME NEW cols \in Nat \ {0}, NEW width \in Int
    PROVE  /\ WindowWidth(cols, width) \in Int
           /\ WindowWidth(cols, width) > 0 =>
                cols * WindowWidth(cols, width) <= width - (cols + 1) * HPadding
<1> DEFINE rest == width - (cols + 1) * HPadding
<1>1. rest \in Int
  BY DEF HPadding
<1> HIDE DEF rest
<1>2. CASE rest >= 0
  <2>1. WindowWidth(cols, width) = rest \div cols
    BY <1>2 DEF WindowWidth, rest
  <2>2. rest \div cols \in Nat /\ cols * (rest \div cols) <= rest
    BY <1>1, <1>2
  <2> QED
    BY <2>1, <2>2 DEF rest
<1>3. CASE ~(rest >= 0)
  <2>1. WindowWidth(cols, width) = 0 - ((0 - rest) \div cols)
    BY <1>3 DEF WindowWidth, rest
  <2>2. (0 - rest) \div cols \in Nat
    BY <1>1, <1>3
  <2> QED
    BY <2>1, <2>2
<1> QED
  BY <1>2, <1>3

\* The columns are wide enough, unless there is but one.
LEMMA ColumnsAreWide ==
    ASSUME NEW num \in Nat, NEW width \in Int, NEW minimum \in Nat
    PROVE  /\ NumCols(num, width, minimum) \in Nat \ {0}
           /\ NumCols(num, width, minimum) # 1 =>
                WindowWidth(NumCols(num, width, minimum), width) >= minimum
<1> DEFINE S == {1} \cup {c \in 2..num : WindowWidth(c, width) >= minimum}
<1>1. S \in SUBSET Nat /\ S # {} /\ \A n \in S : n <= num + 1
  OBVIOUS
<1>2. NumCols(num, width, minimum) = Max(S)
  BY DEF NumCols
<1>3. \A c \in S : c \in Nat \ {0} /\ (c # 1 => WindowWidth(c, width) >= minimum)
  OBVIOUS
<1>4. Max(S) \in S
  <2>1. num + 1 \in Nat
    OBVIOUS
  <2> HIDE DEF S
  <2> QED
    BY <1>1, <2>1, BoundedHasMax
<1> HIDE DEF S
<1> QED
  BY <1>2, <1>3, <1>4

\* The window is as wide as the boxes of its ports.
LEMMA PortsFit ==
    ASSUME NEW names, IsFiniteSet(names), NEW ports \in [names -> Nat]
    PROVE  /\ MaxNumPorts(ports) \in Nat
           /\ \A n \in names :
                (IF MaxPortsShown > 0 /\ ports[n] > MaxPortsShown THEN MaxPortsShown ELSE ports[n])
                    <= MaxNumPorts(ports)
<1> DEFINE S == {0} \cup {ports[n] : n \in names}
<1>2. S \in SUBSET Nat /\ S # {} /\ \A n \in names : ports[n] \in S
  OBVIOUS
<1>3. PICK b \in Nat : \A n \in names : ports[n] <= b
  BY FiniteIsBounded
<1>4. \A n \in S : n <= b
  BY <1>3
<1>5. MaxNumPorts(ports) =
        IF MaxPortsShown > 0 /\ Max(S) > MaxPortsShown THEN MaxPortsShown ELSE Max(S)
  <2>1. DOMAIN ports = names
    OBVIOUS
  <2> QED
    BY <2>1 DEF MaxNumPorts
<1>6. Max(S) \in S /\ \A n \in S : n <= Max(S)
  <2> HIDE DEF S
  <2> QED
    BY <1>2, <1>3, <1>4, BoundedHasMax
<1> QED
  BY <1>2, <1>5, <1>6, GuiAssumption

\* The width that a window needs.
LEMMA MinimumIsEnough ==
    ASSUME NEW names, IsFiniteSet(names), NEW ports \in [names -> Nat]
    PROVE  /\ MinimumWindowWidth(ports) \in Nat
           /\ MinimumWindowWidth(ports) >= 20
           /\ MinimumWindowWidth(ports) >= 2 + MaxNumPorts(ports) * PortWidth
<1> DEFINE m == 2 + MaxNumPorts(ports) * PortWidth
<1>1. m \in Nat
  BY PortsFit DEF PortWidth
<1> HIDE DEF m
<1>2. {m, 20} \in SUBSET Nat /\ {m, 20} # {} /\ \A n \in {m, 20} : n <= m + 20
  BY <1>1
<1>3. Max({m, 20}) \in {m, 20} /\ \A n \in {m, 20} : n <= Max({m, 20})
  BY <1>1, <1>2, BoundedHasMax
<1> QED
  BY <1>1, <1>3 DEF MinimumWindowWidth, m

\* Two names have two places.
LEMMA PlacesDiffer ==
    ASSUME NEW names \in SUBSET Names, NEW m \in names, NEW n \in names, m # n
    PROVE  PlaceAmong(names, m) \in Nat /\ PlaceAmong(names, m) # PlaceAmong(names, n)
<1> DEFINE Before(k) == {l \in names : NamePlace[l] < NamePlace[k]}
<1>1. IsFiniteSet(names)
  BY GuiAssumption, FS_Subset
<1>2. \A k \in names : IsFiniteSet(Before(k)) /\ Cardinality(Before(k)) \in Nat
  <2> SUFFICES ASSUME NEW k \in names PROVE IsFiniteSet(Before(k)) /\ Cardinality(Before(k)) \in Nat
    OBVIOUS
  <2>1. Before(k) \in SUBSET names
    OBVIOUS
  <2> HIDE DEF Before
  <2> QED
    BY <1>1, <2>1, FS_Subset, FS_CardinalityType
<1>3. ASSUME NEW j \in names, NEW k \in names, NamePlace[j] < NamePlace[k]
      PROVE  Cardinality(Before(j)) # Cardinality(Before(k))
  <2>1. Before(j) \in SUBSET Before(k) /\ Before(j) # Before(k)
    BY <1>3, GuiAssumption
  <2> HIDE DEF Before
  <2> QED
    BY <1>2, <2>1, FS_Subset
<1>4. NamePlace[m] < NamePlace[n] \/ NamePlace[n] < NamePlace[m]
  BY GuiAssumption
<1> QED
  BY <1>2, <1>3, <1>4 DEF PlaceAmong

-----------------------------------------------------------------------------
\* Two windows are in different rows, or in different columns of one row.
LEMMA WindowsAreApart ==
    ASSUME NEW cols \in Nat \ {0}, NEW w \in Int, cols # 1 => w >= 0,
           NEW i \in Nat, NEW j \in Nat, i # j
    PROVE  \/ Window(i, cols, w).y + 12 <= Window(j, cols, w).y
           \/ Window(j, cols, w).y + 12 <= Window(i, cols, w).y
           \/ /\ cols # 1
              /\ \/ Window(i, cols, w).x + w + 2 <= Window(j, cols, w).x
                 \/ Window(j, cols, w).x + w + 2 <= Window(i, cols, w).x
<1> DEFINE q(k) == k \div cols
           r(k) == k % cols
<1>1. \A k \in Nat : k = cols * q(k) + r(k) /\ q(k) \in Nat /\ r(k) \in 0..(cols - 1)
  OBVIOUS
<1>r. \A k \in Nat : r(k) \in 0..(cols - 1)
  OBVIOUS
<1>2. \A k \in Nat : /\ Window(k, cols, w).y = 12 * q(k) + 4
                     /\ Window(k, cols, w).x = 2 * (r(k) + 1) + r(k) * w
  <2> SUFFICES ASSUME NEW k \in Nat
               PROVE  /\ Window(k, cols, w).y = 12 * q(k) + 4
                      /\ Window(k, cols, w).x = 2 * (r(k) + 1) + r(k) * w
    OBVIOUS
  <2>1. /\ Window(k, cols, w).y = (q(k) + 1) * 4 + q(k) * 8
        /\ Window(k, cols, w).x = (r(k) + 1) * 2 + r(k) * w
    BY DEF Window, HPadding, VPadding, WindowHeight, InnerHeight
  <2>2. q(k) \in Nat /\ r(k) \in Nat
    BY <1>1
  <2> HIDE DEF q, r
  <2> QED
    BY <2>1, <2>2
<1> HIDE DEF q, r
<1>3. CASE q(i) # q(j)
  <2>1. q(i) \in Nat /\ q(j) \in Nat
    BY <1>1
  <2>2. q(i) + 1 <= q(j) \/ q(j) + 1 <= q(i)
    BY <1>3, <2>1
  <2>3. Window(i, cols, w).y = 12 * q(i) + 4 /\ Window(j, cols, w).y = 12 * q(j) + 4
    BY <1>2
  <2> QED
    BY <2>1, <2>2, <2>3
<1>4. CASE q(i) = q(j)
  <2>1. r(i) # r(j)
    <3>1. i = cols * q(i) + r(i) /\ j = cols * q(j) + r(j)
      BY <1>1
    <3> QED
      BY <1>4, <3>1
  <2>2. cols # 1
    <3>1. r(i) \in 0..(cols - 1) /\ r(j) \in 0..(cols - 1)
      BY <1>r
    <3> QED
      BY <2>1, <3>1
  <2>3. w \in Nat
    BY <2>2
  <2>4. ASSUME NEW a \in Nat, NEW b \in Nat, a < b
        PROVE  2 * (a + 1) + a * w + w + 2 <= 2 * (b + 1) + b * w
    <3>1. b * w >= a * w + w
      BY <2>3, <2>4
    <3>2. a * w \in Nat /\ b * w \in Nat
      BY <2>3
    <3> QED
      BY <2>3, <2>4, <3>1, <3>2
  <2>5. r(i) \in Nat /\ r(j) \in Nat /\ (r(i) < r(j) \/ r(j) < r(i))
    BY <1>r, <2>1
  <2> QED
    BY <1>2, <2>2, <2>4, <2>5
<1> QED
  BY <1>3, <1>4

\* A window is on the screen, unless there is one column only.
LEMMA WindowIsOnScreen ==
    ASSUME NEW cols \in Nat \ {0}, NEW width \in Nat, NEW i \in Nat,
           cols # 1, WindowWidth(cols, width) > 0
    PROVE  /\ Window(i, cols, WindowWidth(cols, width)).x \in Nat
           /\ Window(i, cols, WindowWidth(cols, width)).x + WindowWidth(cols, width) <= width
<1> DEFINE w == WindowWidth(cols, width)
           r == i % cols
<1>1. w \in Nat /\ cols * w <= width - (cols + 1) * 2
  BY WidthFits DEF HPadding
<1>2. r \in Nat /\ r + 1 <= cols
  OBVIOUS
<1>3. Window(i, cols, w).x = (r + 1) * 2 + r * w
  BY DEF Window, HPadding
<1> HIDE DEF w, r
<1>4. (r + 1) * w <= cols * w /\ (r + 1) * w = r * w + w /\ r * w \in Nat
  BY <1>1, <1>2
<1>5. (r + 1) * 2 + r * w + w <= width
  BY <1>1, <1>2, <1>4
<1> QED
  BY <1>1, <1>2, <1>3, <1>4, <1>5 DEF w

\* The windows are those of the statuses and of the present size.
IsLaid ==
    /\ DOMAIN view.statuses \subseteq Names
    /\ view.statuses \in [DOMAIN view.statuses -> Nat]
    /\ view.size[1] \in Nat
    /\ view.windows =
        CreateWindows(DOMAIN view.statuses, view.size[1], MinimumWindowWidth(view.statuses))

\* Windows that are laid out for the present statuses and size do not overlap, nor do
\* the ports under them, and they stay on the screen.
LEMMA LaidIsTidy == IsLaid => Tidy
<1> SUFFICES ASSUME IsLaid PROVE Tidy
  OBVIOUS
<1> DEFINE names == DOMAIN view.statuses
           ports == view.statuses
           width == view.size[1]
           minimum == MinimumWindowWidth(ports)
           cols == NumCols(Cardinality(names), width, minimum)
           w == WindowWidth(cols, width)
           At(n) == PlaceAmong(names, n)
<1>1. names \in SUBSET Names /\ ports \in [names -> Nat] /\ width \in Nat
  BY DEF IsLaid
<1>2. view.windows = [n \in names |-> Window(At(n), cols, w)]
  BY DEF IsLaid, CreateWindows
<1>3. IsFiniteSet(names) /\ Cardinality(names) \in Nat
  BY <1>1, GuiAssumption, FS_Subset, FS_CardinalityType
<1>4. \A n \in names : At(n) \in Nat
  <2> SUFFICES ASSUME NEW n \in names PROVE At(n) \in Nat
    OBVIOUS
  <2>1. {m \in names : NamePlace[m] < NamePlace[n]} \in SUBSET names
    OBVIOUS
  <2> QED
    BY <1>3, <2>1, FS_Subset, FS_CardinalityType DEF PlaceAmong
<1>5. \A m, n \in names : m # n => At(m) # At(n)
  BY <1>1, PlacesDiffer
<1>6. /\ minimum \in Nat /\ minimum >= 20 /\ MaxNumPorts(ports) \in Nat
      /\ minimum >= 2 + MaxNumPorts(ports) * 10
      /\ \A n \in names : PortsOfWindow(n) <= MaxNumPorts(ports) /\ PortsOfWindow(n) \in Nat
  BY <1>1, <1>3, MinimumIsEnough, PortsFit, GuiAssumption DEF PortWidth, PortsOfWindow
<1> HIDE DEF names, ports, width, minimum
<1>7. cols \in Nat \ {0} /\ (cols # 1 => w >= minimum)
  BY <1>1, <1>3, <1>6, ColumnsAreWide
<1> HIDE DEF cols
<1>8. w \in Int /\ (cols # 1 => w >= 20 /\ w \in Nat)
  BY <1>1, <1>6, <1>7, WidthFits
<1> HIDE DEF w, At
<1>9. \A n \in names : view.windows[n] = Window(At(n), cols, w)
  BY <1>2
<1>10. \A n \in names :
        /\ view.windows[n].width = w
        /\ view.windows[n].x = ((At(n) % cols) + 1) * 2 + (At(n) % cols) * w
        /\ view.windows[n].x \in Int /\ view.windows[n].y \in Int
        /\ Rows(n) = view.windows[n].y..(view.windows[n].y + 10)
  <2> SUFFICES ASSUME NEW n \in names
               PROVE  /\ view.windows[n].width = w
                      /\ view.windows[n].x = ((At(n) % cols) + 1) * 2 + (At(n) % cols) * w
                      /\ view.windows[n].x \in Int /\ view.windows[n].y \in Int
                      /\ Rows(n) = view.windows[n].y..(view.windows[n].y + 10)
    OBVIOUS
  <2> DEFINE r == At(n) % cols
             q == At(n) \div cols
  <2>1. r \in Int /\ q \in Int
    BY <1>4, <1>7
  <2>2. r * w \in Int
    BY <1>8, <2>1
  <2>3. /\ view.windows[n].width = w
        /\ view.windows[n].x = (r + 1) * 2 + r * w
        /\ view.windows[n].y = (q + 1) * 4 + q * 8
    <3>1. /\ view.windows[n].width = w
          /\ view.windows[n].x = (r + 1) * 2 + r * w
          /\ view.windows[n].y = (q + 1) * 4 + q * (6 + 2)
      <4>1. view.windows[n] = Window(At(n), cols, w)
        BY <1>9
      <4>2. /\ Window(At(n), cols, w).width = w
            /\ Window(At(n), cols, w).x = (r + 1) * 2 + r * w
            /\ Window(At(n), cols, w).y = (q + 1) * 4 + q * (6 + 2)
        BY <1>4, <1>7, <1>8 DEF Window, HPadding, VPadding, WindowHeight, InnerHeight
      <4> QED
        BY <4>1, <4>2
    <3> HIDE DEF r, q
    <3> QED
      BY <2>1, <3>1
  <2>4. Rows(n) = view.windows[n].y..(view.windows[n].y + 6 + 4)
    BY DEF Rows, InnerHeight
  <2>5. view.windows[n].x \in Int /\ view.windows[n].y \in Int
    <3> HIDE DEF r, q
    <3> QED
      BY <2>1, <2>2, <2>3
  <2>6. view.windows[n].y + 6 + 4 = view.windows[n].y + 10
    BY <2>5
  <2> QED
    BY <2>3, <2>4, <2>5, <2>6
\* Beyond a window of several columns, its ports do not reach.
<1>11. ASSUME cols # 1, NEW n \in names
       PROVE  /\ view.windows[n].x \in Nat /\ view.windows[n].x + w <= width
              /\ Columns(n) \subseteq view.windows[n].x..(view.windows[n].x + w - 1)
  <2> DEFINE x == view.windows[n].x
             p == PortsOfWindow(n)
  <2>1. x \in Nat /\ x + w <= width
    BY <1>1, <1>4, <1>7, <1>8, <1>9, <1>11, WindowIsOnScreen DEF w
  <2>2. p \in Nat /\ p * 10 <= w - 2
    BY <1>6, <1>7, <1>8, <1>11
  <2>3. Columns(n) = x..Max({x + w - 1, x + p * 10})
    BY <1>10 DEF Columns, PortWidth
  <2> HIDE DEF x, p
  <2>4. x + w - 1 \in Nat /\ x + p * 10 \in Nat /\ x + p * 10 <= x + w - 1
    BY <1>8, <1>11, <2>1, <2>2
  <2>5. Max({x + w - 1, x + p * 10}) \in {x + w - 1, x + p * 10}
    <3>1. {x + w - 1, x + p * 10} \in SUBSET Nat
      BY <2>4
    <3>2. \A k \in {x + w - 1, x + p * 10} : k <= x + w - 1
      BY <2>4
    <3> QED
      BY <2>4, <3>1, <3>2, BoundedHasMax
  <2> QED
    BY <2>1, <2>3, <2>4, <2>5 DEF x
<1>12. DOMAIN view.windows = names
  BY <1>2
<1>13. ASSUME NEW m \in names, NEW n \in names, m # n
       PROVE  Columns(m) \cap Columns(n) = {} \/ Rows(m) \cap Rows(n) = {}
  <2>1. \/ view.windows[m].y + 12 <= view.windows[n].y
        \/ view.windows[n].y + 12 <= view.windows[m].y
        \/ /\ cols # 1
           /\ \/ view.windows[m].x + w + 2 <= view.windows[n].x
              \/ view.windows[n].x + w + 2 <= view.windows[m].x
    <3>1. At(m) \in Nat /\ At(n) \in Nat /\ At(m) # At(n)
      BY <1>4, <1>5, <1>13
    <3>2. cols # 1 => w >= 0
      BY <1>8
    <3>3. view.windows[m] = Window(At(m), cols, w) /\ view.windows[n] = Window(At(n), cols, w)
      BY <1>9
    <3> QED
      BY <1>7, <1>8, <3>1, <3>2, <3>3, WindowsAreApart
  <2>2. CASE view.windows[m].y + 12 <= view.windows[n].y \/ view.windows[n].y + 12 <= view.windows[m].y
    <3>1. /\ Rows(m) = view.windows[m].y..(view.windows[m].y + 10) /\ view.windows[m].y \in Int
          /\ Rows(n) = view.windows[n].y..(view.windows[n].y + 10) /\ view.windows[n].y \in Int
      BY <1>10
    <3> DEFINE a == view.windows[m].y
               b == view.windows[n].y
    <3> HIDE DEF a, b
    <3>2. a \in Int /\ b \in Int /\ (a + 12 <= b \/ b + 12 <= a)
      BY <2>2, <3>1 DEF a, b
    <3>3. (a..(a + 10)) \cap (b..(b + 10)) = {}
      BY <3>2
    <3> QED
      BY <3>1, <3>3 DEF a, b
  <2>3. ASSUME cols # 1, NEW a \in names, NEW b \in names,
               view.windows[a].x + w + 2 <= view.windows[b].x
        PROVE  Columns(a) \cap Columns(b) = {}
    <3>1. /\ Columns(a) \subseteq view.windows[a].x..(view.windows[a].x + w - 1)
          /\ Columns(b) \subseteq view.windows[b].x..(view.windows[b].x + w - 1)
          /\ view.windows[a].x \in Nat /\ view.windows[b].x \in Nat
      BY <1>11, <2>3
    <3> QED
      BY <1>8, <2>3, <3>1
  <2> QED
    BY <2>1, <2>2, <2>3
<1>14. ASSUME NEW n \in names, view.windows[n].x > HPadding, NEW k \in names
       PROVE  Columns(k) \subseteq 0..(view.size[1] - 1)
  <2>1. cols # 1
    <3> SUFFICES ASSUME cols = 1 PROVE FALSE
      OBVIOUS
    <3>1. At(n) % cols = 0
      BY <1>4
    <3>2. view.windows[n].x = 2
      BY <1>8, <1>10, <3>1
    <3> QED
      BY <1>14, <3>2 DEF HPadding
  <2>2. /\ Columns(k) \subseteq view.windows[k].x..(view.windows[k].x + w - 1)
        /\ view.windows[k].x \in Nat /\ view.windows[k].x + w <= width
    BY <1>11, <2>1
  <2> QED
    BY <1>1, <1>8, <2>1, <2>2 DEF width
<1>15. ASSUME NEW n \in names, view.windows[n].width = 2
       PROVE  view.size[1] = 6
  <2>1. cols = 1 /\ w = 2
    BY <1>8, <1>10, <1>15
  <2>2. w = IF width - 4 >= 0 THEN (width - 4) \div 1 ELSE 0 - ((0 - (width - 4)) \div 1)
    BY <1>1, <2>1 DEF w, WindowWidth, HPadding
  <2> QED
    BY <1>1, <2>1, <2>2 DEF width
<1>16. view.windows = CreateWindows(names, view.size[1], MinimumWindowWidth(view.statuses))
  BY DEF IsLaid, names
<1> QED
  BY <1>12, <1>13, <1>14, <1>15, <1>16 DEF Tidy, names

-----------------------------------------------------------------------------
\* createGraph() makes proxels that are known, of types that a factory makes.
LEMMA KnownLemma == ProxelsKnown /\ [Next]_vars => ProxelsKnown'
<1> SUFFICES ASSUME ProxelsKnown, [Next]_vars PROVE ProxelsKnown'
  OBVIOUS
<1> SUFFICES ASSUME files' \in Watched
             PROVE  /\ configs' \in Seq([id : Names, type : STRING])
                    /\ DOMAIN proxels' \subseteq Names
                    /\ \A n \in DOMAIN proxels' : proxels'[n] \in DOMAIN Factories
  BY DEF ProxelsKnown
<1>1. files' = files
  BY DEF Next, CreateGraph, Parse, ParseThrows, CreateProxel, CreateThrows, BeginConnect, Connect, ConnectThrows,
     ReturnGraph, Throws, Gui, ReadStatuses, Draw, Resize, Crash, graphVars, vars
<1>2. /\ configs \in Seq([id : Names, type : STRING])
      /\ DOMAIN proxels \subseteq Names
      /\ \A n \in DOMAIN proxels : proxels[n] \in DOMAIN Factories
  BY <1>1 DEF ProxelsKnown
<1>3. CASE Parse
  <2>1. configs' = ProxelConfigs(files) /\ ~CreateGraphFails(files) /\ proxels' = proxels
    BY <1>3 DEF Parse
  <2> QED
    BY <1>1, <1>2, <2>1, GuiAssumption
<1>4. CASE Throws
  BY <1>4 DEF Throws, Nothing
<1>5. CASE CreateProxel
  <2> DEFINE config == Head(configs)
  <2>1. /\ configs # <<>> /\ CanCreate(config) /\ configs' = Tail(configs)
        /\ proxels' = [id \in DOMAIN proxels \cup {config.id} |->
                IF id \in DOMAIN proxels THEN proxels[id] ELSE config.type]
    BY <1>5 DEF CreateProxel
  <2>2. config \in [id : Names, type : STRING] /\ Tail(configs) \in Seq([id : Names, type : STRING])
    <3> DEFINE Configs == [id : Names, type : STRING]
    <3>1. configs \in Seq(Configs) /\ configs # <<>>
      BY <1>2, <2>1
    <3> HIDE DEF Configs
    <3>2. Head(configs) \in Configs /\ Tail(configs) \in Seq(Configs)
      BY <3>1
    <3> QED
      BY <3>2 DEF Configs
  <2>3. config.id \in Names /\ config.type \in DOMAIN Factories
    BY <2>1, <2>2 DEF CanCreate
  <2> HIDE DEF config
  <2> QED
    BY <1>2, <2>1, <2>2, <2>3
<1>6. CASE UNCHANGED <<configs, proxels>>
  BY <1>2, <1>6
<1> QED
  BY <1>3, <1>4, <1>5, <1>6
     DEF Next, CreateGraph, ParseThrows, CreateThrows, BeginConnect, Connect, ConnectThrows,
         ReturnGraph, Gui, ReadStatuses, Draw, Resize, Crash, graphVars, vars

\* The statuses are numbers of ports.
LEMMA StatusesLemma ==
    ASSUME ProxelsKnown, Watching, NEW blacklist
    PROVE  /\ DOMAIN Statuses(blacklist) \subseteq Names
           /\ Statuses(blacklist) \in [DOMAIN Statuses(blacklist) -> Nat]
<1>1. DOMAIN proxels \subseteq Names /\ \A n \in DOMAIN proxels : proxels[n] \in DOMAIN Factories
  BY DEF ProxelsKnown, Watching
<1>2. ASSUME NEW n \in DOMAIN proxels PROVE PortsShown(proxels[n]) \in Nat
  <2>1. IsFiniteSet(DOMAIN PortsOf[proxels[n]])
    BY <1>1, GuiAssumption
  <2>2. {p \in DOMAIN PortsOf[proxels[n]] : PortsOf[proxels[n]][p].kind # "null"} \in SUBSET DOMAIN PortsOf[proxels[n]]
    OBVIOUS
  <2> QED
    BY <2>1, <2>2, FS_Subset, FS_CardinalityType DEF PortsShown
<1> QED
  BY <1>1, <1>2 DEF Statuses

\* spinOnce() draws windows for the statuses and the present screen.
LEMMA DrawLays ==
    ASSUME ViewTyped, WindowsAreLaid, Draw
    PROVE  /\ view'.statuses = view.statuses /\ view'.screen = view.screen /\ view'.spinning = FALSE
           /\ DOMAIN view' = DOMAIN view
           /\ view'.names = DOMAIN view.statuses
           /\ view'.size = view.screen
           /\ view'.minimum = MinimumWindowWidth(view.statuses)
           /\ view'.windows =
                CreateWindows(DOMAIN view.statuses, view.screen[1], MinimumWindowWidth(view.statuses))
<1> DEFINE names == DOMAIN view.statuses
           minimum == MinimumWindowWidth(view.statuses)
           fresh == CreateWindows(names, view.screen[1], minimum)
<1>1. view' = [view EXCEPT
            !.spinning = FALSE,
            !.names = IF Changed THEN names ELSE @,
            !.size = IF Changed THEN view.screen ELSE @,
            !.minimum = IF Changed THEN minimum ELSE @,
            !.windows = [n \in DOMAIN Laid \cup names |->
                IF n \in DOMAIN Laid THEN Laid[n] ELSE [x |-> 0, y |-> 0, width |-> 0]]]
  BY DEF Draw
<1>2. ~Changed => names = view.names /\ view.screen = view.size /\ minimum = view.minimum
  BY DEF Changed
<1>3. Laid = fresh
  BY <1>2 DEF Laid, WindowsAreLaid
<1>4. fresh = [n \in names |-> fresh[n]] /\ DOMAIN fresh = names
  BY DEF CreateWindows
<1> HIDE DEF names, minimum, fresh
<1>5. [n \in DOMAIN Laid \cup names |->
            IF n \in DOMAIN Laid THEN Laid[n] ELSE [x |-> 0, y |-> 0, width |-> 0]] = fresh
  BY <1>3, <1>4
<1>6. /\ view'.statuses = view.statuses /\ view'.screen = view.screen /\ view'.spinning = FALSE
      /\ DOMAIN view' = DOMAIN view
      /\ view'.names = IF Changed THEN names ELSE view.names
      /\ view'.size = IF Changed THEN view.screen ELSE view.size
      /\ view'.minimum = IF Changed THEN minimum ELSE view.minimum
      /\ view'.windows = fresh
  BY <1>1, <1>5 DEF ViewTyped
<1> QED
  BY <1>2, <1>6 DEF names, minimum, fresh

\* Every step keeps the invariant.
LEMMA GuiInvLemma == GuiInv /\ [Next]_vars => GuiInv'
<1> SUFFICES ASSUME GuiInv, [Next]_vars PROVE GuiInv'
  OBVIOUS
<1>1. ProxelsKnown'
  BY KnownLemma DEF GuiInv
<1>2. CASE UNCHANGED view
  BY <1>1, <1>2 DEF GuiInv, ViewTyped, WindowsAreLaid
<1>3. ASSUME NEW blacklist \in Blacklists, ReadStatuses(blacklist) PROVE GuiInv'
  <2>1. view' = [view EXCEPT !.statuses = Statuses(blacklist), !.spinning = TRUE] /\ Watching
    BY <1>3 DEF ReadStatuses
  <2>2. /\ DOMAIN Statuses(blacklist) \subseteq Names
        /\ Statuses(blacklist) \in [DOMAIN Statuses(blacklist) -> Nat]
    BY <2>1, StatusesLemma DEF GuiInv
  <2> QED
    BY <1>1, <2>1, <2>2 DEF GuiInv, ViewTyped, WindowsAreLaid
<1>4. CASE Draw
  <2>1. /\ view'.statuses = view.statuses /\ view'.screen = view.screen /\ view'.spinning = FALSE
        /\ DOMAIN view' = DOMAIN view /\ view'.names = DOMAIN view.statuses
        /\ view'.size = view.screen /\ view'.minimum = MinimumWindowWidth(view.statuses)
        /\ view'.windows =
            CreateWindows(DOMAIN view.statuses, view.screen[1], MinimumWindowWidth(view.statuses))
    BY <1>4, DrawLays DEF GuiInv
  <2>2. view.screen \in Int \X Int
    BY GuiAssumption DEF GuiInv, ViewTyped
  <2>3. ViewTyped'
    BY <2>1, <2>2 DEF GuiInv, ViewTyped
  <2>4. WindowsAreLaid'
    BY <2>1 DEF WindowsAreLaid
  <2> QED
    BY <1>1, <2>3, <2>4 DEF GuiInv
<1>5. ASSUME NEW s \in Screens, Resize(s) PROVE GuiInv'
  BY <1>1, <1>5 DEF Resize, GuiInv, ViewTyped, WindowsAreLaid
<1>6. ASSUME NEW n \in DOMAIN proxels, Crash(n) PROVE GuiInv'
  BY <1>1, <1>6 DEF Crash, GuiInv, ViewTyped, WindowsAreLaid
<1> QED
  BY <1>2, <1>3, <1>4, <1>5, <1>6
     DEF Next, CreateGraph, Parse, ParseThrows, CreateProxel, CreateThrows, BeginConnect, Connect, ConnectThrows,
         ReturnGraph, Throws, Gui, vars

\* Nothing has been made, and nothing drawn.
LEMMA GuiInitLemma == Init /\ GuiInit => GuiInv
<1> SUFFICES ASSUME Init, GuiInit PROVE GuiInv
  OBVIOUS
<1>1. ProxelsKnown
  BY DEF Init, Nothing, ProxelsKnown
<1>2. ViewTyped
  BY GuiAssumption DEF GuiInit, ViewTyped
<1>3. WindowsAreLaid
  <2>1. view.windows = [n \in {} |-> [x |-> 0, y |-> 0, width |-> 0]] /\ view.names = {}
    BY DEF GuiInit, NoWindows
  <2> QED
    BY <2>1 DEF WindowsAreLaid, CreateWindows
<1> QED
  BY <1>1, <1>2, <1>3 DEF GuiInv

\* The proxels that are made have names and ports that are known, and the windows are
\* those of the names, the size and the width that the GUI remembers
\* (graph_gui.cpp:61).
THEOREM GuiSafety == Spec => []GuiInv
BY GuiInitLemma, GuiInvLemma, PTL DEF Spec, Start

\* What spinOnce() draws fits the present screen: a window for every status and no
\* other, none over another or over the edge, for every number of proxels and of
\* ports, every size of the screen, and whatever crashes or is resized in the
\* meantime (graph_gui.cpp:47, graph_gui.cpp:137).
THEOREM ScreenStaysTidy == Spec => ScreenIsTidy
<1> DEFINE Drawn == view.spinning /\ ~view'.spinning => view'.size = view.screen /\ Tidy'
<1>1. (IsLaid => Tidy)'
  BY LaidIsTidy, PTL
<1>2. ASSUME GuiInv, Next, view.spinning, ~view'.spinning PROVE Draw
  BY <1>2 DEF GuiInv, ViewTyped, Next, CreateGraph, Parse, ParseThrows, CreateProxel, CreateThrows, BeginConnect,
     Connect, ConnectThrows, ReturnGraph, Throws, Gui, ReadStatuses, Resize, Crash
<1>3. ASSUME GuiInv, Draw PROVE view'.size = view.screen /\ Tidy'
  <2>1. view'.size = view.screen /\ IsLaid'
    <3>1. Screens \subseteq Nat \X Nat
      BY GuiAssumption
    <3> QED
      BY <1>3, <3>1, DrawLays DEF GuiInv, ViewTyped, IsLaid
  <2> QED
    BY <1>1, <2>1
<1>4. GuiInv /\ [Next]_vars => [Drawn]_vars
  BY <1>2, <1>3
<1> QED
  BY <1>4, GuiSafety, PTL DEF Spec, ScreenIsTidy
=============================================================================
