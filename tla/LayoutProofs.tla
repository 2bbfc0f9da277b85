----------------------------- MODULE LayoutProofs -----------------------------
(***************************************************************************)
(* What the places chosen promise, for any windows, sizes, hints, taskbars *)
(* and pages: GetNextPlace finds a clear place if there is one, an         *)
(* expanded window stops at what is in its way, a window that is moved     *)
(* snaps no further than to its neighbours, and tiles lie side by side.    *)
(***************************************************************************)
EXTENDS Layout, SequenceTheorems, FiniteSetTheorems, WellFoundedInduction, TLAPS
-----------------------------------------------------------------------------
(* Least and greatest numbers *)

\* Less-than as the well-founded relation that the library calls by this name.
LEMMA LessIsRelated ==
    ASSUME NEW i \in Nat, NEW k \in Nat, i < k
    PROVE  <<i, k>> \in OpToRel(<, Nat)
  BY Zenon DEF OpToRel

LEMMA LeastOfNaturals ==
    ASSUME NEW T \in SUBSET Nat, T # {}
    PROVE  \E x \in T : \A y \in T : x <= y
  <1> DEFINE less == OpToRel(<, Nat)
  <1>1. \E x \in T : \A y \in T : ~(<<y, x>> \in less)
    BY NatLessThanWellFounded, WFMin
  <1>2. \A i, k \in Nat : i < k => <<i, k>> \in less
    BY LessIsRelated
  <1> HIDE DEF less
  <1>3. PICK x \in T : \A y \in T : ~(<<y, x>> \in less)
    BY <1>1
  <1>4. \A y \in T : ~(y < x)
    BY <1>2, <1>3
  <1> QED
    BY <1>4

\* Integers that are bounded below have a least one,
LEMMA LeastExists ==
    ASSUME NEW T \in SUBSET Int, T # {}, NEW low \in Int, \A y \in T : low <= y
    PROVE  \E x \in T : \A y \in T : x <= y
  <1> DEFINE above == {n \in Nat : low + n \in T}
  <1>1. PICK z \in T : TRUE
    OBVIOUS
  <1>2. z - low \in above
    BY <1>1
  <1>3. PICK n \in above : \A m \in above : n <= m
    BY <1>2, LeastOfNaturals
  <1>4. low + n \in T /\ n \in Nat
    BY <1>3
  <1>5. ASSUME NEW y \in T PROVE low + n <= y
    <2>1. y - low \in above
      OBVIOUS
    <2>2. n <= y - low
      BY <1>3, <2>1
    <2> QED
      BY <1>4, <2>2
  <1> QED
    BY <1>4, <1>5

\* and those bounded above a greatest.
LEMMA GreatestExists ==
    ASSUME NEW T \in SUBSET Int, T # {}, NEW high \in Int, \A y \in T : y <= high
    PROVE  \E x \in T : \A y \in T : x >= y
  <1> DEFINE U == {n \in Int : -n \in T}
  <1>1. U \in SUBSET Int /\ U # {} /\ \A n \in U : -high <= n
    <2>1. PICK z \in T : TRUE
      OBVIOUS
    <2>2. -z \in U
      BY <2>1
    <2> QED
      BY <2>2
  <1>2. -high \in Int
    OBVIOUS
  <1> HIDE DEF U
  <1>3. PICK n \in U : \A m \in U : n <= m
    BY <1>1, <1>2, LeastExists
  <1>4. n \in Int /\ -n \in T
    BY <1>3 DEF U
  <1>5. ASSUME NEW y \in T PROVE -n >= y
    <2>1. -y \in U
      BY DEF U
    <2>2. n <= -y
      BY <1>3, <2>1
    <2> QED
      BY <1>4, <2>2
  <1> QED
    BY <1>4, <1>5

LEMMA MinIsLeast ==
    ASSUME NEW T \in SUBSET Int, T # {}, NEW low \in Int, \A y \in T : low <= y
    PROVE  S!Min(T) \in T /\ \A y \in T : S!Min(T) <= y
  <1>1. \E x \in T : \A y \in T : x <= y
    BY LeastExists
  <1> QED
    BY <1>1 DEF S!Min

LEMMA MaxIsGreatest ==
    ASSUME NEW T \in SUBSET Int, T # {}, NEW high \in Int, \A y \in T : y <= high
    PROVE  S!Max(T) \in T /\ \A y \in T : S!Max(T) >= y
  <1>1. \E x \in T : \A y \in T : x >= y
    BY GreatestExists
  <1> QED
    BY <1>1 DEF S!Max
-----------------------------------------------------------------------------
(* Loops *)

\* A loop over the windows: k steps from p, the nth of them h[n].
Loops(A, p, h, k) ==
    \E f \in [0..k -> A] : f[0] = p /\ \A n \in 1..k : f[n] = h[n][f[n - 1]]

LEMMA LoopExists ==
    ASSUME NEW A, NEW p \in A, NEW h \in [Nat -> [A -> A]], NEW k \in Nat
    PROVE  Loops(A, p, h, k)
  <1> DEFINE Done(n) == \E f \in [0..n -> A] : f[0] = p /\ \A x \in 1..n : f[x] = h[x][f[x - 1]]
             undone == {n \in Nat : ~Done(n)}
  <1> SUFFICES ASSUME undone # {}
               PROVE  FALSE
    BY Zenon DEF Loops
  <1>1. PICK least \in undone : \A n \in undone : least <= n
    BY LeastOfNaturals
  <1>2. least # 0
    <2> DEFINE f == [n \in 0..0 |-> p]
    <2>1. f \in [0..0 -> A] /\ f[0] = p /\ \A x \in 1..0 : f[x] = h[x][f[x - 1]]
      OBVIOUS
    <2>2. Done(0)
      BY <2>1, Zenon
    <2> HIDE DEF Done
    <2>3. 0 \notin undone
      BY <2>2
    <2> QED
      BY <1>1, <2>3
  <1>3. least - 1 \in Nat /\ Done(least - 1) /\ least \in Nat
    <2>1. \A n \in Nat : n \notin undone => Done(n)
      OBVIOUS
    <2>2. least \in Nat
      BY <1>1
    <2> HIDE DEF undone, Done
    <2>3. least - 1 \in Nat /\ ~(least <= least - 1)
      BY <1>2, <2>2
    <2> QED
      BY <1>1, <2>1, <2>2, <2>3
  <1>4. PICK f \in [0..(least - 1) -> A] :
            f[0] = p /\ \A x \in 1..(least - 1) : f[x] = h[x][f[x - 1]]
    BY <1>3
  <1> DEFINE g == [n \in 0..least |-> IF n = least THEN h[least][f[least - 1]] ELSE f[n]]
  <1>5. h[least][f[least - 1]] \in A
    BY <1>3, <1>4
  <1>6. g \in [0..least -> A] /\ g[0] = p
    BY <1>2, <1>3, <1>4, <1>5
  <1>7. ASSUME NEW x \in 1..least
        PROVE  g[x] = h[x][g[x - 1]]
    <2>1. g[x - 1] = f[x - 1]
      BY <1>3
    <2>2. CASE x = least
      BY <1>3, <2>1, <2>2
    <2>3. CASE x # least
      BY <1>3, <1>4, <2>1, <2>3
    <2> QED
      BY <2>2, <2>3
  <1>8. Done(least)
    BY <1>6, <1>7, Zenon
  <1> QED
    BY <1>1, <1>8

\* A loop that goes on from x at next[x], which is greater, until it comes upon an
\* integer of stop, beyond high at the latest.
Advances(high, stop, next) ==
    /\ high \in Int /\ stop \in SUBSET Int /\ \A x \in Int : x >= high => x \in stop
    /\ next \in [Int -> Int] /\ \A x \in Int : x \notin stop => next[x] > x

Above(low) == {x \in Int : x >= low}

\* f is what it does from each x of D on.
Scans(f, D, stop, next, leaf, join) ==
    \A x \in D : f[x] = IF x \in stop THEN leaf[x] ELSE join[x][f[next[x]]]

\* Two such functions agree where both are.
LEMMA ScansAgree ==
    ASSUME NEW high, NEW stop, NEW next, Advances(high, stop, next),
           NEW leaf, NEW join, NEW low \in Int, NEW z \in Int, z >= low, NEW f, NEW g,
           Scans(f, Above(low), stop, next, leaf, join), Scans(g, Above(z), stop, next, leaf, join)
    PROVE  f[z] = g[z]
  <1> USE DEF Advances
  <1> DEFINE bad == {n \in Int : high - n >= z /\ f[high - n] # g[high - n]}
             D == Above(low)
             E == Above(z)
  <1>0. \A x \in Int : x >= z => x \in D /\ x \in E
    BY DEF Above
  <1> HIDE DEF D, E
  <1>f. \A x \in D : f[x] = IF x \in stop THEN leaf[x] ELSE join[x][f[next[x]]]
    BY DEF Scans, D
  <1>g. \A x \in E : g[x] = IF x \in stop THEN leaf[x] ELSE join[x][g[next[x]]]
    BY DEF Scans, E
  <1>1. ASSUME NEW n \in bad PROVE 0 <= n
    <2>1. CASE n < 0
      <3>1. high - n \in stop /\ high - n \in D /\ high - n \in E
        BY <1>0, <2>1
      <3> QED
        BY <1>0, <1>f, <1>g, <3>1
    <2> QED
      BY <2>1
  <1>2. bad = {}
    <2> SUFFICES ASSUME bad # {} PROVE FALSE
      OBVIOUS
    <2>1. PICK n \in bad : \A m \in bad : n <= m
      <3>1. bad \in SUBSET Int /\ 0 \in Int
        OBVIOUS
      <3> HIDE DEF bad
      <3> QED
        BY <1>1, <3>1, LeastExists
    <2> DEFINE x == high - n
    <2>2. x \in Int /\ x >= z /\ f[x] # g[x] /\ x \in D /\ x \in E
      BY <1>0
    <2>3. CASE x \in stop
      BY <1>f, <1>g, <2>2, <2>3
    <2>4. CASE x \notin stop
      <3>1. next[x] \in Int /\ next[x] > x
        BY <2>2, <2>4
      <3>2. f[next[x]] = g[next[x]]
        <4>1. high - next[x] \in Int /\ high - (high - next[x]) = next[x] /\ next[x] >= z
              /\ ~(n <= high - next[x])
          BY <2>2, <3>1
        <4>2. high - next[x] \notin bad
          BY <2>1, <4>1
        <4> QED
          BY <4>1, <4>2
      <3> QED
        BY <1>f, <1>g, <2>2, <2>4, <3>2
    <2> QED
      BY <2>3, <2>4
  <1>3. high - (high - z) = z /\ high - z \in Int /\ z >= z
    OBVIOUS
  <1>4. ASSUME f[z] # g[z] PROVE high - z \in bad
    <2>1. PICK n \in Int : n = high - z /\ high - n = z
      BY <1>3
    <2>2. f[high - n] # g[high - n] /\ high - n >= z
      BY <1>3, <1>4, <2>1
    <2>3. n \in bad
      BY <2>2
    <2> QED
      BY <2>1, <2>3
  <1> HIDE DEF bad
  <1> QED
    BY <1>2, <1>4

\* Such a function exists, if only as far up as one likes,
LEMMA ScanFromExists ==
    ASSUME NEW high, NEW stop, NEW next, Advances(high, stop, next),
           NEW V, NEW leaf \in [Int -> V], NEW join \in [Int -> [V -> V]], NEW low \in Int
    PROVE  \E f \in [Int -> V] : Scans(f, Above(low), stop, next, leaf, join)
  <1> USE DEF Advances
  <1> DEFINE From(n) == {x \in Int : x >= high - n}
             Done(n) == \E f \in [Int -> V] : Scans(f, From(n), stop, next, leaf, join)
             undone == {n \in Nat : ~Done(n)}
  <1>1. undone = {}
    <2> SUFFICES ASSUME undone # {} PROVE FALSE
      OBVIOUS
    <2>1. PICK least \in undone : \A n \in undone : least <= n
      BY LeastOfNaturals
    <2>2. least # 0
      <3>1. Scans(leaf, From(0), stop, next, leaf, join)
        BY DEF Scans
      <3>2. Done(0)
        BY <3>1
      <3> HIDE DEF Done
      <3>3. 0 \notin undone
        BY <3>2
      <3> QED
        BY <2>1, <3>3
    <2>3. least \in Nat /\ least - 1 \in Nat /\ Done(least - 1)
      <3>1. \A n \in Nat : n \notin undone => Done(n)
        OBVIOUS
      <3>2. least \in Nat
        BY <2>1
      <3> HIDE DEF undone, Done
      <3>3. least - 1 \in Nat /\ ~(least <= least - 1)
        BY <2>2, <3>2
      <3> QED
        BY <2>1, <3>1, <3>2, <3>3
    <2>4. PICK f \in [Int -> V] : Scans(f, From(least - 1), stop, next, leaf, join)
      BY <2>3
    <2> DEFINE z == high - least
               g == [f EXCEPT ![z] = IF z \in stop THEN leaf[z] ELSE join[z][f[next[z]]]]
    <2>5. z \in Int /\ next[z] \in Int
      BY <2>3
    <2>6. g \in [Int -> V] /\ \A x \in Int : x # z => g[x] = f[x]
      BY <2>5
    <2>7. g[z] = IF z \in stop THEN leaf[z] ELSE join[z][f[next[z]]]
      BY <2>5
    <2> HIDE DEF g
    <2>8. ASSUME NEW x \in From(least)
          PROVE  g[x] = IF x \in stop THEN leaf[x] ELSE join[x][g[next[x]]]
      <3>1. x \in Int /\ next[x] \in Int /\ x >= z
        BY <2>3
      <3>2. x \notin stop => next[x] > x /\ next[x] # z
        BY <3>1, <2>3
      <3>3. CASE x = z
        BY <2>6, <2>7, <3>1, <3>2, <3>3
      <3>4. CASE x # z
        <4>1. x \in From(least - 1)
          BY <2>3, <3>1, <3>4
        <4>2. f[x] = IF x \in stop THEN leaf[x] ELSE join[x][f[next[x]]]
          BY <2>4, <4>1 DEF Scans
        <4> QED
          BY <2>6, <3>1, <3>2, <3>4, <4>2
      <3> QED
        BY <3>3, <3>4
    <2>9. Done(least)
      BY <2>6, <2>8, Zenon DEF Scans
    <2> QED
      BY <2>1, <2>9
  <1> DEFINE n == IF high >= low THEN high - low ELSE 0
  <1>2. n \in Nat /\ \A x \in Int : x >= low => x >= high - n
    OBVIOUS
  <1>3. Done(n)
    BY <1>1, <1>2
  <1>4. PICK f \in [Int -> V] : Scans(f, From(n), stop, next, leaf, join)
    BY <1>3
  <1>5. Scans(f, Above(low), stop, next, leaf, join)
    BY <1>2, <1>4 DEF Scans, Above
  <1> QED
    BY <1>5

\* and so everywhere.
LEMMA ScanExists ==
    ASSUME NEW high, NEW stop, NEW next, Advances(high, stop, next),
           NEW V, NEW leaf \in [Int -> V], NEW join \in [Int -> [V -> V]]
    PROVE  \E f \in [Int -> V] : Scans(f, Int, stop, next, leaf, join)
  <1> DEFINE Good(g, low) == g \in [Int -> V] /\ Scans(g, Above(low), stop, next, leaf, join)
             part == [x \in Int |-> CHOOSE g : Good(g, x)]
             f == [x \in Int |-> part[x][x]]
  <1>1. ASSUME NEW x \in Int PROVE Good(part[x], x)
    <2>1. \E g : Good(g, x)
      BY ScanFromExists
    <2> HIDE DEF Good
    <2> QED
      BY <2>1
  <1>2. \A x \in Int : part[x] \in [Int -> V] /\ Scans(part[x], Above(x), stop, next, leaf, join)
    BY <1>1
  <1> HIDE DEF part
  <1>3. f \in [Int -> V]
    BY <1>2
  <1>4. ASSUME NEW x \in Int
        PROVE  f[x] = IF x \in stop THEN leaf[x] ELSE join[x][f[next[x]]]
    <2>1. f[x] = IF x \in stop THEN leaf[x] ELSE join[x][part[x][next[x]]]
      BY <1>2 DEF Scans, Above
    <2>2. ASSUME x \notin stop PROVE part[x][next[x]] = part[next[x]][next[x]]
      <3>1. PICK z \in Int : z = next[x] /\ z > x
        BY <2>2 DEF Advances
      <3>2. PICK g, h : g = part[x] /\ h = part[z]
        OBVIOUS
      <3>3. Scans(g, Above(x), stop, next, leaf, join) /\ Scans(h, Above(z), stop, next, leaf, join)
        BY <1>2, <3>1, <3>2
      <3>4. g[z] = h[z]
        BY <3>1, <3>3, ScansAgree
      <3> QED
        BY <3>1, <3>2, <3>4
    <2>3. f[next[x]] = part[next[x]][next[x]] \/ x \in stop
      BY DEF Advances
    <2> QED
      BY <2>1, <2>2, <2>3
  <1> QED
    BY <1>3, <1>4, Zenon DEF Scans
-----------------------------------------------------------------------------
(* Arithmetic *)

LEMMA DivType ==
    ASSUME NEW n \in Int, NEW d \in Nat \ {0}
    PROVE  Div(n, d) \in Int
  BY DEF Div

\* What C++ rounds down is rounded towards 0.
LEMMA RoundDownTowardsZero ==
    ASSUME NEW n \in Int, NEW d \in Nat \ {0}
    PROVE  /\ RoundDown(n, d) \in Int
           /\ n >= 0 => 0 <= RoundDown(n, d) /\ RoundDown(n, d) <= n
           /\ n <= 0 => n <= RoundDown(n, d) /\ RoundDown(n, d) <= 0
  <1>1. ASSUME NEW m \in Int, m >= 0
        PROVE  m \div d \in Int /\ 0 <= m \div d /\ (m \div d) * d \in Int
               /\ 0 <= (m \div d) * d /\ (m \div d) * d <= m
    <2>1. PICK q \in Int : q = m \div d
      OBVIOUS
    <2>2. 0 <= q /\ q * d + (m % d) = m /\ m % d \in 0..(d - 1)
      BY <1>1, <2>1
    <2>3. q * d \in Int /\ 0 <= q * d
      BY <2>2
    <2> QED
      BY <2>1, <2>2, <2>3
  <1>2. CASE n >= 0
    <2>1. RoundDown(n, d) = (n \div d) * d
      BY <1>2 DEF RoundDown, Div
    <2>2. n <= 0 => n = 0
      BY <1>2
    <2> QED
      BY <1>1, <1>2, <2>1, <2>2
  <1>3. CASE n < 0
    <2>1. RoundDown(n, d) = (-((-n) \div d)) * d
      BY <1>3 DEF RoundDown, Div
    <2>2. PICK q \in Int : q = (-n) \div d /\ 0 <= q * d /\ q * d <= -n
      BY <1>1, <1>3
    <2>3. (-q) * d = -(q * d)
      BY <2>2
    <2> QED
      BY <1>3, <2>1, <2>2, <2>3
  <1> QED
    BY <1>2, <1>3

LEMMA ShiftType ==
    ASSUME NEW r \in Rect, NEW pt \in Point
    PROVE  Shift(r, pt) \in Rect
  BY DEF Rect, Span, Point, Axis, Shift

LEMMA PlaceAtType ==
    ASSUME NEW r \in Rect, NEW pt \in Point
    PROVE  PlaceAt(r, pt) \in Rect
  BY DEF Rect, Span, Point, Axis, PlaceAt

LEMMA PointType ==
    ASSUME NEW p \in Point, NEW q \in Point
    PROVE  Plus(p, q) \in Point /\ Minus(p, q) \in Point
  BY DEF Point, Axis, Minus, Plus

LEMMA CornerType ==
    ASSUME NEW r \in Rect
    PROVE  Corner(r) \in Point
  BY DEF Rect, Span, Point, Axis, Corner

\* A page is a point of the plane, for which a window may be made to move.
LEMMA PageType ==
    ASSUME NEW r \in Rect
    PROVE  Clamp(PageOf(r)) \in Point
  <1>1. ASSUME NEW a \in Axis
        PROVE  PageOf(r)[a] \in Int /\ Lowest(a) \in Int /\ Highest(a) \in Int
    <2>1. Display[a] \in Nat \ {0} /\ rcVirt[a].at \in Int /\ rcVirt[a].len \in Int
      BY GeometryType
    <2>2. PICK c \in Int : c = r[a].at + Div(r[a].len, 2)
      <3>1. r[a].at \in Int /\ r[a].len \in Int
        BY DEF Rect, Span
      <3> QED
        BY <3>1, DivType
    <2>3. RoundDown(c, Display[a]) \in Int /\ (Div(c, Display[a]) - 1) * Display[a] \in Int
      <3>1. PICK q \in Int : q = Div(c, Display[a])
        BY <2>1, DivType
      <3> QED
        BY <2>1, <3>1, RoundDownTowardsZero
    <2>4. PageOf(r)[a] = IF c >= 0 THEN RoundDown(c, Display[a])
                         ELSE (Div(c, Display[a]) - 1) * Display[a]
      BY <2>2 DEF PageOf
    <2>5. Lowest(a) \in Int /\ Highest(a) \in Int
      BY <2>1 DEF Lowest, Highest, End
    <2> QED
      BY <2>3, <2>4, <2>5
  <1>2. \A a \in Axis : MinOf(MaxOf(PageOf(r)[a], Lowest(a)), Highest(a)) \in Int
    BY <1>1 DEF MinOf, MaxOf
  <1> QED
    BY <1>2 DEF Clamp, Point

\* A frame without decorations takes nothing,
LEMMA NothingAround == \A a \in Axis : Around({})[a] = 0
  BY DEF Around, Before, BorderWidth, TitleEdge, Axis

\* so what a window is made to fit keeps its corner, and grows no longer than it is
\* given, if not to its base.
LEMMA FitKeeps ==
    ASSUME NEW w \in Window, NEW r \in Rect, rcScreen \in Rect
    PROVE  /\ Fit(w, r) \in Rect
           /\ \A a \in Axis :
                /\ Fit(w, r)[a].at = r[a].at
                /\ Fit(w, r)[a].len <= MaxOf(r[a].len, Hints[w][a].base)
                /\ 0 <= Hints[w][a].base /\ 0 <= r[a].len /\ 0 <= Hints[w][a].max
                   /\ 0 <= rcScreen[a].len => 0 <= Fit(w, r)[a].len
  <1> DEFINE f == Fit(w, r)
  <1>1. f = [a \in Axis |-> f[a]]
    BY Zenon DEF Fit, GetFixSize
  <1>2. ASSUME NEW a \in Axis
        PROVE  /\ f[a] \in Span /\ f[a].at = r[a].at
               /\ f[a].len <= MaxOf(r[a].len, Hints[w][a].base)
               /\ 0 <= Hints[w][a].base /\ 0 <= r[a].len /\ 0 <= Hints[w][a].max
                  /\ 0 <= rcScreen[a].len => 0 <= f[a].len
    <2> DEFINE outer == Around({})[a]
               h == Hints[w][a]
               cut == MinOf(MinOf(h.max, r[a].len - outer) + outer, rcScreen[a].len)
    <2>1. f[a] = [at |-> r[a].at, len |-> RoundDown(cut - h.base - outer, h.inc) + h.base + outer]
      BY Zenon DEF Fit, GetFixSize
    <2>2. outer = 0
      BY NothingAround
    <2>3. h.inc \in Nat \ {0} /\ h.base \in Int /\ h.max \in Int
      BY GeometryType DEF HintsType
    <2>4. r[a].len \in Int /\ r[a].at \in Int /\ rcScreen[a].len \in Int
      BY DEF Rect, Span
    <2>5. cut \in Int /\ cut <= r[a].len
          /\ (0 <= h.max /\ 0 <= r[a].len /\ 0 <= rcScreen[a].len => 0 <= cut)
      BY <2>2, <2>3, <2>4 DEF MinOf
    <2> HIDE DEF cut, h, outer
    <2>6. PICK n \in Int : n = cut - h.base
      BY <2>3, <2>5
    <2>7. PICK m \in Int : /\ m = RoundDown(n, h.inc)
                           /\ n >= 0 => 0 <= m /\ m <= n
                           /\ n <= 0 => n <= m /\ m <= 0
      BY <2>3, <2>6, RoundDownTowardsZero
    <2>8. f[a] = [at |-> r[a].at, len |-> m + h.base]
      <3>1. cut - h.base - outer = n /\ m + h.base + outer = m + h.base
        BY <2>2, <2>3, <2>5, <2>6, <2>7
      <3> QED
        BY <2>1, <2>7, <3>1
    <2> HIDE DEF f
    <2>9. f[a] \in Span /\ f[a].at = r[a].at /\ f[a].len = m + h.base
      BY <2>3, <2>4, <2>7, <2>8 DEF Span
    <2>10. m + h.base <= MaxOf(r[a].len, h.base)
      BY <2>3, <2>4, <2>5, <2>6, <2>7 DEF MaxOf
    <2>11. 0 <= h.base /\ 0 <= r[a].len /\ 0 <= h.max /\ 0 <= rcScreen[a].len => 0 <= m + h.base
      BY <2>3, <2>4, <2>5, <2>6, <2>7
    <2> QED
      BY <2>9, <2>10, <2>11 DEF h
  <1> HIDE DEF f
  <1>3. f \in Rect
    BY <1>1, <1>2 DEF Rect
  <1> QED
    BY <1>2, <1>3 DEF f

\* The edges of the screen leave a rectangle a rectangle.
LEMMA ToScreenType ==
    ASSUME NEW r \in Rect, NEW scr \in Rect
    PROVE  FixToScreen(r, scr) \in Rect
  <1>1. ASSUME NEW s \in Rect PROVE SnapToScreen(s, scr) \in Rect
    BY GeometryType DEF SnapToScreen, Rect, Span, End, Axis
  <1>2. ASSUME NEW s \in Rect PROVE ResistEdges(s, scr) \in Rect
    BY GeometryType DEF ResistEdges, Rect, Span, End, MaxOf, Axis
  <1> QED
    BY <1>1, <1>2 DEF FixToScreen
\* What holds where such a loop stops, and before each x if it holds after it, holds
\* everywhere.
LEMMA ScanInduction ==
    ASSUME NEW high, NEW stop, NEW next, Advances(high, stop, next), NEW good,
           \A x \in stop : x \in good, \A x \in Int \ stop : next[x] \in good => x \in good
    PROVE  \A x \in Int : x \in good
  <1> USE DEF Advances
  <1> DEFINE bad == {n \in Int : high - n \notin good}
  <1>1. ASSUME NEW n \in bad PROVE 0 <= n
    <2>1. n < 0 => high - n \in stop
      OBVIOUS
    <2> QED
      BY <2>1
  <1>2. bad = {}
    <2> SUFFICES ASSUME bad # {} PROVE FALSE
      OBVIOUS
    <2>1. PICK n \in bad : \A m \in bad : n <= m
      <3>1. bad \in SUBSET Int /\ 0 \in Int
        OBVIOUS
      <3> HIDE DEF bad
      <3> QED
        BY <1>1, <3>1, LeastExists
    <2>2. PICK x \in Int : x = high - n /\ x \notin good
      OBVIOUS
    <2>3. x \in Int \ stop
      BY <2>2
    <2>4. PICK z \in Int : z = next[x] /\ z > x
      BY <2>3
    <2>5. z \notin good
      BY <2>2, <2>3, <2>4
    <2>6. PICK m \in Int : m = high - z /\ high - m = z
      BY <2>4
    <2>7. m \in bad
      BY <2>5, <2>6
    <2>8. ~(n <= m)
      BY <2>2, <2>4, <2>6
    <2> QED
      BY <2>1, <2>7, <2>8
  <1>3. ASSUME NEW x \in Int PROVE x \in good
    <2>1. PICK n \in Int : n = high - x /\ high - n = x
      OBVIOUS
    <2>2. x \notin good => high - n \notin good
      BY <2>1
    <2>3. x \notin good => n \in bad
      BY <2>2
    <2> HIDE DEF bad
    <2> QED
      BY <1>2, <2>3
  <1> QED
    BY <1>3
-----------------------------------------------------------------------------
(* The state *)

\* What is never lost of the windows, the screen and the taskbar.
LayoutInv ==
    /\ list \in Seq(Window) /\ \A i, j \in DOMAIN list : list[i] = list[j] => i = j
    /\ rc \in [Window -> Rect] /\ iconic \subseteq Window
    /\ initPos \in Int /\ origin \in Point
    /\ bar \in Bars /\ rcScreen = ScreenBeside(bar)

\* The screen has room beside every taskbar.
LEMMA ScreenBesideType ==
    ASSUME NEW b \in Bars
    PROVE  ScreenBeside(b) \in Rect /\ \A a \in Axis : 0 <= ScreenBeside(b)[a].len
  <1>1. b.thick \in Nat /\ 2 * b.thick <= Display[BarAxis(b)] /\ BarAxis(b) \in Axis
    BY BarsType DEF BarAxis, Axis
  <1>2. \A a \in Axis : Display[a] \in Nat
    BY GeometryType
  <1>3. ASSUME NEW a \in Axis
        PROVE  ScreenBeside(b)[a] \in Span /\ 0 <= ScreenBeside(b)[a].len
    <2>1. CASE a # BarAxis(b)
      BY <1>2, <2>1 DEF ScreenBeside, Span
    <2>2. CASE a = BarAxis(b)
      <3>1. Display[a] - b.thick \in Int /\ 0 <= Display[a] - b.thick
            /\ (IF AtStart(b) THEN b.thick ELSE 0) \in Int
        BY <1>1, <1>2, <2>2
      <3>2. ScreenBeside(b)[a] = [at |-> IF AtStart(b) THEN b.thick ELSE 0, len |-> Display[a] - b.thick]
        BY <2>2 DEF ScreenBeside
      <3> QED
        BY <3>1, <3>2 DEF Span
    <2> QED
      BY <2>1, <2>2
  <1> QED
    BY <1>3 DEF ScreenBeside, Rect

LEMMA ScreenType ==
    ASSUME LayoutInv
    PROVE  /\ rcScreen \in Rect /\ Here \in Rect /\ Visible \in Rect
           /\ Corner(Here) \in Point /\ Corner(rcScreen) \in Point
           /\ \A a \in Axis : 0 <= rcScreen[a].len /\ Visible[a].len = rcScreen[a].len
  <1>1. rcScreen \in Rect /\ \A a \in Axis : 0 <= rcScreen[a].len
    BY ScreenBesideType DEF LayoutInv
  <1>2. origin \in Point
    BY DEF LayoutInv
  <1>3. Here \in Rect
    BY <1>1, <1>2, ShiftType DEF Here
  <1>4. Visible \in Rect /\ \A a \in Axis : Visible[a].len = rcScreen[a].len
    BY <1>1, <1>2 DEF Visible, Rect, Span, Point
  <1> QED
    BY <1>1, <1>3, <1>4, CornerType

\* The windows that are known are the elements of list, a finite number.
LEMMA KnownType ==
    ASSUME LayoutInv
    PROVE  /\ Len(list) \in Nat /\ DOMAIN list = 1..Len(list)
           /\ \A i \in DOMAIN list : list[i] \in Known /\ list[i] \in Window
           /\ \A w \in Known : w \in Window /\ \E i \in DOMAIN list : list[i] = w
           /\ IsFiniteSet(Known)
  <1>1. list \in Seq(Window)
    BY DEF LayoutInv
  <1>2. Len(list) \in Nat /\ DOMAIN list = 1..Len(list) /\ \A i \in DOMAIN list : list[i] \in Window
    BY <1>1
  <1>3. Known = {list[i] : i \in DOMAIN list}
    BY DEF Known, S!ToSet
  <1>4. list \in Surjection(1..Len(list), Known)
    <2>1. list \in [1..Len(list) -> Known]
      BY <1>1, <1>2, <1>3
    <2> QED
      BY <1>2, <1>3, <2>1 DEF Surjection
  <1>5. IsFiniteSet(Known)
    BY <1>2, <1>4, FS_Interval, FS_Surjection
  <1> QED
    BY <1>2, <1>3, <1>5
-----------------------------------------------------------------------------
(* GetNextPlace *)
-----------------------------------------------------------------------------
(* GetNextPlace *)

Size == [Axis -> Nat \ {0}]

LEMMA RectAtType ==
    ASSUME NEW pt \in Point, NEW size \in Size
    PROVE  RectAt(pt, size) \in Rect /\ Corner(RectAt(pt, size)) = pt
  BY DEF RectAt, Rect, Span, Point, Axis, Corner, Size

\* Where the loop over the windows breaks there is a window in the way.
LEMMA InTheWayIs ==
    ASSUME LayoutInv, NEW rect, Covered(rect) # {}
    PROVE  InTheWay(rect) \in Rect /\ Overlapping(InTheWay(rect), rect)
           /\ \E v \in Mapped : InTheWay(rect) = rc[v]
  <1>1. Covered(rect) \in SUBSET Int /\ \A i \in Covered(rect) : 1 <= i
    BY KnownType DEF Covered
  <1>2. S!Min(Covered(rect)) \in Covered(rect)
    BY <1>1, MinIsLeast
  <1>3. PICK i \in DOMAIN list : i = S!Min(Covered(rect)) /\ list[i] \notin iconic
                                 /\ Overlapping(rc[list[i]], rect)
    BY <1>2 DEF Covered
  <1>4. InTheWay(rect) = rc[list[i]]
    BY <1>3, Zenon DEF InTheWay
  <1>5. list[i] \in Mapped /\ list[i] \in Window
    BY <1>3, KnownType DEF Mapped
  <1>6. rc[list[i]] \in Rect
    BY <1>5 DEF LayoutInv
  <1> QED
    BY <1>3, <1>4, <1>5, <1>6

\* A rectangle is clear if no mapped window overlaps it.
LEMMA ClearIs ==
    ASSUME LayoutInv, NEW rect
    PROVE  Clear(rect) <=> \A v \in Mapped : ~Overlapping(rc[v], rect)
  BY KnownType DEF Clear, Covered, Mapped

\* The place at pt is one the loops look for.
Fits(size, pt) ==
    /\ pt["x"] + size["x"] < End(Here["x"]) /\ pt["y"] + size["y"] < End(Here["y"])
    /\ Clear(RectAt(pt, size))

\* What the inner loop says of the row of places at y from x on: the place it has found,
\* or how far down there is none.
RowSays(row, x, y, size) ==
    /\ row \in [found : BOOLEAN, x : Int, miny : Int]
    /\ row.found => x <= row.x /\ Fits(size, [x |-> row.x, y |-> y])
    /\ ~row.found =>
         /\ y < row.miny
         /\ \A pt \in Point : x <= pt["x"] /\ y <= pt["y"] /\ Fits(size, pt) => row.miny <= pt["y"]

\* Past a window in the way, the inner loop leaves no place out.
LEMMA RowGoesOn ==
    ASSUME LayoutInv, NEW size \in Size, NEW x \in Int, NEW y \in Int,
           NEW way \in Rect, NEW v \in Mapped, way = rc[v],
           Overlapping(way, RectAt([x |-> x, y |-> y], size)),
           NEW rest, RowSays(rest, End(way["x"]), y, size)
    PROVE  /\ End(way["x"]) \in Int /\ x < End(way["x"]) /\ End(way["y"]) \in Int
           /\ RowSays([rest EXCEPT !.miny = MinOf(@, End(way["y"]))], x, y, size)
  <1> DEFINE row == [rest EXCEPT !.miny = MinOf(@, End(way["y"]))]
  <1>1. way["x"].at \in Int /\ way["y"].at \in Int /\ End(way["x"]) \in Int /\ End(way["y"]) \in Int
        /\ size["x"] \in Int /\ size["y"] \in Int
    BY DEF Rect, Span, End, Size, Axis
  <1>2. /\ way["x"].at < x + size["x"] /\ x < End(way["x"])
        /\ way["y"].at < y + size["y"] /\ y < End(way["y"])
    BY DEF Overlapping, RectAt, End, Axis
  <1>3. rest \in [found : BOOLEAN, x : Int, miny : Int]
    BY DEF RowSays
  <1>4. row = [found |-> rest.found, x |-> rest.x, miny |-> MinOf(rest.miny, End(way["y"]))]
    BY <1>3
  <1> HIDE DEF row
  <1>5. row \in [found : BOOLEAN, x : Int, miny : Int]
    BY <1>1, <1>3, <1>4 DEF MinOf
  <1>6. ASSUME row.found PROVE x <= row.x /\ Fits(size, [x |-> row.x, y |-> y])
    <2>1. End(way["x"]) <= rest.x /\ Fits(size, [x |-> rest.x, y |-> y]) /\ row.x = rest.x
      BY <1>4, <1>6 DEF RowSays
    <2>2. x <= rest.x
      BY <1>1, <1>2, <1>3, <2>1
    <2> QED
      BY <2>1, <2>2
  <1>7. ASSUME ~row.found PROVE y < row.miny
    <2>1. y < rest.miny /\ row.miny = MinOf(rest.miny, End(way["y"]))
      BY <1>4, <1>7 DEF RowSays
    <2> QED
      BY <1>2, <2>1 DEF MinOf
  <1>8. ASSUME ~row.found, NEW pt \in Point, x <= pt["x"], y <= pt["y"], Fits(size, pt)
        PROVE  row.miny <= pt["y"]
    <2>1. row.miny = MinOf(rest.miny, End(way["y"])) /\ ~rest.found
      BY <1>4, <1>8
    <2>2. pt["x"] \in Int /\ pt["y"] \in Int
      BY DEF Point, Axis
    <2>3. CASE End(way["x"]) <= pt["x"]
      <3>1. rest.miny <= pt["y"]
        BY <1>8, <2>1, <2>3 DEF RowSays
      <3> QED
        BY <1>1, <1>3, <2>1, <2>2, <3>1 DEF MinOf
    <2>4. CASE ~(End(way["x"]) <= pt["x"])
      <3>1. ~Overlapping(way, RectAt(pt, size))
        BY <1>8, ClearIs DEF Fits
      <3>2. way["x"].at < pt["x"] + size["x"] /\ pt["x"] < End(way["x"])
            /\ way["y"].at < pt["y"] + size["y"]
        BY <1>1, <1>2, <1>8, <2>2, <2>4
      <3>3. ~(pt["y"] < End(way["y"]))
        BY <3>1, <3>2 DEF Overlapping, RectAt, End, Axis
      <3> QED
        BY <1>1, <1>3, <2>1, <2>2, <3>3 DEF MinOf
    <2> QED
      BY <2>3, <2>4
  <1>9. RowSays(row, x, y, size)
    BY <1>5, <1>6, <1>7, <1>8 DEF RowSays
  <1> QED
    BY <1>1, <1>2, <1>9 DEF row

LEMMA FoundType ==
    ASSUME NEW m \in Int, NEW x \in Int, NEW row, row = [found |-> FALSE, x |-> 0, miny |-> m]
    PROVE  [row EXCEPT !.found = TRUE, !.x = x] \in [found : BOOLEAN, x : Int, miny : Int]
  <1>1. row \in [found : BOOLEAN, x : Int, miny : Int]
    OBVIOUS
  <1> QED
    BY <1>1

\* PlaceInRow finds a place in its row, or says how far down there is none.
LEMMA PlaceInRowFinds ==
    ASSUME LayoutInv, NEW size \in Size, NEW y \in Int, y + size["y"] < End(Here["y"])
    PROVE  RowSays(PlaceInRow(y, size), Here["x"].at, y, size)
  <1> DEFINE At(x) == RectAt([x |-> x, y |-> y], size)
             none == [found |-> FALSE, x |-> 0, miny |-> End(Here["y"])]
             Runs(f) == f = [x \in Int |->
                 IF x + size["x"] >= End(Here["x"]) THEN none
                 ELSE IF Covered(At(x)) = {} THEN [none EXCEPT !.found = TRUE, !.x = x]
                 ELSE [f[End(InTheWay(At(x))["x"])] EXCEPT
                         !.miny = MinOf(@, End(InTheWay(At(x))["y"]))]]
             run == CHOOSE f : Runs(f)
             Row == [found : BOOLEAN, x : Int, miny : Int]
             high == End(Here["x"]) - size["x"]
             stop == {x \in Int : x + size["x"] >= End(Here["x"]) \/ Covered(At(x)) = {}}
             next == [x \in Int |-> IF x \in stop THEN x ELSE End(InTheWay(At(x))["x"])]
             leaf == [x \in Int |-> IF x + size["x"] >= End(Here["x"]) THEN none
                                    ELSE [none EXCEPT !.found = TRUE, !.x = x]]
             join == [x \in Int |-> [r \in Row |->
                        IF x \in stop THEN r
                        ELSE [r EXCEPT !.miny = MinOf(@, End(InTheWay(At(x))["y"]))]]]
  <1>1. PlaceInRow(y, size) = run[Here["x"].at]
    BY Zenon DEF PlaceInRow
  <1>2. /\ End(Here["x"]) \in Int /\ Here["x"].at \in Int /\ End(Here["y"]) \in Int
        /\ size["x"] \in Int /\ size["y"] \in Nat \ {0}
    BY ScreenType DEF Rect, Span, End, Size, Axis
  <1>3. ASSUME NEW x \in Int, x \notin stop
        PROVE  /\ InTheWay(At(x)) \in Rect /\ Overlapping(InTheWay(At(x)), At(x))
               /\ \E v \in Mapped : InTheWay(At(x)) = rc[v]
               /\ End(InTheWay(At(x))["x"]) \in Int /\ x < End(InTheWay(At(x))["x"])
               /\ End(InTheWay(At(x))["y"]) \in Int
    <2>1. Covered(At(x)) # {}
      BY <1>3
    <2>2. /\ InTheWay(At(x)) \in Rect /\ Overlapping(InTheWay(At(x)), At(x))
          /\ \E v \in Mapped : InTheWay(At(x)) = rc[v]
      BY <2>1, InTheWayIs
    <2>3. PICK way \in Rect : way = InTheWay(At(x)) /\ Overlapping(way, At(x))
      BY <2>2
    <2>4. End(way["x"]) \in Int /\ End(way["y"]) \in Int /\ x < End(way["x"])
      BY <2>3 DEF Rect, Span, End, Axis, Overlapping, RectAt
    <2> QED
      BY <2>2, <2>3, <2>4
  <1>4. Advances(high, stop, next)
    <2>1. high \in Int /\ stop \in SUBSET Int /\ \A x \in Int : x >= high => x \in stop
      BY <1>2
    <2>2. ASSUME NEW x \in Int PROVE next[x] \in Int /\ (x \notin stop => next[x] > x)
      <3>1. CASE x \in stop
        BY <3>1
      <3>2. CASE x \notin stop
        <4>1. PICK z \in Int : z = End(InTheWay(At(x))["x"]) /\ x < z
          BY <1>3, <3>2
        <4> HIDE DEF stop, At
        <4> QED
          BY <3>2, <4>1
      <3> QED
        BY <3>1, <3>2
    <2>3. next \in [Int -> Int]
      BY <2>2
    <2> HIDE DEF high, stop, next
    <2> QED
      BY <2>1, <2>2, <2>3 DEF Advances
  <1>5. leaf \in [Int -> Row]
    <2>1. none \in Row
      BY <1>2
    <2>2. ASSUME NEW x \in Int PROVE [none EXCEPT !.found = TRUE, !.x = x] \in Row
      <3>1. PICK m \in Int : m = End(Here["y"])
        BY <1>2
      <3>2. none = [found |-> FALSE, x |-> 0, miny |-> m]
        BY <3>1
      <3> HIDE DEF none
      <3> QED
        BY <3>2, FoundType
    <2> HIDE DEF none, Row
    <2> QED
      BY <2>1, <2>2
  <1>6. join \in [Int -> [Row -> Row]]
    <2>1. ASSUME NEW x \in Int, NEW r \in Row, x \notin stop
          PROVE  [r EXCEPT !.miny = MinOf(@, End(InTheWay(At(x))["y"]))] \in Row
      <3>1. PICK m \in Int : m = End(InTheWay(At(x))["y"])
        BY <1>3, <2>1
      <3>2. [r EXCEPT !.miny = MinOf(@, m)] \in Row
        BY DEF MinOf
      <3> QED
        BY <3>1, <3>2
    <2> HIDE DEF stop, At, Row
    <2> QED
      BY <2>1
  <1>7. PICK f \in [Int -> Row] : Scans(f, Int, stop, next, leaf, join)
    <2> HIDE DEF high, stop, next, leaf, join, Row
    <2> QED
      BY <1>4, <1>5, <1>6, ScanExists
  <1>8. Runs(f)
    <2>1. ASSUME NEW x \in Int
          PROVE  f[x] = IF x + size["x"] >= End(Here["x"]) THEN none
                        ELSE IF Covered(At(x)) = {} THEN [none EXCEPT !.found = TRUE, !.x = x]
                        ELSE [f[End(InTheWay(At(x))["x"])] EXCEPT
                                !.miny = MinOf(@, End(InTheWay(At(x))["y"]))]
      <3>1. f[x] = IF x \in stop THEN leaf[x] ELSE join[x][f[next[x]]]
        BY <1>7 DEF Scans
      <3>2. CASE x \in stop
        BY <3>1, <3>2
      <3>3. CASE x \notin stop
        <4>1. PICK z \in Int : z = End(InTheWay(At(x))["x"])
          BY <1>3, <3>3
        <4>2. next[x] = z /\ f[z] \in Row
          BY <3>3, <4>1
        <4>3. join[x][f[z]] = [f[z] EXCEPT !.miny = MinOf(@, End(InTheWay(At(x))["y"]))]
          BY <3>3, <4>2
        <4>4. ~(x + size["x"] >= End(Here["x"])) /\ Covered(At(x)) # {}
          BY <3>3
        <4> HIDE DEF stop, next, join, leaf, At, none, Row
        <4> QED
          BY <3>1, <3>3, <4>1, <4>2, <4>3, <4>4
      <3> QED
        BY <3>2, <3>3
    <2> HIDE DEF At, none
    <2> QED
      BY <2>1
  <1>9. Runs(run)
    <2> HIDE DEF Runs
    <2> QED
      BY <1>8, Zenon
  <1>10. \A x \in Int :
            run[x] = IF x + size["x"] >= End(Here["x"]) THEN none
                     ELSE IF Covered(At(x)) = {} THEN [none EXCEPT !.found = TRUE, !.x = x]
                     ELSE [run[End(InTheWay(At(x))["x"])] EXCEPT
                             !.miny = MinOf(@, End(InTheWay(At(x))["y"]))]
    <2> HIDE DEF run, At, none
    <2> QED
      BY <1>9
  <1> HIDE DEF run
  <1> DEFINE good == {x \in Int : RowSays(run[x], x, y, size)}
  <1>11. ASSUME NEW x \in stop PROVE x \in good
    <2>1. CASE x + size["x"] >= End(Here["x"])
      <3>1. run[x] = none
        BY <1>10, <2>1
      <3>2. y < End(Here["y"])
        BY <1>2
      <3>3. ASSUME NEW pt \in Point, x <= pt["x"], Fits(size, pt) PROVE FALSE
        <4>1. pt["x"] \in Int /\ pt["x"] + size["x"] < End(Here["x"])
          BY <3>3 DEF Fits, Point, Axis
        <4> QED
          BY <1>2, <2>1, <3>3, <4>1
      <3>4. none \in [found : BOOLEAN, x : Int, miny : Int] /\ ~none.found /\ y < none.miny
        BY <1>2, <3>2
      <3> HIDE DEF none, stop, At
      <3>5. RowSays(none, x, y, size)
        BY <3>3, <3>4 DEF RowSays
      <3>6. x \in Int
        BY DEF stop
      <3> QED
        BY <3>1, <3>5, <3>6
    <2>2. CASE ~(x + size["x"] >= End(Here["x"]))
      <3>1. Covered(At(x)) = {} /\ run[x] = [none EXCEPT !.found = TRUE, !.x = x]
        BY <1>10, <2>2
      <3>2. run[x] = [found |-> TRUE, x |-> x, miny |-> End(Here["y"])]
        BY <3>1
      <3>3. Fits(size, [x |-> x, y |-> y])
        BY <1>2, <2>2, <3>1 DEF Fits, Clear
      <3>4. run[x] \in [found : BOOLEAN, x : Int, miny : Int] /\ run[x].found /\ run[x].x = x /\ x <= x
        BY <1>2, <3>2
      <3> HIDE DEF stop, At
      <3>5. RowSays(run[x], x, y, size)
        BY <3>3, <3>4 DEF RowSays
      <3>6. x \in Int
        BY DEF stop
      <3> QED
        BY <3>5, <3>6
    <2> QED
      BY <2>1, <2>2
  <1>12. ASSUME NEW x \in Int \ stop, next[x] \in good PROVE x \in good
    <2>1. PICK way \in Rect, v \in Mapped : way = InTheWay(At(x)) /\ way = rc[v] /\ Overlapping(way, At(x))
      BY <1>3
    <2>2. next[x] = End(way["x"])
      BY <2>1
    <2>3. RowSays(run[End(way["x"])], End(way["x"]), y, size)
      BY <1>12, <2>2
    <2>4. RowSays([run[End(way["x"])] EXCEPT !.miny = MinOf(@, End(way["y"]))], x, y, size)
      BY <2>1, <2>3, RowGoesOn
    <2>5. ~(x + size["x"] >= End(Here["x"])) /\ Covered(At(x)) # {}
      OBVIOUS
    <2>6. run[x] = [run[End(way["x"])] EXCEPT !.miny = MinOf(@, End(way["y"]))]
      <3> HIDE DEF At, stop, next
      <3> QED
        BY <1>10, <2>1, <2>5
    <2> QED
      BY <2>4, <2>6
  <1>13. \A x \in Int : x \in good
    <2> HIDE DEF high, stop, next, good
    <2> QED
      BY <1>4, <1>11, <1>12, ScanInduction
  <1> QED
    BY <1>1, <1>2, <1>13

\* What the outer loop says of the rows from y down: the place it has found, or that
\* there is none.
PlaceSays(place, y, size) ==
    /\ place \in [found : BOOLEAN, pt : Point]
    /\ place.found => Here["x"].at <= place.pt["x"] /\ y <= place.pt["y"] /\ Fits(size, place.pt)
    /\ ~place.found =>
         \A pt \in Point : ~(Here["x"].at <= pt["x"] /\ y <= pt["y"] /\ Fits(size, pt))

\* PlaceBelow finds a place on the screen, or there is none.
LEMMA PlaceBelowFinds ==
    ASSUME LayoutInv, NEW size \in Size
    PROVE  PlaceSays(PlaceBelow(size), Here["y"].at, size)
  <1> DEFINE row(y) == PlaceInRow(y, size)
             beyond(y) == y + size["y"] >= End(Here["y"])
             none == [found |-> FALSE, pt |-> Corner(Here)]
             at(y) == [found |-> TRUE, pt |-> [x |-> row(y).x, y |-> y]]
             Runs(f) == f = [y \in Int |->
                IF y + size["y"] >= End(Here["y"]) THEN [found |-> FALSE, pt |-> Corner(Here)]
                ELSE IF PlaceInRow(y, size).found
                     THEN [found |-> TRUE, pt |-> [x |-> PlaceInRow(y, size).x, y |-> y]]
                ELSE f[PlaceInRow(y, size).miny]]
             run == CHOOSE f : Runs(f)
             Place == [found : BOOLEAN, pt : Point]
             high == End(Here["y"]) - size["y"]
             stop == {y \in Int : beyond(y) \/ row(y).found}
             next == [y \in Int |-> IF y \in stop THEN y ELSE row(y).miny]
             leaf == [y \in Int |-> IF beyond(y) \/ ~row(y).found THEN none ELSE at(y)]
             join == [y \in Int |-> [r \in Place |-> r]]
  <1>1. PlaceBelow(size) = run[Here["y"].at]
    BY Zenon DEF PlaceBelow
  <1>2. /\ End(Here["y"]) \in Int /\ Here["y"].at \in Int /\ size["y"] \in Nat \ {0}
        /\ Corner(Here) \in Point /\ Here["x"].at \in Int
    BY ScreenType DEF Rect, Span, End, Size, Axis
  <1>3. ASSUME NEW y \in Int, ~beyond(y)
        PROVE  RowSays(row(y), Here["x"].at, y, size)
    BY <1>2, <1>3, PlaceInRowFinds
  <1>4. Advances(high, stop, next)
    <2>1. high \in Int /\ stop \in SUBSET Int /\ \A y \in Int : y >= high => y \in stop
      BY <1>2
    <2>2. ASSUME NEW y \in Int PROVE next[y] \in Int /\ (y \notin stop => next[y] > y)
      <3>1. CASE y \in stop
        BY <3>1
      <3>2. CASE y \notin stop
        <4>1. row(y).miny \in Int /\ row(y).miny > y
          BY <1>3, <3>2 DEF RowSays
        <4>2. next[y] = row(y).miny
          BY <3>2
        <4> HIDE DEF stop, next, row
        <4> QED
          BY <4>1, <4>2
      <3> QED
        BY <3>1, <3>2
    <2>3. next \in [Int -> Int]
      BY <2>2
    <2> HIDE DEF high, stop, next
    <2> QED
      BY <2>1, <2>2, <2>3 DEF Advances
  <1>5. leaf \in [Int -> Place]
    <2>1. none \in Place
      BY <1>2
    <2>2. ASSUME NEW y \in Int, ~beyond(y), row(y).found PROVE at(y) \in Place
      <3>1. PICK x \in Int : x = row(y).x
        BY <1>3, <2>2 DEF RowSays
      <3>2. [x |-> x, y |-> y] \in Point
        BY DEF Point, Axis
      <3> QED
        BY <3>1, <3>2
    <2> HIDE DEF none, at, beyond, row, Place
    <2> QED
      BY <2>1, <2>2
  <1>6. join \in [Int -> [Place -> Place]]
    OBVIOUS
  <1>7. PICK f \in [Int -> Place] : Scans(f, Int, stop, next, leaf, join)
    <2> HIDE DEF high, stop, next, leaf, join, Place
    <2> QED
      BY <1>4, <1>5, <1>6, ScanExists
  <1>8. Runs(f)
    <2>1. ASSUME NEW y \in Int
          PROVE  f[y] = IF beyond(y) THEN none ELSE IF row(y).found THEN at(y) ELSE f[row(y).miny]
      <3>1. f[y] = IF y \in stop THEN leaf[y] ELSE join[y][f[next[y]]]
        BY <1>7 DEF Scans
      <3>2. y \in stop <=> beyond(y) \/ row(y).found
        OBVIOUS
      <3>3. leaf[y] = IF beyond(y) \/ ~row(y).found THEN none ELSE at(y)
        OBVIOUS
      <3>4. y \notin stop => next[y] = row(y).miny /\ join[y][f[next[y]]] = f[next[y]]
        BY <1>4 DEF Advances
      <3> HIDE DEF beyond, row, none, at, stop, next, leaf, join
      <3> QED
        BY <3>1, <3>2, <3>3, <3>4
    <2> QED
      BY <2>1
  <1>9. Runs(run)
    <2> HIDE DEF Runs
    <2> QED
      BY <1>8, Zenon
  <1>10. \A y \in Int :
            run[y] = IF beyond(y) THEN none ELSE IF row(y).found THEN at(y) ELSE run[row(y).miny]
    <2> HIDE DEF run
    <2> QED
      BY <1>9
  <1> HIDE DEF run, Runs
  <1> DEFINE good == {y \in Int : PlaceSays(run[y], y, size)}
  <1>11. ASSUME NEW y \in stop PROVE y \in good
    <2>1. CASE beyond(y)
      <3>1. run[y] = none
        BY <1>10, <2>1
      <3>2. none \in Place /\ ~none.found
        BY <1>2
      <3>3. ASSUME NEW pt \in Point, y <= pt["y"], Fits(size, pt) PROVE FALSE
        <4>1. pt["y"] \in Int /\ pt["y"] + size["y"] < End(Here["y"])
          BY <3>3 DEF Fits, Point, Axis
        <4> QED
          BY <1>2, <2>1, <3>3, <4>1
      <3> HIDE DEF none
      <3>4. PlaceSays(none, y, size)
        BY <3>2, <3>3 DEF PlaceSays
      <3> QED
        BY <3>1, <3>4
    <2>2. CASE ~beyond(y)
      <3>1. row(y).found /\ run[y] = at(y)
        BY <1>10, <2>2
      <3>2. Here["x"].at <= row(y).x /\ Fits(size, [x |-> row(y).x, y |-> y]) /\ row(y).x \in Int
        BY <1>3, <2>2, <3>1 DEF RowSays
      <3>3. PICK x \in Int : x = row(y).x
        BY <3>2
      <3>4. [x |-> x, y |-> y] \in Point
        BY DEF Point, Axis
      <3>5. PICK p \in Point : p = [x |-> x, y |-> y] /\ p["x"] = x /\ p["y"] = y
        BY <3>4
      <3>6. run[y] = [found |-> TRUE, pt |-> p] /\ Fits(size, p)
        BY <3>1, <3>2, <3>3, <3>5
      <3>7. PlaceSays(run[y], y, size)
        <4>1. run[y] \in [found : BOOLEAN, pt : Point] /\ run[y].found /\ run[y].pt = p
          BY <3>6
        <4>2. Here["x"].at <= p["x"] /\ y <= p["y"]
          BY <3>2, <3>3, <3>5
        <4> QED
          BY <3>6, <4>1, <4>2 DEF PlaceSays
      <3> QED
        BY <3>7
    <2> QED
      BY <2>1, <2>2
  <1>12. ASSUME NEW y \in Int \ stop, next[y] \in good PROVE y \in good
    <2>1. ~beyond(y) /\ ~row(y).found
      OBVIOUS
    <2>2. PICK r : r = row(y) /\ RowSays(r, Here["x"].at, y, size)
      BY <1>3, <2>1
    <2>3. next[y] = r.miny /\ run[y] = run[r.miny]
      BY <1>10, <2>1, <2>2
    <2>4. PICK p : p = run[y] /\ PlaceSays(p, r.miny, size)
      BY <1>12, <2>3
    <2>5. r.miny \in Int /\ y < r.miny
          /\ \A pt \in Point : Here["x"].at <= pt["x"] /\ y <= pt["y"] /\ Fits(size, pt) => r.miny <= pt["y"]
      BY <2>1, <2>2 DEF RowSays
    <2>6. PlaceSays(p, y, size)
      <3>1. p.found => y <= p.pt["y"]
        <4>1. p.found => p.pt["y"] \in Int /\ r.miny <= p.pt["y"]
          BY <2>4 DEF PlaceSays, Point, Axis
        <4> QED
          BY <2>5, <4>1
      <3> QED
        BY <2>4, <2>5, <3>1 DEF PlaceSays
    <2> QED
      BY <2>4, <2>6
  <1>13. \A y \in Int : y \in good
    <2> HIDE DEF high, stop, next, good
    <2> QED
      BY <1>4, <1>11, <1>12, ScanInduction
  <1> QED
    BY <1>1, <1>2, <1>13

\* GetNextPlace finds a place on the screen if it is asked to and there is one.
LEMMA SmartPlaceFinds ==
    ASSUME LayoutInv, NEW size \in Size
    PROVE  /\ SmartPlace(size) \in [found : BOOLEAN, pt : Point]
           /\ SmartPlacement => PlaceSays(SmartPlace(size), Here["y"].at, size)
  <1>1. PlaceSays(PlaceBelow(size), Here["y"].at, size)
    BY PlaceBelowFinds
  <1>2. [found |-> FALSE, pt |-> Corner(Here)] \in [found : BOOLEAN, pt : Point]
    BY ScreenType
  <1>3. SmartPlacement \in BOOLEAN
    BY LayoutType
  <1> QED
    BY <1>1, <1>2, <1>3 DEF SmartPlace, PlaceSays
-----------------------------------------------------------------------------
(* Windows that are rearranged *)

\* What holds of the start of a loop and goes on from step to step, holds to its end.
LEMMA LoopInduction ==
    ASSUME NEW k \in Nat, NEW good, 0 \in good, \A n \in 1..k : n - 1 \in good => n \in good
    PROVE  \A n \in 0..k : n \in good
  <1> DEFINE bad == {n \in 0..k : n \notin good}
  <1> SUFFICES ASSUME bad # {} PROVE FALSE
    OBVIOUS
  <1>1. PICK n \in bad : \A m \in bad : n <= m
    <2>1. bad \in SUBSET Nat
      OBVIOUS
    <2> HIDE DEF bad
    <2> QED
      BY <2>1, LeastOfNaturals
  <1>2. n \in 1..k /\ n - 1 \in 0..k /\ ~(n <= n - 1)
    OBVIOUS
  <1>3. n - 1 \in good
    BY <1>1, <1>2
  <1> QED
    BY <1>2, <1>3

\* What is rearranged is a finite number of windows that are known.
LEMMA RearrangedType ==
    ASSUME LayoutInv, NEW all
    PROVE  Rearranged(all) \subseteq Window /\ Cardinality(Rearranged(all)) \in Nat
  <1>1. Rearranged(all) \subseteq Known
    BY DEF Rearranged, Mapped
  <1>2. IsFiniteSet(Rearranged(all))
    BY <1>1, KnownType, FS_Subset
  <1> QED
    BY <1>1, <1>2, KnownType, FS_CardinalityType

\* The cascade moves windows, and leaves them their sizes.
LEMMA OverlapKeeps ==
    ASSUME LayoutInv, NEW all, Overlap(all)
    PROVE  rc' \in [Window -> Rect]
  <1> DEFINE unit == TitleHeight + TopBorder
             Beyond(pt, a) == pt[a] > Div(rcScreen[a].len, 2)
             Put(at, w) ==
               IF w \notin Rearranged(all) THEN at ELSE
                 LET on == [a \in Axis |-> at.pt[a] + unit]
                     top == [Corner(rcScreen) EXCEPT !["x"] = @ + unit * (at.num + 1)]
                     more == \A a \in Axis : ~Beyond(on, a)
                 IN  [rc  |-> [at.rc EXCEPT ![w] = PlaceAt(@, Plus(at.pt, origin))],
                      pt  |-> IF more THEN on ELSE IF Beyond(top, "x") THEN Corner(rcScreen) ELSE top,
                      num |-> IF more THEN at.num ELSE IF Beyond(top, "x") THEN 0 ELSE at.num + 1]
             start == [rc |-> rc, pt |-> Corner(rcScreen), num |-> 0]
             k == Len(list)
             Runs(f) == f = [n \in 0..k |-> IF n = 0 THEN start ELSE Put(f[n - 1], list[n])]
             run == CHOOSE f : Runs(f)
             State == [rc : [Window -> Rect], pt : Point, num : Int]
             h == [n \in Nat |-> [q \in State |-> IF n \in 1..k THEN Put(q, list[n]) ELSE q]]
  <1>1. rc' = run[k].rc
    BY Zenon DEF Overlap, Through
  <1>2. start \in State
    BY ScreenType DEF LayoutInv
  <1>3. ASSUME NEW q \in State, NEW w \in Window PROVE Put(q, w) \in State
    <2> DEFINE on == [a \in Axis |-> q.pt[a] + unit]
               top == [Corner(rcScreen) EXCEPT !["x"] = @ + unit * (q.num + 1)]
               more == \A a \in Axis : ~Beyond(on, a)
               moved == [q.rc EXCEPT ![w] = PlaceAt(@, Plus(q.pt, origin))]
               pt == IF more THEN on ELSE IF Beyond(top, "x") THEN Corner(rcScreen) ELSE top
               num == IF more THEN q.num ELSE IF Beyond(top, "x") THEN 0 ELSE q.num + 1
    <2>1. unit \in Int /\ q.num \in Int /\ q.pt \in Point /\ q.rc \in [Window -> Rect]
      BY GeometryType, LayoutType
    <2>2. on \in Point
      BY <2>1 DEF Point
    <2>3. top \in Point
      <3>1. PICK m \in Int : m = unit * (q.num + 1)
        BY <2>1
      <3>2. Corner(rcScreen) \in Point
        BY ScreenType
      <3> QED
        BY <3>1, <3>2 DEF Point, Axis
    <2>4. moved \in [Window -> Rect]
      <3>1. Plus(q.pt, origin) \in Point
        BY <2>1, PointType DEF LayoutInv
      <3>2. PlaceAt(q.rc[w], Plus(q.pt, origin)) \in Rect
        BY <2>1, <3>1, PlaceAtType
      <3> QED
        BY <2>1, <3>2
    <2>5. Corner(rcScreen) \in Point
      BY ScreenType
    <2>6. Put(q, w) = IF w \notin Rearranged(all) THEN q ELSE [rc |-> moved, pt |-> pt, num |-> num]
      BY Zenon
    <2> HIDE DEF Put, on, top, moved, more, unit, Beyond
    <2>7. pt \in Point /\ num \in Int
      BY <2>1, <2>2, <2>3, <2>5
    <2> HIDE DEF pt, num
    <2> QED
      BY <2>4, <2>6, <2>7
  <1>4. k \in Nat /\ \A n \in 1..k : list[n] \in Window
    BY KnownType
  <1> HIDE DEF Put, start, State
  <1>5. h \in [Nat -> [State -> State]]
    BY <1>3, <1>4
  <1>h. \A n \in 1..k, q \in State : h[n][q] = Put(q, list[n])
    <2>1. ASSUME NEW n \in 1..k, NEW q \in State PROVE h[n][q] = Put(q, list[n])
      <3>1. n \in Nat
        BY <1>4
      <3> QED
        BY <3>1
    <2> HIDE DEF h
    <2> QED
      BY <2>1
  <1> HIDE DEF h
  <1>6. PICK f \in [0..k -> State] : f[0] = start /\ \A n \in 1..k : f[n] = h[n][f[n - 1]]
    <2>1. Loops(State, start, h, k)
      <3> HIDE DEF k
      <3> QED
        BY <1>2, <1>4, <1>5, LoopExists
    <2> QED
      BY <2>1, Zenon DEF Loops
  <1>7. Runs(f)
    <2>1. ASSUME NEW n \in 1..k PROVE f[n] = Put(f[n - 1], list[n])
      <3>1. n - 1 \in 0..k /\ f[n - 1] \in State
        BY <1>4
      <3> QED
        BY <1>6, <1>h, <3>1
    <2>2. \A n \in 0..k : f[n] = IF n = 0 THEN start ELSE Put(f[n - 1], list[n])
      BY <1>6, <2>1
    <2> HIDE DEF k
    <2> QED
      BY <2>2
  <1>8. Runs(run)
    <2> HIDE DEF Runs
    <2> QED
      BY <1>7, Zenon
  <1> HIDE DEF run
  <1>9. run[0] = start /\ \A n \in 1..k : run[n] = Put(run[n - 1], list[n])
    BY <1>4, <1>8
  <1> DEFINE good == {n \in 0..k : run[n] \in State}
  <1>10. \A n \in 0..k : n \in good
    <2>1. 0 \in good
      BY <1>2, <1>4, <1>9
    <2>2. \A n \in 1..k : n - 1 \in good => n \in good
      BY <1>3, <1>4, <1>9
    <2> HIDE DEF good
    <2> QED
      BY <1>4, <2>1, <2>2, LoopInduction
  <1>11. run[k] \in State
    BY <1>4, <1>10
  <1> QED
    BY <1>1, <1>11 DEF State

\* The hints ask for no sizes below 0.
HintsSized == \A w \in Window, a \in Axis : 0 <= Hints[w][a].base /\ 0 <= Hints[w][a].max

\* The first n windows have their tiles, and the next one goes behind all of them.
TiledApart(q, n, axis, tiled) ==
    /\ \A i \in 1..n : list[i] \in tiled => End(q.rc[list[i]][axis]) <= q.pt[axis]
    /\ \A i, j \in 1..n : i < j /\ list[i] \in tiled /\ list[j] \in tiled =>
          End(q.rc[list[i]][axis]) <= q.rc[list[j]][axis].at

\* One tile more.
LEMMA TileNext ==
    ASSUME LayoutInv, NEW axis \in Axis, NEW tiled, NEW n \in 1..Len(list), list[n] \in tiled,
           NEW q \in [rc : [Window -> Rect], pt : Point], TiledApart(q, n - 1, axis, tiled),
           NEW fix \in Rect, fix[axis].at = q.pt[axis], 0 <= fix[axis].len,
           NEW r \in [rc : [Window -> Rect], pt : Point],
           r.rc = [q.rc EXCEPT ![list[n]] = fix], r.pt[axis] = q.pt[axis] + fix[axis].len
    PROVE  TiledApart(r, n, axis, tiled)
  <1>1. /\ Len(list) \in Nat /\ \A i \in 1..Len(list) : list[i] \in Window
        /\ \A i, j \in 1..Len(list) : list[i] = list[j] => i = j
    BY KnownType DEF LayoutInv
  <1>2. q.pt[axis] \in Int /\ fix[axis].len \in Int /\ fix[axis].at \in Int
    BY DEF Point, Rect, Span
  <1>3. r.rc[list[n]] = fix /\ q.rc \in [Window -> Rect]
    BY <1>1
  <1>4. ASSUME NEW i \in 1..n, i # n
        PROVE  /\ r.rc[list[i]] = q.rc[list[i]] /\ i \in 1..(n - 1)
               /\ End(q.rc[list[i]][axis]) \in Int /\ q.rc[list[i]][axis].at \in Int
    <2>1. list[i] # list[n] /\ list[i] \in Window
      BY <1>1, <1>4
    <2>2. q.rc[list[i]][axis] \in Span
      BY <1>3, <2>1 DEF Rect
    <2> QED
      BY <1>4, <2>1, <2>2 DEF Span, End
  <1>5. ASSUME NEW i \in 1..n, list[i] \in tiled PROVE End(r.rc[list[i]][axis]) <= r.pt[axis]
    <2>1. CASE i = n
      BY <1>2, <1>3, <2>1 DEF End
    <2>2. CASE i # n
      <3>1. End(q.rc[list[i]][axis]) <= q.pt[axis]
        BY <1>4, <1>5, <2>2 DEF TiledApart
      <3> QED
        BY <1>2, <1>4, <2>2, <3>1
    <2> QED
      BY <2>1, <2>2
  <1>6. ASSUME NEW i \in 1..n, NEW j \in 1..n, i < j, list[i] \in tiled, list[j] \in tiled
        PROVE  End(r.rc[list[i]][axis]) <= r.rc[list[j]][axis].at
    <2>1. i # n
      BY <1>6
    <2>2. CASE j = n
      <3>1. End(q.rc[list[i]][axis]) <= q.pt[axis]
        BY <1>4, <1>6, <2>1 DEF TiledApart
      <3> QED
        BY <1>3, <1>4, <2>1, <2>2, <3>1
    <2>3. CASE j # n
      BY <1>4, <1>6, <2>1, <2>3 DEF TiledApart
    <2> QED
      BY <2>2, <2>3
  <1> QED
    BY <1>5, <1>6 DEF TiledApart

\* Tiles leave rectangles, and lie side by side whatever size the hints give them.
LEMMA TileKeeps ==
    ASSUME LayoutInv, NEW axis \in Axis, NEW all, Tile(axis, all)
    PROVE  /\ rc' \in [Window -> Rect]
           /\ HintsSized => \A i, j \in DOMAIN list :
                i < j /\ {list[i], list[j]} \subseteq Rearranged(all)
                  => End(rc'[list[i]][axis]) <= rc'[list[j]][axis].at
  <1> DEFINE share == Div(Visible[axis].len, MaxOf(1, Cardinality(Rearranged(all))))
             Put(at, w) ==
               IF w \notin Rearranged(all) THEN at ELSE
                 LET tile == [a \in Axis |-> [at  |-> at.pt[a],
                                              len |-> IF a = axis THEN share ELSE Visible[a].len]]
                     fix == Fit(w, tile)
                 IN  [rc |-> [at.rc EXCEPT ![w] = fix], pt |-> [at.pt EXCEPT ![axis] = @ + fix[axis].len]]
             start == [rc |-> rc, pt |-> Corner(Here)]
             k == Len(list)
             Runs(f) == f = [n \in 0..k |-> IF n = 0 THEN start ELSE Put(f[n - 1], list[n])]
             run == CHOOSE f : Runs(f)
             State == [rc : [Window -> Rect], pt : Point]
             h == [n \in Nat |-> [q \in State |-> IF n \in 1..k THEN Put(q, list[n]) ELSE q]]
             tiled == Rearranged(all)
  <1>1. rc' = run[k].rc
    BY Zenon DEF Tile, Through
  <1>2. start \in State
    BY ScreenType DEF LayoutInv
  <1>s. share \in Int /\ 0 <= share
    <2>1. PICK d \in Nat \ {0} : d = MaxOf(1, Cardinality(Rearranged(all)))
      <3>1. PICK c \in Nat : c = Cardinality(Rearranged(all))
        BY RearrangedType
      <3> QED
        BY <3>1 DEF MaxOf
    <2>2. Visible[axis].len \in Int /\ 0 <= Visible[axis].len
      BY ScreenType DEF Rect, Span
    <2> QED
      BY <2>1, <2>2 DEF Div
  <1> HIDE DEF share
  <1>3. ASSUME NEW q \in State, NEW w \in Window
        PROVE  /\ w \notin tiled => Put(q, w) = q
               /\ w \in tiled => \E fix \in Rect :
                     /\ Put(q, w) \in State /\ Put(q, w).rc = [q.rc EXCEPT ![w] = fix]
                     /\ Put(q, w).pt[axis] = q.pt[axis] + fix[axis].len
                     /\ fix[axis].at = q.pt[axis] /\ (HintsSized => 0 <= fix[axis].len)
    <2> DEFINE tile == [a \in Axis |-> [at  |-> q.pt[a],
                                        len |-> IF a = axis THEN share ELSE Visible[a].len]]
               fix == Fit(w, tile)
               next == [rc |-> [q.rc EXCEPT ![w] = fix], pt |-> [q.pt EXCEPT ![axis] = @ + fix[axis].len]]
    <2>1. q.pt \in Point /\ q.rc \in [Window -> Rect] /\ q = [rc |-> q.rc, pt |-> q.pt]
      OBVIOUS
    <2>2. tile \in Rect /\ tile[axis].at = q.pt[axis] /\ tile[axis].len = share
      <3>1. \A a \in Axis : Visible[a].len \in Int
        BY ScreenType DEF Rect, Span
      <3>2. \A a \in Axis : q.pt[a] \in Int
        BY <2>1 DEF Point
      <3> QED
        BY <1>s, <3>1, <3>2 DEF Rect, Span
    <2>3. Put(q, w) = IF w \notin tiled THEN q ELSE next
      BY Zenon
    <2> HIDE DEF tile
    <2>4. /\ fix \in Rect /\ fix[axis].at = q.pt[axis]
          /\ HintsSized => 0 <= fix[axis].len
      <3>1. 0 <= rcScreen[axis].len /\ rcScreen \in Rect
        BY ScreenType
      <3>2. PICK f \in Rect : /\ f = fix /\ f[axis].at = tile[axis].at
                              /\ 0 <= Hints[w][axis].base /\ 0 <= tile[axis].len
                                 /\ 0 <= Hints[w][axis].max /\ 0 <= rcScreen[axis].len => 0 <= f[axis].len
        BY <2>2, <3>1, FitKeeps
      <3> QED
        BY <1>s, <2>2, <3>1, <3>2 DEF HintsSized
    <2> HIDE DEF fix, Put
    <2>5. fix[axis].len \in Int
      BY <2>4 DEF Rect, Span
    <2>6. next \in State /\ next.rc = [q.rc EXCEPT ![w] = fix]
          /\ next.pt[axis] = q.pt[axis] + fix[axis].len
      BY <2>1, <2>4, <2>5 DEF Point
    <2> HIDE DEF next, State
    <2> QED
      BY <2>3, <2>4, <2>6
  <1>4. k \in Nat /\ \A n \in 1..k : list[n] \in Window
    BY KnownType
  <1> HIDE DEF Put, start, State
  <1>p. ASSUME NEW q \in State, NEW w \in Window PROVE Put(q, w) \in State
    BY <1>3
  <1>5. h \in [Nat -> [State -> State]]
    BY <1>p, <1>4
  <1>h. \A n \in 1..k, q \in State : h[n][q] = Put(q, list[n])
    <2>1. ASSUME NEW n \in 1..k, NEW q \in State PROVE h[n][q] = Put(q, list[n])
      <3>1. n \in Nat
        BY <1>4
      <3> QED
        BY <3>1
    <2> HIDE DEF h
    <2> QED
      BY <2>1
  <1> HIDE DEF h
  <1>6. PICK f \in [0..k -> State] : f[0] = start /\ \A n \in 1..k : f[n] = h[n][f[n - 1]]
    <2>1. Loops(State, start, h, k)
      <3> HIDE DEF k
      <3> QED
        BY <1>2, <1>4, <1>5, LoopExists
    <2> QED
      BY <2>1, Zenon DEF Loops
  <1>7. Runs(f)
    <2>1. ASSUME NEW n \in 1..k PROVE f[n] = Put(f[n - 1], list[n])
      <3>1. n - 1 \in 0..k /\ f[n - 1] \in State
        BY <1>4
      <3> QED
        BY <1>6, <1>h, <3>1
    <2>2. \A n \in 0..k : f[n] = IF n = 0 THEN start ELSE Put(f[n - 1], list[n])
      BY <1>6, <2>1
    <2> HIDE DEF k
    <2> QED
      BY <2>2
  <1>8. Runs(run)
    <2> HIDE DEF Runs
    <2> QED
      BY <1>7, Zenon
  <1> HIDE DEF run
  <1>9. run[0] = start /\ \A n \in 1..k : run[n] = Put(run[n - 1], list[n])
    BY <1>4, <1>8
  <1> DEFINE good == {n \in 0..k : run[n] \in State /\ (HintsSized => TiledApart(run[n], n, axis, tiled))}
  <1>10. \A n \in 0..k : n \in good
    <2>1. 0 \in good
      <3>1. TiledApart(run[0], 0, axis, tiled)
        BY DEF TiledApart
      <3> QED
        BY <1>2, <1>4, <1>9, <3>1
    <2>2. ASSUME NEW n \in 1..k, n - 1 \in good PROVE n \in good
      <3>1. PICK q \in State : q = run[n - 1] /\ (HintsSized => TiledApart(q, n - 1, axis, tiled))
        BY <2>2
      <3>2. PICK r : r = run[n] /\ r = Put(q, list[n])
        BY <1>9, <3>1
      <3>3. n \in 0..k
        BY <1>4
      <3>4. CASE list[n] \notin tiled
        <4>1. r = q
          BY <1>3, <1>4, <3>2, <3>4
        <4>2. TiledApart(q, n - 1, axis, tiled) => TiledApart(q, n, axis, tiled)
          <5>1. \A i \in 1..n : list[i] \in tiled => i \in 1..(n - 1)
            BY <1>4, <3>4
          <5> QED
            BY <5>1 DEF TiledApart
        <4> QED
          BY <3>1, <3>2, <3>3, <4>1, <4>2
      <3>5. CASE list[n] \in tiled
        <4>1. PICK fix \in Rect :
                /\ r \in State /\ r.rc = [q.rc EXCEPT ![list[n]] = fix]
                /\ r.pt[axis] = q.pt[axis] + fix[axis].len
                /\ fix[axis].at = q.pt[axis] /\ (HintsSized => 0 <= fix[axis].len)
          <5>1. list[n] \in Window
            BY <1>4
          <5>2. \E fix \in Rect :
                   /\ Put(q, list[n]) \in State /\ Put(q, list[n]).rc = [q.rc EXCEPT ![list[n]] = fix]
                   /\ Put(q, list[n]).pt[axis] = q.pt[axis] + fix[axis].len
                   /\ fix[axis].at = q.pt[axis] /\ (HintsSized => 0 <= fix[axis].len)
            BY <1>3, <3>5, <5>1, Zenon
          <5> QED
            BY <3>2, <5>2, Zenon
        <4>2. HintsSized => TiledApart(r, n, axis, tiled)
          <5> HIDE DEF tiled
          <5> QED
            BY <3>1, <3>5, <4>1, TileNext DEF State
        <4> QED
          BY <3>2, <3>3, <4>1, <4>2
      <3> QED
        BY <3>4, <3>5
    <2> HIDE DEF good, k
    <2> QED
      BY <1>4, <2>1, <2>2, LoopInduction
  <1>11. run[k] \in State /\ (HintsSized => TiledApart(run[k], k, axis, tiled))
    BY <1>4, <1>10
  <1>12. DOMAIN list = 1..k
    BY KnownType
  <1> QED
    BY <1>1, <1>11, <1>12 DEF State, TiledApart
-----------------------------------------------------------------------------
(* Windows that are expanded *)

LEMMA ObstaclesType ==
    ASSUME LayoutInv
    PROVE  Obstacles \subseteq Rect
  <1>1. rcBar \in Rect
    <2>1. bar.thick \in Int
      BY BarsType DEF LayoutInv
    <2>2. ASSUME NEW a \in Axis PROVE rcBar[a] \in Span
      <3>1. Display[a] \in Int
        BY GeometryType
      <3>2. (IF AtStart(bar) THEN 0 ELSE Display[a] - bar.thick) \in Int
        BY <2>1, <3>1
      <3>3. rcBar[a] = IF a # BarAxis(bar) THEN [at |-> 0, len |-> Display[a]]
                       ELSE [at |-> IF AtStart(bar) THEN 0 ELSE Display[a] - bar.thick, len |-> bar.thick]
        BY DEF rcBar
      <3> QED
        BY <2>1, <3>1, <3>2, <3>3 DEF Span
    <2> QED
      BY <2>2 DEF rcBar, Rect
  <1>2. origin \in Point /\ rcPager \in Rect
    BY LayoutType DEF LayoutInv
  <1>3. Shift(rcBar, origin) \in Rect /\ Shift(rcPager, origin) \in Rect
    BY <1>1, <1>2, ShiftType
  <1>4. \A v \in Mapped : rc[v] \in Rect
    <2>1. \A v \in Mapped : v \in Window
      BY KnownType DEF Mapped
    <2> QED
      BY <2>1 DEF LayoutInv
  <1> QED
    BY <1>3, <1>4 DEF Obstacles

\* Where the left or upper side comes to lie: on the screen, behind everything before
\* the window, and no further on than one row or column if not at the edge.
LEMMA LowSide ==
    ASSUME LayoutInv, NEW orig \in Rect, NEW a \in Axis,
           NEW low, low = S!Max({Here[a].at} \cup LowStops(Obstacles, orig, a))
    PROVE  /\ low \in Int
           /\ \A t \in Obstacles : BesideOn(t, orig, a) /\ End(t[a]) - 1 <= orig[a].at => End(t[a]) <= low
           /\ low = Here[a].at \/ low <= orig[a].at + 1
  <1> DEFINE T == {Here[a].at} \cup LowStops(Obstacles, orig, a)
  <1>1. Here[a].at \in Int /\ orig[a].at \in Int
    BY ScreenType DEF Rect, Span
  <1>2. \A t \in Obstacles : End(t[a]) \in Int
    BY ObstaclesType DEF Rect, Span, End
  <1>3. \A y \in LowStops(Obstacles, orig, a) : y \in Int /\ y <= orig[a].at + 1
    BY <1>1, <1>2 DEF LowStops
  <1> DEFINE top == MaxOf(Here[a].at, orig[a].at + 1)
  <1>4. T \in SUBSET Int /\ T # {} /\ top \in Int /\ \A y \in T : y <= top
    BY <1>1, <1>3 DEF MaxOf
  <1>5. \A t \in Obstacles : BesideOn(t, orig, a) /\ End(t[a]) - 1 <= orig[a].at => End(t[a]) \in T
    BY DEF LowStops
  <1>6. \A y \in T : y = Here[a].at \/ y <= orig[a].at + 1
    BY <1>3
  <1>7. low = S!Max(T)
    OBVIOUS
  <1> HIDE DEF T, top
  <1>8. S!Max(T) \in T /\ \A y \in T : S!Max(T) >= y
    BY <1>4, MaxIsGreatest
  <1> QED
    BY <1>2, <1>4, <1>5, <1>6, <1>7, <1>8

\* Where the right or lower side comes to lie.
LEMMA HighSide ==
    ASSUME LayoutInv, NEW orig \in Rect, NEW a \in Axis,
           NEW high, high = S!Min({End(Here[a])} \cup {h + 1 : h \in HighStops(Obstacles, orig, a)})
    PROVE  /\ high \in Int
           /\ \A t \in Obstacles : BesideOn(t, orig, a) /\ End(orig[a]) - 1 <= t[a].at => high <= t[a].at + 2
  <1> DEFINE T == {End(Here[a])} \cup {h + 1 : h \in HighStops(Obstacles, orig, a)}
  <1>1. End(Here[a]) \in Int /\ End(orig[a]) \in Int
    BY ScreenType DEF Rect, Span, End
  <1>2. \A t \in Obstacles : t[a].at \in Int
    BY ObstaclesType DEF Rect, Span
  <1>3. \A y \in HighStops(Obstacles, orig, a) : y \in Int /\ End(orig[a]) <= y
    BY <1>1, <1>2 DEF HighStops
  <1> DEFINE bottom == MinOf(End(Here[a]), End(orig[a]))
  <1>4. T \in SUBSET Int /\ T # {} /\ bottom \in Int /\ \A y \in T : bottom <= y
    BY <1>1, <1>3 DEF MinOf
  <1>5. ASSUME NEW t \in Obstacles, BesideOn(t, orig, a), End(orig[a]) - 1 <= t[a].at
        PROVE  t[a].at + 2 \in T
    <2>1. t[a].at + 1 \in HighStops(Obstacles, orig, a)
      BY <1>5 DEF HighStops
    <2>2. (t[a].at + 1) + 1 \in T
      BY <2>1
    <2> QED
      BY <1>2, <2>2
  <1>6. high = S!Min(T)
    OBVIOUS
  <1> HIDE DEF T, bottom
  <1>7. S!Min(T) \in T /\ \A y \in T : S!Min(T) <= y
    BY <1>4, MinIsLeast
  <1> QED
    BY <1>4, <1>5, <1>6, <1>7

\* A side that stays, or one that is stopped.
LowSaid(low, orig, a, moves) ==
    IF ~moves THEN low = orig[a].at
    ELSE /\ \A t \in Obstacles : BesideOn(t, orig, a) /\ End(t[a]) - 1 <= orig[a].at => End(t[a]) <= low
         /\ low = Here[a].at \/ low <= orig[a].at + 1

HighSaid(high, orig, a, moves) ==
    IF ~moves THEN high = End(orig[a])
    ELSE \A t \in Obstacles : BesideOn(t, orig, a) /\ End(orig[a]) - 1 <= t[a].at => high <= t[a].at + 2

\* What ExpandWindow gives a window.
LEMMA ExpandedIs ==
    ASSUME LayoutInv, NEW w \in Window, NEW dirs
    PROVE  /\ Expanded(w, dirs) \in Rect
           /\ \A a \in Axis : \E low, high \in Int :
                /\ Expanded(w, dirs)[a].at = low
                /\ Expanded(w, dirs)[a].len <= MaxOf(high - low, Hints[w][a].base)
                /\ LowSaid(low, rc[w], a, <<a, -1>> \in dirs)
                /\ HighSaid(high, rc[w], a, <<a, 1>> \in dirs)
  <1> DEFINE orig == rc[w]
             lows == [a \in Axis |-> IF <<a, -1>> \notin dirs THEN orig[a].at
                                     ELSE S!Max({Here[a].at} \cup LowStops(Obstacles, orig, a))]
             highs == [a \in Axis |-> IF <<a, 1>> \notin dirs THEN End(orig[a])
                                      ELSE S!Min({End(Here[a])} \cup {h + 1 : h \in HighStops(Obstacles, orig, a)})]
             wanted == [a \in Axis |-> [at |-> lows[a], len |-> highs[a] - lows[a]]]
  <1>1. Expanded(w, dirs) = Fit(w, wanted)
    BY Zenon DEF Expanded
  <1>2. orig \in Rect
    BY DEF LayoutInv
  <1>3. ASSUME NEW a \in Axis
        PROVE  lows[a] \in Int /\ LowSaid(lows[a], orig, a, <<a, -1>> \in dirs)
    <2>1. CASE <<a, -1>> \notin dirs
      <3>1. lows[a] = orig[a].at /\ orig[a].at \in Int
        BY <1>2, <2>1 DEF Rect, Span
      <3> HIDE DEF lows, orig
      <3> QED
        BY <2>1, <3>1 DEF LowSaid
    <2>2. CASE <<a, -1>> \in dirs
      <3>1. lows[a] = S!Max({Here[a].at} \cup LowStops(Obstacles, orig, a))
        BY <2>2
      <3> HIDE DEF lows, orig
      <3> QED
        BY <1>2, <2>2, <3>1, LowSide DEF LowSaid
    <2> QED
      BY <2>1, <2>2
  <1>4. ASSUME NEW a \in Axis
        PROVE  highs[a] \in Int /\ HighSaid(highs[a], orig, a, <<a, 1>> \in dirs)
    <2>1. CASE <<a, 1>> \notin dirs
      <3>1. highs[a] = End(orig[a]) /\ End(orig[a]) \in Int
        BY <1>2, <2>1 DEF Rect, Span, End
      <3> HIDE DEF highs, orig
      <3> QED
        BY <2>1, <3>1 DEF HighSaid
    <2>2. CASE <<a, 1>> \in dirs
      <3>1. highs[a] = S!Min({End(Here[a])} \cup {h + 1 : h \in HighStops(Obstacles, orig, a)})
        BY <2>2
      <3> HIDE DEF highs, orig
      <3> QED
        BY <1>2, <2>2, <3>1, HighSide DEF HighSaid
    <2> QED
      BY <2>1, <2>2
  <1> HIDE DEF lows, highs
  <1>5. wanted \in Rect /\ \A a \in Axis : wanted[a].at = lows[a] /\ wanted[a].len = highs[a] - lows[a]
    <2>1. \A a \in Axis : lows[a] \in Int /\ highs[a] \in Int
      BY <1>3, <1>4
    <2> QED
      BY <2>1 DEF Rect, Span
  <1> HIDE DEF wanted
  <1>6. /\ Fit(w, wanted) \in Rect
        /\ \A a \in Axis : /\ Fit(w, wanted)[a].at = wanted[a].at
                           /\ Fit(w, wanted)[a].len <= MaxOf(wanted[a].len, Hints[w][a].base)
    <2>1. rcScreen \in Rect
      BY ScreenType
    <2> QED
      BY <1>5, <2>1, FitKeeps
  <1>7. ASSUME NEW a \in Axis
        PROVE  /\ Expanded(w, dirs)[a].at = lows[a]
               /\ Expanded(w, dirs)[a].len <= MaxOf(highs[a] - lows[a], Hints[w][a].base)
    BY <1>1, <1>5, <1>6
  <1> QED
    BY <1>1, <1>3, <1>4, <1>6, <1>7

\* What is two rows or columns short of the expanded window, and one short on either
\* side, was under the window already.
LEMMA ExpandedStops ==
    ASSUME LayoutInv, NEW w \in Window, NEW dir \in Sides, NEW r \in Rect, r = Expanded(w, {dir}),
           Here[dir[1]].at <= rc[w][dir[1]].at,
           \A c \in Axis : Hints[w][c].base <= rc[w][c].len,
           NEW inner \in Rect, NEW a \in Axis, NEW b \in Axis, a = dir[1], b = Other(a),
           inner[a].at = r[a].at, inner[a].len = r[a].len - 2,
           inner[b].at = r[b].at + 1, inner[b].len = r[b].len - 2,
           NEW t \in Obstacles, Overlapping(inner, t)
    PROVE  Overlapping(rc[w], t)
  <1> DEFINE orig == rc[w]
  <1>0. dir = <<a, dir[2]>> /\ dir[2] \in {-1, 1} /\ a # b /\ Axis = {a, b}
    BY DEF Sides, Axis, Other
  <1>1. t \in Rect /\ orig \in Rect
    BY ObstaclesType DEF LayoutInv
  <1>2. ASSUME NEW c \in Axis
        PROVE  /\ t[c].at \in Int /\ t[c].len \in Int /\ End(t[c]) = t[c].at + t[c].len
               /\ orig[c].at \in Int /\ orig[c].len \in Int /\ End(orig[c]) = orig[c].at + orig[c].len
               /\ r[c].at \in Int /\ r[c].len \in Int
               /\ Hints[w][c].base \in Int /\ Here[c].at \in Int /\ Hints[w][c].base <= orig[c].len
               /\ End(inner[c]) = inner[c].at + inner[c].len
               /\ inner[c].at < End(t[c]) /\ t[c].at < End(inner[c])
    <2>1. t[c] \in Span /\ orig[c] \in Span /\ r[c] \in Span /\ Here[c] \in Span
      BY <1>1, ScreenType DEF Rect
    <2>2. Hints[w][c].base \in Int
      BY GeometryType DEF HintsType
    <2>3. inner[c].at < End(t[c]) /\ t[c].at < End(inner[c])
      BY DEF Overlapping
    <2> QED
      BY <2>1, <2>2, <2>3 DEF Span, End
  <1> HIDE DEF orig
  <1>a. /\ t[a].at \in Int /\ t[a].len \in Int /\ End(t[a]) = t[a].at + t[a].len
        /\ orig[a].at \in Int /\ orig[a].len \in Int /\ End(orig[a]) = orig[a].at + orig[a].len
        /\ r[a].at \in Int /\ r[a].len \in Int
        /\ Hints[w][a].base \in Int /\ Here[a].at \in Int /\ Hints[w][a].base <= orig[a].len
        /\ r[a].at < End(t[a]) /\ t[a].at < r[a].at + (r[a].len - 2)
    <2>1. End(inner[a]) = inner[a].at + inner[a].len /\ inner[a].at < End(t[a]) /\ t[a].at < End(inner[a])
      BY <1>2, Zenon
    <2>2. r[a].at < End(t[a]) /\ t[a].at < r[a].at + (r[a].len - 2)
      BY <2>1
    <2> QED
      BY <1>2, <2>2
  <1>b. /\ t[b].at \in Int /\ t[b].len \in Int /\ End(t[b]) = t[b].at + t[b].len
        /\ orig[b].at \in Int /\ orig[b].len \in Int /\ End(orig[b]) = orig[b].at + orig[b].len
        /\ r[b].at \in Int /\ r[b].len \in Int
        /\ Hints[w][b].base \in Int /\ Hints[w][b].base <= orig[b].len
        /\ r[b].at + 1 < End(t[b]) /\ t[b].at < r[b].at + 1 + (r[b].len - 2)
    <2>1. End(inner[b]) = inner[b].at + inner[b].len /\ inner[b].at < End(t[b]) /\ t[b].at < End(inner[b])
      BY <1>2, Zenon
    <2>2. r[b].at + 1 < End(t[b]) /\ t[b].at < r[b].at + 1 + (r[b].len - 2)
      BY <2>1
    <2> QED
      BY <1>2, <2>2
  <1>4. r[b].at = orig[b].at /\ r[b].len <= orig[b].len
    <2>1. <<b, -1>> \notin {dir} /\ <<b, 1>> \notin {dir}
      BY <1>0
    <2>2. PICK low, high \in Int :
            /\ r[b].at = low /\ r[b].len <= MaxOf(high - low, Hints[w][b].base)
            /\ low = orig[b].at /\ high = End(orig[b])
      BY <2>1, ExpandedIs DEF orig, LowSaid, HighSaid
    <2>3. high - low = orig[b].len
      BY <1>b, <2>2
    <2> QED
      BY <1>b, <2>2, <2>3 DEF MaxOf
  <1>5. BesideOn(t, orig, a) /\ orig[b].at < End(t[b]) /\ t[b].at < End(orig[b])
    <2>1. End(t[b]) - 1 > orig[b].at /\ t[b].at < End(orig[b]) - 1
      BY <1>b, <1>4
    <2>2. BesideOn(t, orig, a)
      BY <2>1 DEF BesideOn
    <2> QED
      BY <1>b, <2>1, <2>2
  <1>6. orig[a].at < End(t[a]) /\ t[a].at < End(orig[a])
    <2>0. PICK low, high \in Int :
            /\ r[a].at = low /\ r[a].len <= MaxOf(high - low, Hints[w][a].base)
            /\ LowSaid(low, orig, a, <<a, -1>> \in {dir})
            /\ HighSaid(high, orig, a, <<a, 1>> \in {dir})
      BY ExpandedIs DEF orig
    <2>3. low < End(t[a]) /\ t[a].at < low + (r[a].len - 2)
          /\ (r[a].len <= high - low \/ r[a].len <= orig[a].len)
      BY <1>a, <2>0 DEF MaxOf
    <2>1. CASE dir[2] = 1
      <3>1. ~(<<a, -1>> \in {dir}) /\ <<a, 1>> \in {dir}
        BY <1>0, <2>1
      <3>2. low = orig[a].at
        BY <2>0, <3>1 DEF LowSaid
      <3>3. End(orig[a]) - 1 <= t[a].at => high <= t[a].at + 2
        BY <1>5, <2>0, <3>1 DEF HighSaid
      <3> QED
        BY <1>a, <2>3, <3>2, <3>3
    <2>2. CASE dir[2] = -1
      <3>1. <<a, -1>> \in {dir} /\ ~(<<a, 1>> \in {dir})
        BY <1>0, <2>2
      <3>2. high = End(orig[a])
        BY <2>0, <3>1 DEF HighSaid
      <3>3. End(t[a]) - 1 <= orig[a].at => End(t[a]) <= low
        BY <1>5, <2>0, <3>1 DEF LowSaid
      <3>4. low <= orig[a].at + 1
        <4>1. low = Here[a].at \/ low <= orig[a].at + 1
          BY <2>0, <3>1 DEF LowSaid
        <4> QED
          BY <1>a, <4>1 DEF orig
      <3> QED
        BY <1>a, <2>3, <3>2, <3>3, <3>4
    <2> QED
      BY <1>0, <2>1, <2>2
  <1> QED
    BY <1>0, <1>5, <1>6 DEF Overlapping, orig
-----------------------------------------------------------------------------
(* Windows that are moved *)

LEMMA OtherIs == \A a \in Axis : Other(a) \in Axis /\ Other(a) # a /\ Axis = {a, Other(a)}
  BY DEF Axis, Other

PutAt(u, t, a, x) == u = [t EXCEPT ![a].at = x]

LEMMA PutAtType ==
    ASSUME NEW t \in Rect, NEW a \in Axis, NEW x \in Int, NEW u, PutAt(u, t, a, x)
    PROVE  /\ u \in Rect /\ u[a].at = x /\ u[a].len = t[a].len
           /\ u[Other(a)] = t[Other(a)]
           /\ \A c \in Axis : u[c].len = t[c].len
  <1>1. t[a] \in Span
    BY DEF Rect
  <1>2. u = [t EXCEPT ![a] = [at |-> x, len |-> t[a].len]]
    <2>1. [t[a] EXCEPT !.at = x] = [at |-> x, len |-> t[a].len]
      BY <1>1 DEF Span
    <2>2. u = [t EXCEPT ![a] = [t[a] EXCEPT !.at = x]]
      BY Zenon DEF PutAt
    <2> QED
      BY <2>1, <2>2
  <1>3. [at |-> x, len |-> t[a].len] \in Span
    BY <1>1 DEF Span
  <1>4. u \in Rect /\ u[a] = [at |-> x, len |-> t[a].len]
    BY <1>2, <1>3 DEF Rect
  <1>5. \A c \in Axis : c # a => u[c] = t[c]
    BY <1>2 DEF Rect
  <1> QED
    BY <1>4, <1>5, OtherIs

\* Windows longer than SnappingMove snap one way only.
Long(t) == \A a \in Axis : SnappingMove < t[a].len

Resized(t, u) == \E a \in Axis : u[a].len # t[a].len

Behind(t, s, a) == t[a].at = End(s[a])
InFront(t, s, a) == End(t[a]) = s[a].at
Even(t, s, a) == t[a].at = s[a].at \/ End(t[a]) = End(s[a])

\* How far u is from t on an axis.
Within(t, u, a, d) == u[a].at - t[a].at <= d /\ t[a].at - u[a].at <= d

LEMMA LinedUpIs ==
    ASSUME NEW t \in Rect, NEW s \in Rect, Long(t), Long(s), NEW a \in Axis,
           NEW u, u = LinedUp(t, s, a)
    PROVE  /\ u \in Rect /\ ~Resized(t, u) /\ u[Other(a)] = t[Other(a)]
           /\ Within(t, u, a, 2 * SnappingMove)
           /\ u[a].at = t[a].at \/ Even(u, s, a)
           /\ Behind(t, s, a) \/ InFront(t, s, a) => u[a].at = t[a].at
  <1> DEFINE far == IF Near(End(t[a]), End(s[a])) THEN End(s[a]) - t[a].len ELSE t[a].at
             near == IF Near(far, s[a].at) THEN s[a].at ELSE far
  <1>1. u = [t EXCEPT ![a].at = near]
    BY Zenon DEF LinedUp
  <1>2. t[a].at \in Int /\ t[a].len \in Int /\ s[a].at \in Int /\ s[a].len \in Int
    BY DEF Rect, Span
  <1>3. SnappingMove \in Nat /\ SnappingMove < t[a].len /\ SnappingMove < s[a].len
    BY GeometryType DEF Long
  <1>4. near \in Int /\ (near = t[a].at \/ near = s[a].at \/ near + t[a].len = s[a].at + s[a].len)
        /\ near - t[a].at <= 2 * SnappingMove /\ t[a].at - near <= 2 * SnappingMove
    BY <1>2, <1>3 DEF Near, Abs, End
  <1>5. t[a].at = s[a].at + s[a].len \/ t[a].at + t[a].len = s[a].at => near = t[a].at
    BY <1>2, <1>3 DEF Near, Abs, End
  <1> HIDE DEF near, far
  <1>6. u \in Rect /\ u[a].at = near /\ u[a].len = t[a].len /\ u[Other(a)] = t[Other(a)]
        /\ \A c \in Axis : u[c].len = t[c].len
    <2>1. near \in Int
      BY <1>4
    <2>2. PutAt(u, t, a, near)
      BY <1>1 DEF PutAt
    <2> QED
      BY <2>1, <2>2, PutAtType
  <1> QED
    BY <1>4, <1>5, <1>6 DEF Resized, Within, Even, Behind, InFront, End

LEMMA JoinedIs ==
    ASSUME NEW t \in Rect, NEW s \in Rect, Long(t), Long(s), NEW a \in Axis,
           NEW behind \in BOOLEAN, NEW lineUp \in BOOLEAN, NEW u, u = Joined(t, s, a, behind, lineUp)
    PROVE  /\ u \in Rect /\ ~Resized(t, u)
           /\ Within(t, u, a, SnappingMove) /\ Within(t, u, Other(a), 2 * SnappingMove)
           /\ u = t \/ IF behind THEN Behind(u, s, a) ELSE InFront(u, s, a)
           /\ u[Other(a)].at = t[Other(a)].at \/ Even(u, s, Other(a))
           /\ Even(t, s, a) => u = t
           /\ Behind(t, s, a) \/ InFront(t, s, a) => u[a].at = t[a].at
           /\ ~behind /\ Behind(t, s, a) => u = t
           /\ behind /\ InFront(t, s, a) => u = t
           /\ Behind(t, s, Other(a)) \/ InFront(t, s, Other(a)) => u[Other(a)].at = t[Other(a)].at
           /\ ~lineUp => u[Other(a)].at = t[Other(a)].at
  <1> DEFINE b == Other(a)
             apart == IF behind THEN Near(End(s[a]), t[a].at) ELSE Near(End(t[a]), s[a].at)
             x == IF behind THEN End(s[a]) ELSE s[a].at - t[a].len
             joined == [t EXCEPT ![a].at = x]
  <1>1. u = IF ~apart THEN t ELSE IF lineUp THEN LinedUp(joined, s, b) ELSE joined
    BY Zenon DEF Joined
  <1>2. /\ t[a].at \in Int /\ t[a].len \in Int /\ s[a].at \in Int /\ s[a].len \in Int
        /\ t[b].at \in Int /\ t[b].len \in Int /\ s[b].at \in Int /\ s[b].len \in Int
        /\ b \in Axis /\ a # b /\ Axis = {a, b} /\ Other(b) = a
    BY OtherIs DEF Rect, Span, Other, Axis
  <1>3. /\ SnappingMove \in Nat /\ SnappingMove < t[a].len /\ SnappingMove < s[a].len
    BY GeometryType DEF Long
  <1>4. x \in Int /\ (apart => x - t[a].at <= SnappingMove /\ t[a].at - x <= SnappingMove)
        /\ (behind => x = End(s[a])) /\ (~behind => x + t[a].len = s[a].at)
    BY <1>2, <1>3 DEF Near, Abs, End
  <1>e. Even(t, s, a) => ~apart
    BY <1>2, <1>3 DEF Near, Abs, End, Even
  <1>f. ~behind /\ Behind(t, s, a) => ~apart
    BY <1>2, <1>3 DEF Near, Abs, End, Behind
  <1>g. behind /\ InFront(t, s, a) => ~apart
    BY <1>2, <1>3 DEF Near, Abs, End, InFront
  <1>h. apart /\ (Behind(t, s, a) \/ InFront(t, s, a)) => x = t[a].at
    <2>1. Behind(t, s, a) /\ behind => x = t[a].at
      BY DEF Behind
    <2>2. InFront(t, s, a) /\ ~behind => x = t[a].at
      BY <1>2 DEF InFront, End
    <2> HIDE DEF x, apart
    <2> QED
      BY <1>f, <1>g, <2>1, <2>2
  <1>5. /\ Even(t, s, a) => ~apart
        /\ ~behind /\ Behind(t, s, a) => ~apart
        /\ behind /\ InFront(t, s, a) => ~apart
        /\ apart /\ (Behind(t, s, a) \/ InFront(t, s, a)) => x = t[a].at
    BY <1>e, <1>f, <1>g, <1>h, Zenon
  <1> HIDE DEF x
  <1>6. /\ joined \in Rect /\ joined[a].at = x /\ joined[a].len = t[a].len /\ joined[b] = t[b]
        /\ \A c \in Axis : joined[c].len = t[c].len
    <2>1. x \in Int
      BY <1>4
    <2>2. PutAt(joined, t, a, x)
      BY DEF PutAt
    <2> HIDE DEF joined
    <2> QED
      BY <2>1, <2>2, PutAtType
  <1> HIDE DEF joined, apart
  <1>7. Long(joined)
    BY <1>6 DEF Long
  <1>8. PICK v : /\ v = LinedUp(joined, s, b)
                 /\ v \in Rect /\ ~Resized(joined, v) /\ v[a] = joined[a]
                 /\ Within(joined, v, b, 2 * SnappingMove)
                 /\ v[b].at = joined[b].at \/ Even(v, s, b)
                 /\ Behind(joined, s, b) \/ InFront(joined, s, b) => v[b].at = joined[b].at
    BY <1>2, <1>6, <1>7, LinedUpIs
  <1> HIDE DEF b
  <1>9. CASE ~apart
    <2>1. u = t
      BY <1>1, <1>9
    <2>2. Within(t, t, a, SnappingMove) /\ Within(t, t, b, 2 * SnappingMove)
      BY <1>2, <1>3 DEF Within
    <2> QED
      BY <2>1, <2>2 DEF Resized, b
  <1>10. CASE apart /\ ~lineUp
    <2>1. u = joined
      BY <1>1, <1>10
    <2>2. Within(t, u, a, SnappingMove) /\ Within(t, u, b, 2 * SnappingMove) /\ ~Resized(t, u)
      BY <1>2, <1>3, <1>4, <1>6, <1>10, <2>1 DEF Within, Resized
    <2>3. IF behind THEN Behind(u, s, a) ELSE InFront(u, s, a)
      BY <1>4, <1>6, <2>1 DEF Behind, InFront, End
    <2> QED
      BY <1>5, <1>6, <1>10, <2>1, <2>2, <2>3 DEF b
  <1>11. CASE apart /\ lineUp
    <2>1. u = v
      BY <1>1, <1>8, <1>11
    <2>2. u[a].at = x /\ u[a].len = t[a].len /\ ~Resized(t, u)
      BY <1>6, <1>8, <2>1 DEF Resized
    <2>3. Within(t, u, a, SnappingMove) /\ Within(t, u, b, 2 * SnappingMove)
      BY <1>4, <1>6, <1>8, <1>11, <2>1, <2>2 DEF Within
    <2>4. IF behind THEN Behind(u, s, a) ELSE InFront(u, s, a)
      BY <1>4, <2>2 DEF Behind, InFront, End
    <2>5. u[b].at = t[b].at \/ Even(u, s, b)
      BY <1>6, <1>8, <2>1
    <2>6. Behind(t, s, b) \/ InFront(t, s, b) => u[b].at = t[b].at
      BY <1>6, <1>8, <2>1 DEF Behind, InFront
    <2> QED
      BY <1>5, <1>8, <1>11, <2>1, <2>2, <2>3, <2>4, <2>5, <2>6 DEF b
  <1> QED
    BY <1>9, <1>10, <1>11

\* Of the two sides of a window, one attracts at most.
LEMMA SnappedIs ==
    ASSUME NEW t \in Rect, NEW s \in Rect, Long(t), Long(s), NEW a \in Axis,
           NEW behind \in BOOLEAN, NEW lineUp \in BOOLEAN, NEW u, u = Snapped(t, s, a, behind, lineUp)
    PROVE  /\ u \in Rect /\ ~Resized(t, u)
           /\ Within(t, u, a, SnappingMove) /\ Within(t, u, Other(a), 2 * SnappingMove)
           /\ u = t \/ Behind(u, s, a) \/ InFront(u, s, a)
           /\ u[Other(a)].at = t[Other(a)].at \/ Even(u, s, Other(a))
           /\ Even(t, s, a) => u = t
           /\ Behind(t, s, a) \/ InFront(t, s, a) => u[a].at = t[a].at
           /\ Behind(t, s, Other(a)) \/ InFront(t, s, Other(a)) => u[Other(a)].at = t[Other(a)].at
           /\ ~lineUp => u[Other(a)].at = t[Other(a)].at
  <1> DEFINE b == Other(a)
             first == Joined(t, s, a, behind, lineUp)
  <1>0. PICK other \in BOOLEAN : other = ~behind
    BY Zenon
  <1> DEFINE second == Joined(first, s, a, other, lineUp)
  <1>1. u = IF ~Touch(t, s, b) THEN t ELSE second
    <2>1. u = IF ~Touch(t, s, b) THEN t ELSE Joined(first, s, a, ~behind, lineUp)
      BY Zenon DEF Snapped
    <2> QED
      BY <1>0, <2>1, Zenon
  <1>2. /\ first \in Rect /\ ~Resized(t, first)
        /\ Within(t, first, a, SnappingMove) /\ Within(t, first, b, 2 * SnappingMove)
        /\ first = t \/ IF behind THEN Behind(first, s, a) ELSE InFront(first, s, a)
        /\ first[b].at = t[b].at \/ Even(first, s, b)
        /\ Even(t, s, a) => first = t
        /\ Behind(t, s, a) \/ InFront(t, s, a) => first[a].at = t[a].at
        /\ Behind(t, s, b) \/ InFront(t, s, b) => first[b].at = t[b].at
        /\ ~lineUp => first[b].at = t[b].at
    BY JoinedIs
  <1>3. Long(first)
    BY <1>2 DEF Long, Resized
  <1>4. /\ second \in Rect /\ ~Resized(first, second)
        /\ Within(first, second, a, SnappingMove) /\ Within(first, second, b, 2 * SnappingMove)
        /\ second = first \/ IF other THEN Behind(second, s, a) ELSE InFront(second, s, a)
        /\ second[b].at = first[b].at \/ Even(second, s, b)
        /\ Even(first, s, a) => second = first
        /\ Behind(first, s, a) \/ InFront(first, s, a) => second[a].at = first[a].at
        /\ ~other /\ Behind(first, s, a) => second = first
        /\ other /\ InFront(first, s, a) => second = first
        /\ Behind(first, s, b) \/ InFront(first, s, b) => second[b].at = first[b].at
        /\ ~lineUp => second[b].at = first[b].at
    <2> HIDE DEF first
    <2> QED
      BY <1>2, <1>3, JoinedIs
  <1> HIDE DEF first, second, b
  <1>5. first = t \/ second = first
    BY <1>0, <1>2, <1>4
  <1>6. Within(t, t, a, SnappingMove) /\ Within(t, t, b, 2 * SnappingMove) /\ ~Resized(t, t)
    BY GeometryType, OtherIs DEF Within, Resized, Rect, Span, b
  <1>7. CASE u = t
    BY <1>6, <1>7 DEF b
  <1>8. CASE first = t /\ u = second
    BY <1>4, <1>8 DEF b
  <1>9. CASE second = first /\ u = second
    BY <1>2, <1>9 DEF b
  <1> QED
    BY <1>1, <1>5, <1>7, <1>8, <1>9

\* A window that attracts takes the moved one no further than SnappingMove twice.
LEMMA SnapToIs ==
    ASSUME NEW t \in Rect, NEW s \in Rect, Long(t), Long(s), NEW u, u = SnapTo(t, s)
    PROVE  ~Resized(t, u) /\ \A a \in Axis : Within(t, u, a, 2 * SnappingMove)
  <1>0. "x" \in Axis /\ "y" \in Axis /\ Other("x") = "y" /\ Other("y") = "x" /\ Axis = {"x", "y"}
    BY DEF Axis, Other
  <1>b. PICK yes, no \in BOOLEAN : yes = TRUE /\ no = FALSE
    OBVIOUS
  <1> DEFINE first == Snapped(t, s, "x", yes, yes)
             second == Snapped(first, s, "y", no, yes)
             third == Snapped(second, s, "x", no, no)
  <1>1. /\ first \in Rect /\ ~Resized(t, first)
        /\ Within(t, first, "x", SnappingMove) /\ Within(t, first, "y", 2 * SnappingMove)
        /\ first = t \/ Behind(first, s, "x") \/ InFront(first, s, "x")
        /\ first["y"].at = t["y"].at \/ Even(first, s, "y")
    <2>1. /\ first \in Rect /\ ~Resized(t, first)
          /\ Within(t, first, "x", SnappingMove) /\ Within(t, first, Other("x"), 2 * SnappingMove)
          /\ first = t \/ Behind(first, s, "x") \/ InFront(first, s, "x")
          /\ first[Other("x")].at = t[Other("x")].at \/ Even(first, s, Other("x"))
      BY <1>0, SnappedIs
    <2> HIDE DEF first
    <2> QED
      BY <1>0, <2>1
  <1> HIDE DEF first
  <1>2. Long(first)
    BY <1>1 DEF Long, Resized
  <1>3. /\ second \in Rect /\ ~Resized(first, second)
        /\ Within(first, second, "y", SnappingMove) /\ Within(first, second, "x", 2 * SnappingMove)
        /\ second["x"].at = first["x"].at \/ Even(second, s, "x")
        /\ Even(first, s, "y") => second = first
        /\ Behind(first, s, "x") \/ InFront(first, s, "x") => second["x"].at = first["x"].at
    <2>1. /\ second \in Rect /\ ~Resized(first, second)
          /\ Within(first, second, "y", SnappingMove) /\ Within(first, second, Other("y"), 2 * SnappingMove)
          /\ second[Other("y")].at = first[Other("y")].at \/ Even(second, s, Other("y"))
          /\ Even(first, s, "y") => second = first
          /\ Behind(first, s, Other("y")) \/ InFront(first, s, Other("y")) =>
                second[Other("y")].at = first[Other("y")].at
      BY <1>0, <1>1, <1>2, SnappedIs
    <2> HIDE DEF second
    <2> QED
      BY <1>0, <2>1
  <1> HIDE DEF second
  <1>4. Long(second)
    BY <1>2, <1>3 DEF Long, Resized
  <1>5. /\ third \in Rect /\ ~Resized(second, third)
        /\ Within(second, third, "x", SnappingMove)
        /\ Even(second, s, "x") => third = second
        /\ Behind(second, s, "x") \/ InFront(second, s, "x") => third["x"].at = second["x"].at
        /\ third["y"].at = second["y"].at
    <2>1. /\ third \in Rect /\ ~Resized(second, third)
          /\ Within(second, third, "x", SnappingMove)
          /\ Even(second, s, "x") => third = second
          /\ Behind(second, s, "x") \/ InFront(second, s, "x") => third["x"].at = second["x"].at
          /\ ~no => third[Other("x")].at = second[Other("x")].at
      BY <1>0, <1>3, <1>4, SnappedIs
    <2> HIDE DEF third
    <2> QED
      BY <1>0, <1>b, <2>1
  <1>6. u = third
    BY <1>b, Zenon DEF SnapTo, third, second, first
  <1> HIDE DEF third
  <1>7. ~Resized(t, u)
    BY <1>1, <1>3, <1>5, <1>6 DEF Resized
  <1>8. /\ SnappingMove \in Nat
        /\ \A r \in {t, first, second, third} : r["x"].at \in Int /\ r["y"].at \in Int
    BY <1>0, <1>1, <1>3, <1>5, GeometryType DEF Rect, Span
  <1>9. Within(t, u, "x", 2 * SnappingMove)
    <2>1. CASE first = t /\ second["x"].at = first["x"].at
      BY <1>5, <1>6, <1>8, <2>1 DEF Within
    <2>2. CASE first = t /\ Even(second, s, "x")
      BY <1>3, <1>5, <1>6, <1>8, <2>2 DEF Within
    <2>3. CASE Behind(first, s, "x") \/ InFront(first, s, "x")
      <3>1. second["x"].at = first["x"].at
        BY <1>3, <2>3
      <3>2. Behind(second, s, "x") \/ InFront(second, s, "x")
        BY <1>0, <1>3, <2>3, <3>1 DEF Behind, InFront, End, Resized
      <3>3. third["x"].at = first["x"].at
        BY <1>5, <3>1, <3>2
      <3> QED
        BY <1>1, <1>6, <1>8, <3>3 DEF Within
    <2> QED
      BY <1>1, <1>3, <2>1, <2>2, <2>3
  <1>10. Within(t, u, "y", 2 * SnappingMove)
    <2>1. CASE first["y"].at = t["y"].at
      BY <1>3, <1>5, <1>6, <1>8, <2>1 DEF Within
    <2>2. CASE Even(first, s, "y")
      <3>1. third["y"].at = first["y"].at
        BY <1>3, <1>5, <2>2
      <3> QED
        BY <1>1, <1>6, <1>8, <3>1 DEF Within
    <2> QED
      BY <1>1, <2>1, <2>2
  <1> QED
    BY <1>0, <1>7, <1>9, <1>10

\* However long the windows are, a rectangle is left that is as long.
LEMMA SnapToType ==
    ASSUME NEW t \in Rect, NEW s \in Rect
    PROVE  SnapTo(t, s) \in Rect
  <1>1. ASSUME NEW r \in Rect, NEW a \in Axis PROVE LinedUp(r, s, a) \in Rect
    <2> DEFINE far == IF Near(End(r[a]), End(s[a])) THEN End(s[a]) - r[a].len ELSE r[a].at
               near == IF Near(far, s[a].at) THEN s[a].at ELSE far
    <2>1. PutAt(LinedUp(r, s, a), r, a, near)
      BY Zenon DEF LinedUp, PutAt
    <2>2. near \in Int
      BY DEF Rect, Span, End
    <2> HIDE DEF near
    <2> QED
      BY <2>1, <2>2, PutAtType
  <1>2. ASSUME NEW r \in Rect, NEW a \in Axis, NEW behind, NEW lineUp
        PROVE  Joined(r, s, a, behind, lineUp) \in Rect
    <2> DEFINE apart == IF behind THEN Near(End(s[a]), r[a].at) ELSE Near(End(r[a]), s[a].at)
               x == IF behind THEN End(s[a]) ELSE s[a].at - r[a].len
               joined == [r EXCEPT ![a].at = x]
    <2>1. Joined(r, s, a, behind, lineUp) =
            IF ~apart THEN r ELSE IF lineUp THEN LinedUp(joined, s, Other(a)) ELSE joined
      BY Zenon DEF Joined
    <2>2. x \in Int
      BY DEF Rect, Span, End
    <2>3. PutAt(joined, r, a, x)
      BY DEF PutAt
    <2> HIDE DEF joined, apart, x
    <2>4. joined \in Rect
      BY <2>2, <2>3, PutAtType
    <2>5. LinedUp(joined, s, Other(a)) \in Rect
      BY <1>1, <2>4, OtherIs
    <2> QED
      BY <2>1, <2>4, <2>5
  <1>3. ASSUME NEW r \in Rect, NEW a \in Axis, NEW behind, NEW lineUp
        PROVE  Snapped(r, s, a, behind, lineUp) \in Rect
    <2>1. PICK q \in Rect : q = Joined(r, s, a, behind, lineUp)
      BY <1>2
    <2>2. PICK p \in Rect : p = Joined(q, s, a, ~behind, lineUp)
      BY <1>2
    <2> QED
      BY <2>1, <2>2 DEF Snapped
  <1>4. "x" \in Axis /\ "y" \in Axis
    BY DEF Axis
  <1>5. PICK p \in Rect : p = Snapped(t, s, "x", TRUE, TRUE)
    BY <1>3, <1>4
  <1>6. PICK q \in Rect : q = Snapped(p, s, "y", FALSE, TRUE)
    BY <1>3, <1>4
  <1>7. PICK r \in Rect : r = Snapped(q, s, "x", FALSE, FALSE)
    BY <1>3, <1>4
  <1> QED
    BY <1>5, <1>6, <1>7 DEF SnapTo

\* The edges of the screen take a window that fits on it a little way.
LEMMA ToScreenNear ==
    ASSUME NEW r \in Rect, NEW scr \in Rect, \A a \in Axis : r[a].len <= scr[a].len,
           NEW a \in Axis
    PROVE  Within(r, FixToScreen(r, scr), a, 2 * SnappingEdges + EdgeResistance)
  <1>1. /\ SnappingEdges \in Nat /\ EdgeResistance \in Nat
        /\ scr[a].at \in Int /\ scr[a].len \in Int /\ r[a].at \in Int /\ r[a].len \in Int
        /\ r[a].len <= scr[a].len /\ End(scr[a]) = scr[a].at + scr[a].len
    BY GeometryType DEF Rect, Span, End
  <1>2. PICK s \in Rect : s = (IF SnappingEdges = 0 THEN r ELSE SnapToScreen(r, scr))
                          /\ s[a].len = r[a].len /\ Within(r, s, a, 2 * SnappingEdges)
    <2>1. CASE SnappingEdges = 0
      BY <1>1, <2>1 DEF Within
    <2>2. CASE SnappingEdges # 0
      <3> DEFINE s == SnapToScreen(r, scr)
                 toEnd == IF Abs(End(scr[a]) - End(r[a])) <= SnappingEdges
                          THEN End(scr[a]) - r[a].len ELSE r[a].at
                 at == IF Abs(scr[a].at - toEnd) <= SnappingEdges THEN scr[a].at ELSE toEnd
      <3>1. s \in Rect
        BY GeometryType DEF SnapToScreen, Rect, Span, End, Axis
      <3>2. s[a] = [r[a] EXCEPT !.at = at]
        BY Zenon DEF SnapToScreen
      <3>3. at \in Int /\ at - r[a].at <= 2 * SnappingEdges /\ r[a].at - at <= 2 * SnappingEdges
        BY <1>1 DEF Abs, End
      <3> HIDE DEF s, at
      <3>4. r[a] \in Span
        BY DEF Rect
      <3>5. s[a].at = at /\ s[a].len = r[a].len
        BY <3>2, <3>4 DEF Span
      <3>6. Within(r, s, a, 2 * SnappingEdges)
        BY <3>3, <3>5 DEF Within
      <3> QED
        BY <2>2, <3>1, <3>5, <3>6 DEF s
    <2> QED
      BY <2>1, <2>2
  <1>3. FixToScreen(r, scr) = IF EdgeResistance = 0 THEN s ELSE ResistEdges(s, scr)
    BY <1>2 DEF FixToScreen
  <1>4. s[a].at \in Int
    BY DEF Rect, Span
  <1>5. CASE EdgeResistance = 0
    BY <1>1, <1>2, <1>3, <1>4, <1>5 DEF Within
  <1>6. CASE EdgeResistance # 0
    <2> DEFINE u == ResistEdges(s, scr)
               below == scr[a].at - s[a].at
               over == End(s[a]) - End(scr[a])
               back == End(scr[a]) - s[a].len
               at == IF 0 < below /\ below < EdgeResistance THEN scr[a].at
                     ELSE IF 0 < over /\ over < EdgeResistance
                          THEN (IF a = "y" THEN MaxOf(back, scr[a].at) ELSE back)
                          ELSE s[a].at
    <2>1. u[a] = [s[a] EXCEPT !.at = at]
      BY Zenon DEF ResistEdges
    <2>2. at - s[a].at <= EdgeResistance /\ s[a].at - at <= EdgeResistance /\ at \in Int
      <3>1. End(s[a]) = s[a].at + r[a].len /\ back = scr[a].at + (scr[a].len - r[a].len) /\ scr[a].at <= back
        BY <1>1, <1>2, <1>4 DEF End
      <3>2. MaxOf(back, scr[a].at) = back
        BY <1>1, <3>1 DEF MaxOf
      <3> QED
        BY <1>1, <1>4, <3>1, <3>2
    <2> HIDE DEF u, at
    <2>3. s[a] \in Span
      BY DEF Rect
    <2>4. u[a].at = at
      BY <2>1, <2>3 DEF Span
    <2> QED
      BY <1>1, <1>2, <1>3, <1>4, <1>6, <2>2, <2>4 DEF Within, u
  <1> QED
    BY <1>5, <1>6

\* What windows show on the screen.
LEMMA ShownType ==
    ASSUME LayoutInv, NEW v \in Window
    PROVE  Shown(v) \in Rect /\ \A a \in Axis : Shown(v)[a].len = rc[v][a].len
  <1>1. rc[v] \in Rect /\ origin \in Point
    BY DEF LayoutInv
  <1>2. [a \in Axis |-> 0] \in Point
    BY DEF Point
  <1>3. PICK back \in Point : back = Minus([a \in Axis |-> 0], origin)
    BY <1>1, <1>2, PointType
  <1>4. Shown(v) = Shift(rc[v], back)
    BY <1>3 DEF Shown
  <1>5. Shown(v) \in Rect
    BY <1>1, <1>3, <1>4, ShiftType
  <1>6. \A a \in Axis : Shown(v)[a].len = rc[v][a].len
    <2>1. \A a \in Axis : rc[v][a] \in Span
      BY <1>1 DEF Rect
    <2> QED
      BY <1>4, <2>1 DEF Shift, Span
  <1> QED
    BY <1>5, <1>6

\* The windows in a part of the list, of those that attract.
Passed(n, pulling) == {v \in pulling : \E i \in 1..n : list[i] = v}

\* One more of them.
LEMMA PassedNext ==
    ASSUME LayoutInv, NEW pulling \in SUBSET Known, NEW n \in 1..Len(list)
    PROVE  /\ Cardinality(Passed(n - 1, pulling)) \in Nat
           /\ Cardinality(Passed(n, pulling)) =
                Cardinality(Passed(n - 1, pulling)) + (IF list[n] \in pulling THEN 1 ELSE 0)
  <1>1. Len(list) \in Nat /\ DOMAIN list = 1..Len(list) /\ IsFiniteSet(Known)
    BY KnownType
  <1>2. IsFiniteSet(Passed(n - 1, pulling))
    <2>1. Passed(n - 1, pulling) \in SUBSET Known
      BY DEF Passed
    <2> QED
      BY <1>1, <2>1, FS_Subset
  <1>3. \A i \in 1..n : i = n \/ i \in 1..(n - 1)
    BY <1>1
  <1>4. list[n] \notin Passed(n - 1, pulling)
    <2>1. \A i \in 1..(n - 1) : list[i] # list[n]
      BY <1>1 DEF LayoutInv
    <2> QED
      BY <2>1 DEF Passed
  <1>5. \A i \in 1..(n - 1) : i \in 1..n
    BY <1>1
  <1>6. n \in 1..n
    BY <1>1
  <1>7. CASE list[n] \in pulling
    <2>1. Passed(n, pulling) = Passed(n - 1, pulling) \cup {list[n]}
      BY <1>3, <1>5, <1>6, <1>7 DEF Passed
    <2> QED
      BY <1>2, <1>4, <1>7, <2>1, FS_AddElement, FS_CardinalityType
  <1>8. CASE list[n] \notin pulling
    <2>1. Passed(n, pulling) = Passed(n - 1, pulling)
      BY <1>3, <1>5, <1>8 DEF Passed
    <2> QED
      BY <1>2, <1>8, <2>1, FS_CardinalityType
  <1> QED
    BY <1>7, <1>8

\* The windows that are in list attract the one that is moved one after the other.
LEMMA FixWindowPosIs ==
    ASSUME LayoutInv, NEW w \in Window, NEW shown \in Rect
    PROVE  /\ FixWindowPos(w, shown) \in Rect
           /\ (\A v \in Mapped : Long(rc[v])) /\ Long(shown)
              /\ (\A a \in Axis : shown[a].len <= rcScreen[a].len) =>
                \A a \in Axis : Within(shown, FixWindowPos(w, shown), a,
                    2 * SnappingMove * Cardinality(Mapped \ {w}) + 2 * SnappingEdges + EdgeResistance)
  <1> DEFINE State == [rcTmp : Rect, x : Int]
             Put(at, v) == IF v \in iconic \cup {w} THEN at ELSE
                             LET rcTmp == SnapTo(at.rcTmp, Shown(v))
                             IN  [rcTmp |-> rcTmp, x |-> IF at.x = shown["x"].at THEN rcTmp["x"].at ELSE at.x]
             start == [rcTmp |-> shown, x |-> shown["x"].at]
             k == Len(list)
             Runs(f) == f = [n \in 0..k |-> IF n = 0 THEN start ELSE Put(f[n - 1], list[n])]
             run == CHOOSE f : Runs(f)
             h == [n \in Nat |-> [q \in State |-> IF n \in 1..k THEN Put(q, list[n]) ELSE q]]
             pulling == Mapped \ {w}
             long == (\A v \in Mapped : Long(rc[v])) /\ Long(shown)
             Count(n) == Cardinality(Passed(n, pulling))
  <1>1. FixWindowPos(w, shown) = FixToScreen(IF SnappingMove = 0 THEN shown
                                             ELSE [run[k].rcTmp EXCEPT !["x"].at = run[k].x], rcScreen)
    BY Zenon DEF FixWindowPos, Through
  <1>2. k \in Nat /\ \A n \in 1..k : list[n] \in Window /\ list[n] \in Known
    BY KnownType
  <1>a. start \in State /\ shown["x"].at \in Int
    BY DEF Rect, Span, Axis
  <1>3. ASSUME NEW q \in State, NEW v \in Window PROVE Put(q, v) \in State
    <2>1. q.rcTmp \in Rect /\ q.x \in Int
      OBVIOUS
    <2>2. PICK r \in Rect : r = SnapTo(q.rcTmp, Shown(v))
      BY <2>1, ShownType, SnapToType
    <2>3. r["x"].at \in Int
      BY DEF Rect, Span, Axis
    <2> QED
      BY <2>1, <2>2, <2>3
  <1>4. ASSUME NEW q \in State, NEW v \in pulling, Long(q.rcTmp), long
        PROVE  LET r == Put(q, v)
               IN  /\ ~Resized(q.rcTmp, r.rcTmp) /\ \A a \in Axis : Within(q.rcTmp, r.rcTmp, a, 2 * SnappingMove)
                   /\ r.x = IF q.x = shown["x"].at THEN r.rcTmp["x"].at ELSE q.x
    <2>1. v \in Window /\ v \notin iconic \cup {w} /\ q.rcTmp \in Rect
      BY KnownType DEF Mapped
    <2>2. Shown(v) \in Rect /\ Long(Shown(v))
      BY <1>4, <2>1, ShownType DEF Long, Mapped
    <2>3. PICK u : u = SnapTo(q.rcTmp, Shown(v)) /\ ~Resized(q.rcTmp, u)
                   /\ \A a \in Axis : Within(q.rcTmp, u, a, 2 * SnappingMove)
      BY <1>4, <2>1, <2>2, SnapToIs
    <2>4. Put(q, v).rcTmp = u /\ Put(q, v).x = IF q.x = shown["x"].at THEN u["x"].at ELSE q.x
      BY <2>1, <2>3
    <2> HIDE DEF Put
    <2> QED
      BY <2>3, <2>4
  <1>5. \A q, v : v \in Known /\ v \notin pulling => Put(q, v) = q
    BY DEF Mapped
  <1> HIDE DEF Put, pulling
  <1>6. h \in [Nat -> [State -> State]]
    BY <1>2, <1>3
  <1>h. \A n \in 1..k, q \in State : h[n][q] = Put(q, list[n])
    <2>1. ASSUME NEW n \in 1..k, NEW q \in State PROVE h[n][q] = Put(q, list[n])
      <3>1. n \in Nat
        BY <1>2
      <3> HIDE DEF State
      <3> QED
        BY <3>1
    <2> HIDE DEF h, State
    <2> QED
      BY <2>1
  <1> HIDE DEF h, State, start
  <1>7. PICK f \in [0..k -> State] : f[0] = start /\ \A n \in 1..k : f[n] = h[n][f[n - 1]]
    <2>1. Loops(State, start, h, k)
      <3> HIDE DEF k
      <3> QED
        BY <1>2, <1>6, <1>a, LoopExists
    <2> QED
      BY <2>1, Zenon DEF Loops
  <1>8. Runs(f)
    <2>1. ASSUME NEW n \in 1..k PROVE f[n] = Put(f[n - 1], list[n])
      <3>1. n - 1 \in 0..k /\ f[n - 1] \in State
        BY <1>2
      <3> QED
        BY <1>7, <1>h, <3>1
    <2>2. \A n \in 0..k : f[n] = IF n = 0 THEN start ELSE Put(f[n - 1], list[n])
      BY <1>7, <2>1
    <2> HIDE DEF k
    <2> QED
      BY <2>2
  <1>9. Runs(run)
    <2> HIDE DEF Runs
    <2> QED
      BY <1>8, Zenon
  <1> HIDE DEF run
  <1>10. run[0] = start /\ \A n \in 1..k : run[n] = Put(run[n - 1], list[n])
    BY <1>2, <1>9
  <1>11. SnappingMove \in Nat /\ SnappingEdges \in Nat /\ EdgeResistance \in Nat
    BY GeometryType
  <1>b. \A q : q \in State => q.rcTmp \in Rect /\ q.x \in Int
    BY DEF State
  <1> DEFINE Apart(x, d) == x - shown["x"].at <= d /\ shown["x"].at - x <= d
             near(n) == /\ ~Resized(shown, run[n].rcTmp)
                        /\ \A a \in Axis : Within(shown, run[n].rcTmp, a, 2 * SnappingMove * Count(n))
                        /\ Apart(run[n].x, 2 * SnappingMove * Count(n))
             good == {n \in 0..k : run[n] \in State /\ Count(n) \in Nat /\ (long => near(n))}
  <1>12. \A n \in 0..k : n \in good
    <2>1. 0 \in good
      <3>1. Count(0) = 0
        <4>1. Passed(0, pulling) = {}
          BY DEF Passed
        <4> QED
          BY <4>1, FS_EmptySet
      <3>2. \A a \in Axis : Within(shown, shown, a, 2 * SnappingMove * 0)
        BY <1>11 DEF Within, Rect, Span
      <3>3. ~Resized(shown, shown) /\ Apart(shown["x"].at, 2 * SnappingMove * 0)
        BY <1>11, <1>a DEF Resized
      <3>4. run[0].rcTmp = shown /\ run[0].x = shown["x"].at /\ run[0] \in State
        BY <1>10, <1>a DEF start
      <3> HIDE DEF long, Apart
      <3> QED
        BY <1>2, <3>1, <3>2, <3>3, <3>4
    <2>2. ASSUME NEW n \in 1..k, n - 1 \in good PROVE n \in good
      <3>1. PICK q, r : q \in State /\ q = run[n - 1] /\ r = run[n] /\ r = Put(q, list[n])
        BY <1>10, <2>2
      <3>2. n \in 0..k /\ r \in State
        BY <1>2, <1>3, <3>1
      <3>3. pulling \in SUBSET Known
        BY DEF pulling, Mapped
      <3>4. PICK c \in Nat : c = Count(n - 1)
        BY <2>2
      <3>5. Count(n) = c + (IF list[n] \in pulling THEN 1 ELSE 0)
        <4> HIDE DEF k
        <4>1. n \in 1..Len(list)
          BY DEF k
        <4> QED
          BY <3>3, <3>4, <4>1, PassedNext
      <3>6. CASE list[n] \notin pulling
        <4>1. r = q /\ Count(n) = c
          BY <1>2, <1>5, <3>1, <3>5, <3>6
        <4>2. long => near(n)
          BY <2>2, <3>1, <3>4, <4>1
        <4> HIDE DEF near, long, Count
        <4> QED
          BY <3>1, <3>2, <3>4, <4>1, <4>2
      <3>7. CASE list[n] \in pulling
        <4>1. Count(n) = c + 1
          BY <3>5, <3>7
        <4>2. ASSUME long PROVE near(n)
          <5>1. /\ ~Resized(shown, q.rcTmp) /\ \A a \in Axis : Within(shown, q.rcTmp, a, 2 * SnappingMove * c)
                /\ Apart(q.x, 2 * SnappingMove * c)
            <6> HIDE DEF Apart
            <6> QED
              BY <2>2, <3>1, <3>4, <4>2
          <5>2. Long(q.rcTmp)
            BY <4>2, <5>1 DEF Long, Resized
          <5>3. /\ ~Resized(q.rcTmp, r.rcTmp) /\ \A a \in Axis : Within(q.rcTmp, r.rcTmp, a, 2 * SnappingMove)
                /\ r.x = IF q.x = shown["x"].at THEN r.rcTmp["x"].at ELSE q.x
            <6> HIDE DEF long
            <6> QED
              BY <1>4, <3>1, <3>7, <4>2, <5>2
          <5>4. ~Resized(shown, r.rcTmp)
            BY <5>1, <5>3 DEF Resized
          <5>5. 2 * SnappingMove * (c + 1) = 2 * SnappingMove * c + 2 * SnappingMove
            BY <1>11
          <5>6. PICK d, e \in Nat : d = 2 * SnappingMove * c /\ e = 2 * SnappingMove
            BY <1>11
          <5>7. q.rcTmp \in Rect /\ r.rcTmp \in Rect /\ q.x \in Int /\ r.x \in Int
            BY <1>b, <3>1, <3>2
          <5>8. ASSUME NEW a \in Axis PROVE Within(shown, r.rcTmp, a, d + e)
            <6>1. shown[a].at \in Int /\ q.rcTmp[a].at \in Int /\ r.rcTmp[a].at \in Int
              BY <5>7 DEF Rect, Span
            <6>2. Within(shown, q.rcTmp, a, d) /\ Within(q.rcTmp, r.rcTmp, a, e)
              BY <5>1, <5>3, <5>6
            <6> QED
              BY <6>1, <6>2 DEF Within
          <5>9. Apart(r.x, d + e)
            <6>1. CASE q.x = shown["x"].at
              <7>1. Within(shown, r.rcTmp, "x", d + e)
                BY <5>8 DEF Axis
              <7> QED
                BY <5>3, <6>1, <7>1 DEF Within
            <6>2. CASE q.x # shown["x"].at
              BY <1>a, <5>1, <5>3, <5>6, <5>7, <6>2
            <6> QED
              BY <6>1, <6>2
          <5> HIDE DEF Apart
          <5> QED
            BY <3>1, <4>1, <5>4, <5>5, <5>6, <5>8, <5>9
        <4> HIDE DEF near, long, Count
        <4> QED
          BY <3>1, <3>2, <3>4, <4>1, <4>2
      <3> QED
        BY <3>6, <3>7
    <2> HIDE DEF good, k
    <2> QED
      BY <1>2, <2>1, <2>2, LoopInduction
  <1>13. run[k] \in State /\ Count(k) \in Nat /\ (long => near(k))
    <2> HIDE DEF near
    <2> QED
      BY <1>2, <1>12
  <1>14. Passed(k, pulling) = pulling
    BY KnownType DEF Passed, pulling, Mapped
  <1>15. rcScreen \in Rect
    BY ScreenType
  <1> DEFINE snapped == [run[k].rcTmp EXCEPT !["x"].at = run[k].x]
             t == IF SnappingMove = 0 THEN shown ELSE snapped
             d == 2 * SnappingMove * Cardinality(pulling)
             fits == \A a \in Axis : shown[a].len <= rcScreen[a].len
  <1>16. t \in Rect /\ d \in Int /\ (long => ~Resized(shown, t) /\ \A a \in Axis : Within(shown, t, a, d))
    <2>1. Cardinality(pulling) \in Nat /\ d \in Nat
      BY <1>11, <1>13, <1>14
    <2>2. CASE SnappingMove = 0
      <3>1. \A a \in Axis : Within(shown, shown, a, d)
        <4>1. \A a \in Axis : shown[a].at \in Int
          BY DEF Rect, Span
        <4> HIDE DEF d
        <4> QED
          BY <2>1, <4>1 DEF Within
      <3> QED
        BY <2>1, <2>2, <3>1 DEF Resized
    <2>3. CASE SnappingMove # 0
      <3>1. PICK r, x : r = run[k].rcTmp /\ x = run[k].x /\ r \in Rect /\ x \in Int
        BY <1>13, <1>b
      <3>2. r["x"] \in Span /\ r["y"] \in Span /\ DOMAIN r = {"x", "y"}
        BY <3>1 DEF Rect, Axis
      <3>3. PICK u \in Rect : /\ u = snapped /\ u["x"].at = x /\ u["x"].len = r["x"].len /\ u["y"] = r["y"]
        <4>1. snapped = [r EXCEPT !["x"] = [at |-> x, len |-> r["x"].len]]
          <5>1. snapped = [r EXCEPT !["x"].at = x]
            BY <3>1
          <5>2. [r["x"] EXCEPT !.at = x] = [at |-> x, len |-> r["x"].len]
            BY <3>2 DEF Span
          <5> HIDE DEF snapped
          <5> QED
            BY <5>1, <5>2
        <4>2. [at |-> x, len |-> r["x"].len] \in Span
          BY <3>1, <3>2 DEF Span
        <4> HIDE DEF snapped
        <4>3. snapped \in Rect
          BY <3>1, <4>1, <4>2 DEF Rect
        <4>4. snapped["x"] = [at |-> x, len |-> r["x"].len] /\ snapped["y"] = r["y"]
          BY <3>2, <4>1
        <4> QED
          BY <4>3, <4>4
      <3>4. ASSUME long PROVE ~Resized(shown, u) /\ \A a \in Axis : Within(shown, u, a, d)
        <4>1. ~Resized(shown, r) /\ (\A a \in Axis : Within(shown, r, a, d)) /\ Apart(x, d)
          <5> HIDE DEF long, Apart
          <5> QED
            BY <1>13, <1>14, <3>1, <3>4
        <4>2. ~Resized(shown, u)
          BY <3>3, <4>1 DEF Resized, Axis
        <4>3. Within(shown, u, "x", d) /\ Within(shown, u, "y", d)
          <5> HIDE DEF d
          <5> QED
            BY <3>3, <4>1 DEF Within, Axis
        <4> HIDE DEF d
        <4> QED
          BY <4>2, <4>3 DEF Axis
      <3> HIDE DEF long, snapped
      <3> QED
        BY <2>1, <2>3, <3>3, <3>4
    <2> QED
      BY <2>2, <2>3
  <1>19. FixWindowPos(w, shown) = FixToScreen(t, rcScreen)
    BY <1>1
  <1> HIDE DEF t, d, run, long
  <1>17. FixToScreen(t, rcScreen) \in Rect
    BY <1>15, <1>16, ToScreenType
  <1>18. ASSUME long, fits, NEW a \in Axis
         PROVE  Within(shown, FixToScreen(t, rcScreen), a, d + 2 * SnappingEdges + EdgeResistance)
    <2>1. \A c \in Axis : t[c].len <= rcScreen[c].len
      BY <1>16, <1>18 DEF Resized
    <2>2. PICK u \in Rect : u = FixToScreen(t, rcScreen)
                            /\ Within(t, u, a, 2 * SnappingEdges + EdgeResistance)
      BY <1>15, <1>16, <1>17, <2>1, ToScreenNear
    <2>3. shown[a].at \in Int /\ t[a].at \in Int /\ u[a].at \in Int
      BY <1>16 DEF Rect, Span
    <2>4. Within(shown, t, a, d)
      BY <1>16, <1>18
    <2> QED
      BY <1>11, <1>16, <2>2, <2>3, <2>4 DEF Within
  <1> QED
    BY <1>17, <1>18, <1>19 DEF d, pulling, long
-----------------------------------------------------------------------------
(* The steps *)

LEMMA TurnKeeps ==
    ASSUME LayoutInv, NEW to \in Point, TurnTo(to)
    PROVE  rc' \in [Window -> Rect] /\ origin' \in Point
  <1>1. Minus(to, origin) \in Point
    BY PointType DEF LayoutInv
  <1>2. \A w \in Window : Shift(rc[w], Minus(to, origin)) \in Rect /\ rc[w] \in Rect
    BY <1>1, ShiftType DEF LayoutInv
  <1> QED
    BY <1>2 DEF TurnTo

LEMMA RestoreKeeps ==
    ASSUME LayoutInv, NEW all, RestoreAll(all)
    PROVE  rc' \in [Window -> Rect] /\ origin' \in Point /\ iconic' \subseteq Window
  <1> DEFINE back == {w \in Known \cap iconic : Chosen(all, w)}
             turning == {i \in DOMAIN list : list[i] \in back \ Sticky}
  <1>1. /\ iconic' = iconic \ back
        /\ IF turning = {} THEN UNCHANGED <<rc, origin>>
           ELSE TurnTo(Clamp(PageOf(rc[list[S!Max(turning)]])))
    BY Zenon DEF RestoreAll
  <1>2. turning \in SUBSET Int /\ Len(list) \in Int /\ \A i \in turning : i <= Len(list)
        /\ turning \subseteq DOMAIN list
    BY KnownType
  <1> HIDE DEF turning, back
  <1>3. CASE turning = {}
    BY <1>1, <1>3 DEF LayoutInv
  <1>4. CASE turning # {}
    <2>1. S!Max(turning) \in DOMAIN list
      BY <1>2, <1>4, MaxIsGreatest
    <2>2. list[S!Max(turning)] \in Window
      BY <2>1, KnownType
    <2>3. rc[list[S!Max(turning)]] \in Rect
      BY <2>2 DEF LayoutInv
    <2>4. PICK to \in Point : to = Clamp(PageOf(rc[list[S!Max(turning)]]))
      BY <2>3, PageType
    <2>5. TurnTo(to)
      BY <1>1, <1>4, <2>4
    <2> QED
      BY <1>1, <2>5, TurnKeeps DEF LayoutInv
  <1> QED
    BY <1>3, <1>4

\* A window that is removed leaves the others in their order.
LEMMA RemoveKeeps ==
    ASSUME LayoutInv, NEW w \in Known
    PROVE  /\ Remove(list, w) \in Seq(Window)
           /\ \A i, j \in DOMAIN Remove(list, w) : Remove(list, w)[i] = Remove(list, w)[j] => i = j
           /\ \A i \in DOMAIN Remove(list, w) : Remove(list, w)[i] \in Known
  <1>1. PICK k \in DOMAIN list : list[k] = w
    BY KnownType
  <1>2. /\ Len(list) \in Nat /\ DOMAIN list = 1..Len(list)
        /\ \A i \in DOMAIN list : list[i] \in Known /\ list[i] \in Window
        /\ \A i, j \in DOMAIN list : list[i] = list[j] => i = j
    BY KnownType DEF LayoutInv
  <1>3. PICK m \in DOMAIN list : m = FirstIndex(list, w)
    <2>1. \A i \in 1..(k - 1) : list[i] # w
      <3>1. \A i \in 1..(k - 1) : i \in DOMAIN list /\ i # k
        BY <1>1, <1>2
      <3> QED
        BY <1>1, <1>2, <3>1
    <2> QED
      BY <1>1, <2>1 DEF FirstIndex
  <1>4. Remove(list, w) = RemoveAt(list, m)
    BY <1>1, <1>3 DEF Remove, Has
  <1> DEFINE q == RemoveAt(list, m)
  <1>5. Len(list) - 1 \in Nat
    BY <1>2
  <1>6. \A i \in 1..(Len(list) - 1) : i \in DOMAIN list /\ i + 1 \in DOMAIN list
    BY <1>2
  <1>7. q \in [1..(Len(list) - 1) -> Window] /\ \A i \in 1..(Len(list) - 1) : q[i] \in Known
    BY <1>2, <1>6 DEF RemoveAt
  <1>8. q \in Seq(Window)
    BY <1>5, <1>7
  <1>9. ASSUME NEW i \in 1..(Len(list) - 1), NEW j \in 1..(Len(list) - 1), q[i] = q[j]
        PROVE  i = j
    <2>1. q[i] = list[IF i < m THEN i ELSE i + 1] /\ q[j] = list[IF j < m THEN j ELSE j + 1]
      BY DEF RemoveAt
    <2>2. (IF i < m THEN i ELSE i + 1) = (IF j < m THEN j ELSE j + 1)
      BY <1>2, <1>6, <1>9, <2>1
    <2>3. m \in Int /\ i \in Int /\ j \in Int
      BY <1>2
    <2> QED
      BY <2>2, <2>3
  <1>10. DOMAIN q = 1..(Len(list) - 1)
    BY DEF RemoveAt
  <1> QED
    BY <1>4, <1>7, <1>8, <1>9, <1>10

\* A window that is added is the last one.
LEMMA AppendKeeps ==
    ASSUME LayoutInv, NEW w \in Window, w \notin Known
    PROVE  /\ Append(list, w) \in Seq(Window)
           /\ \A i, j \in DOMAIN Append(list, w) : Append(list, w)[i] = Append(list, w)[j] => i = j
           /\ \A i \in DOMAIN Append(list, w) : Append(list, w)[i] \in Known \cup {w}
  <1>1. list \in Seq(Window) /\ \A i, j \in DOMAIN list : list[i] = list[j] => i = j
    BY DEF LayoutInv
  <1>2. /\ Len(list) \in Nat /\ DOMAIN list = 1..Len(list)
        /\ \A i \in DOMAIN list : list[i] \in Known
    BY KnownType
  <1> DEFINE q == Append(list, w)
  <1>3. /\ q \in Seq(Window) /\ DOMAIN q = 1..(Len(list) + 1)
        /\ q[Len(list) + 1] = w /\ \A i \in 1..Len(list) : q[i] = list[i]
    BY <1>1
  <1> HIDE DEF q
  <1>4. \A i \in DOMAIN q : i = Len(list) + 1 \/ i \in DOMAIN list
    BY <1>2, <1>3
  <1>5. \A i \in DOMAIN q : q[i] = w \/ q[i] \in Known
    BY <1>2, <1>3, <1>4
  <1>6. ASSUME NEW i \in DOMAIN q, NEW j \in DOMAIN q, q[i] = q[j] PROVE i = j
    <2>1. CASE q[i] = w
      <3>1. \A l \in DOMAIN list : list[l] # w
        BY <1>2
      <3> QED
        BY <1>2, <1>3, <1>4, <1>6, <2>1, <3>1
    <2>2. CASE q[i] # w
      <3>1. i \in DOMAIN list /\ j \in DOMAIN list
        BY <1>3, <1>4, <1>6, <2>2
      <3>2. list[i] = list[j]
        BY <1>2, <1>3, <1>6, <3>1
      <3> QED
        BY <1>1, <3>1, <3>2
    <2> QED
      BY <2>1, <2>2
  <1> QED
    BY <1>3, <1>5, <1>6 DEF q

\* A new window is at the place found, or in the cascade.
LEMMA NewWindowKeeps ==
    ASSUME LayoutInv, NEW w \in Window, NewWindow(w)
    PROVE  /\ list' = Append(list, w) /\ rc' \in [Window -> Rect] /\ initPos' \in Int
           /\ iconic' = iconic /\ origin' = origin /\ bar' = bar
           /\ SmartPlace(NewSize[w]).found => Corner(rc'[w]) = SmartPlace(NewSize[w]).pt
  <1> DEFINE size == NewSize[w]
             smart == SmartPlace(size)
             pos == CascadePos(size)
             pt == IF smart.found THEN smart.pt ELSE [a \in Axis |-> pos + Here[a].at]
  <1>1. /\ rc' = [rc EXCEPT ![w] = RectAt(pt, size)]
        /\ initPos' = IF smart.found THEN initPos ELSE pos + TitleHeight + TopBorder
        /\ list' = Append(list, w) /\ iconic' = iconic /\ origin' = origin /\ bar' = bar
    BY Zenon DEF NewWindow
  <1>2. size \in Size
    BY LayoutType DEF Size
  <1>3. smart \in [found : BOOLEAN, pt : Point]
    BY <1>2, SmartPlaceFinds
  <1>4. pos \in Int
    BY DEF CascadePos, LayoutInv
  <1>5. \A a \in Axis : Here[a].at \in Int
    BY ScreenType DEF Rect, Span
  <1> HIDE DEF smart, pos, size
  <1>6. pt \in Point
    BY <1>3, <1>4, <1>5 DEF Point
  <1>7. RectAt(pt, size) \in Rect /\ Corner(RectAt(pt, size)) = pt
    BY <1>2, <1>6, RectAtType
  <1>8. rc \in [Window -> Rect] /\ initPos \in Int /\ TitleHeight \in Int /\ TopBorder \in Int
    BY GeometryType, LayoutType DEF LayoutInv
  <1>9. rc' \in [Window -> Rect] /\ rc'[w] = RectAt(pt, size)
    BY <1>1, <1>7, <1>8
  <1>10. initPos' \in Int
    BY <1>1, <1>4, <1>8
  <1> QED
    BY <1>1, <1>7, <1>9, <1>10 DEF smart, size

LEMMA ExpandKeeps ==
    ASSUME LayoutInv, NEW w \in Window, NEW dirs, ExpandWindow(w, dirs)
    PROVE  rc' \in [Window -> Rect] /\ rc'[w] = Expanded(w, dirs)
  <1>1. rc \in [Window -> Rect] /\ rc' = [rc EXCEPT ![w] = Expanded(w, dirs)]
    BY DEF LayoutInv, ExpandWindow
  <1>2. Expanded(w, dirs) \in Rect
    BY ExpandedIs
  <1> QED
    BY <1>1, <1>2

LEMMA MoveKeeps ==
    ASSUME LayoutInv, NEW w \in Window, NEW pt \in Point, MoveWindow(w, pt)
    PROVE  /\ rc' \in [Window -> Rect] /\ PlaceAt(rc[w], pt) \in Rect
           /\ FixWindowPos(w, PlaceAt(rc[w], pt)) \in Rect
           /\ rc'[w] = Shift(FixWindowPos(w, PlaceAt(rc[w], pt)), origin)
  <1>1. rc \in [Window -> Rect] /\ origin \in Point
        /\ rc' = [rc EXCEPT ![w] = Shift(FixWindowPos(w, PlaceAt(@, pt)), origin)]
    BY DEF LayoutInv, MoveWindow
  <1>2. PICK p \in Rect : p = PlaceAt(rc[w], pt)
    BY <1>1, PlaceAtType
  <1>3. FixWindowPos(w, p) \in Rect
    BY FixWindowPosIs
  <1>4. Shift(FixWindowPos(w, p), origin) \in Rect
    BY <1>1, <1>3, ShiftType
  <1> QED
    BY <1>1, <1>2, <1>3, <1>4
-----------------------------------------------------------------------------
(* The invariant *)

LEMMA LayoutStarts == Init => LayoutInv
  <1> SUFFICES ASSUME Init PROVE LayoutInv
    OBVIOUS
  <1>1. list = <<>> /\ iconic = {} /\ initPos = 0 /\ bar \in Bars /\ rcScreen = ScreenBeside(bar)
        /\ rc = [w \in Window |-> RectAt([a \in Axis |-> 0], NewSize[w])]
        /\ origin = [a \in Axis |-> 0]
    BY DEF Init
  <1>2. list \in Seq(Window) /\ DOMAIN list = {}
    BY <1>1
  <1>3. [a \in Axis |-> 0] \in Point
    BY DEF Point
  <1>4. \A w \in Window : RectAt([a \in Axis |-> 0], NewSize[w]) \in Rect
    BY <1>3, RectAtType, LayoutType DEF Size
  <1>5. rc \in [Window -> Rect]
    BY <1>1, <1>4
  <1> QED
    BY <1>1, <1>2, <1>3, <1>5 DEF LayoutInv

\* What a step on the windows leaves of them.
LEMMA WindowStepKeeps ==
    ASSUME LayoutInv, WindowStep, UNCHANGED rcScreen
    PROVE  LayoutInv'
  <1> DEFINE ListInv(q) == q \in Seq(Window) /\ \A i, j \in DOMAIN q : q[i] = q[j] => i = j
  <1>0. /\ ListInv(list) /\ rc \in [Window -> Rect] /\ iconic \subseteq Window
        /\ initPos \in Int /\ origin \in Point /\ bar \in Bars /\ rcScreen = ScreenBeside(bar)
    BY DEF LayoutInv
  <1> SUFFICES /\ ListInv(list') /\ rc' \in [Window -> Rect] /\ iconic' \subseteq Window
               /\ initPos' \in Int /\ origin' \in Point /\ bar' = bar
    BY <1>0 DEF LayoutInv
  <1>1. ASSUME NEW w \in Window, NewWindow(w)
        PROVE  /\ ListInv(list') /\ rc' \in [Window -> Rect] /\ iconic' \subseteq Window
               /\ initPos' \in Int /\ origin' \in Point /\ bar' = bar
    <2>1. w \notin Known
      BY <1>1 DEF NewWindow
    <2>2. list' = Append(list, w) /\ rc' \in [Window -> Rect] /\ initPos' \in Int
          /\ iconic' = iconic /\ origin' = origin /\ bar' = bar
      BY <1>1, NewWindowKeeps
    <2>3. ListInv(Append(list, w))
      BY <2>1, AppendKeeps
    <2> HIDE DEF ListInv
    <2> QED
      BY <1>0, <2>2, <2>3
  <1>2. ASSUME NEW w \in Window, DestroyWindow(w)
        PROVE  /\ ListInv(list') /\ rc' \in [Window -> Rect] /\ iconic' \subseteq Window
               /\ initPos' \in Int /\ origin' \in Point /\ bar' = bar
    <2>1. w \in Known /\ list' = Remove(list, w) /\ iconic' = iconic \ {w}
          /\ rc' = [rc EXCEPT ![w] = RectAt([x |-> 0, y |-> 0], NewSize[w])]
          /\ initPos' = initPos /\ origin' = origin /\ bar' = bar
      BY <1>2 DEF DestroyWindow
    <2>2. ListInv(Remove(list, w))
      BY <2>1, RemoveKeeps
    <2>3. RectAt([x |-> 0, y |-> 0], NewSize[w]) \in Rect
      <3>1. [x |-> 0, y |-> 0] \in Point
        BY DEF Point, Axis
      <3>2. NewSize[w] \in Size
        BY LayoutType DEF Size
      <3> QED
        BY <3>1, <3>2, RectAtType
    <2> HIDE DEF ListInv
    <2> QED
      BY <1>0, <2>1, <2>2, <2>3
  <1>3. ASSUME NEW w \in Window, NEW dirs, ExpandWindow(w, dirs)
        PROVE  /\ ListInv(list') /\ rc' \in [Window -> Rect] /\ iconic' \subseteq Window
               /\ initPos' \in Int /\ origin' \in Point /\ bar' = bar
    <2>1. rc' \in [Window -> Rect]
      BY <1>3, ExpandKeeps
    <2>2. list' = list /\ iconic' = iconic /\ initPos' = initPos /\ origin' = origin /\ bar' = bar
      BY <1>3 DEF ExpandWindow
    <2> HIDE DEF ListInv
    <2> QED
      BY <1>0, <2>1, <2>2
  <1>4. ASSUME NEW w \in Window, NEW pt \in Drops, MoveWindow(w, pt)
        PROVE  /\ ListInv(list') /\ rc' \in [Window -> Rect] /\ iconic' \subseteq Window
               /\ initPos' \in Int /\ origin' \in Point /\ bar' = bar
    <2>1. rc' \in [Window -> Rect]
      BY <1>4, LayoutType, MoveKeeps
    <2>2. list' = list /\ iconic' = iconic /\ initPos' = initPos /\ origin' = origin /\ bar' = bar
      BY <1>4 DEF MoveWindow
    <2> HIDE DEF ListInv
    <2> QED
      BY <1>0, <2>1, <2>2
  <1>5. ASSUME NEW all \in BOOLEAN, Overlap(all)
        PROVE  /\ ListInv(list') /\ rc' \in [Window -> Rect] /\ iconic' \subseteq Window
               /\ initPos' \in Int /\ origin' \in Point /\ bar' = bar
    <2>1. rc' \in [Window -> Rect]
      BY <1>5, OverlapKeeps
    <2>2. list' = list /\ iconic' = iconic /\ initPos' = initPos /\ origin' = origin /\ bar' = bar
      BY <1>5, Zenon DEF Overlap
    <2> HIDE DEF ListInv
    <2> QED
      BY <1>0, <2>1, <2>2
  <1>6. ASSUME NEW all \in BOOLEAN, MinimizeAll(all)
        PROVE  /\ ListInv(list') /\ rc' \in [Window -> Rect] /\ iconic' \subseteq Window
               /\ initPos' \in Int /\ origin' \in Point /\ bar' = bar
    <2>1. list' = list /\ rc' = rc /\ initPos' = initPos /\ origin' = origin /\ bar' = bar
          /\ iconic' = iconic \cup Rearranged(all)
      BY <1>6 DEF MinimizeAll
    <2>2. Rearranged(all) \subseteq Window
      BY RearrangedType
    <2> HIDE DEF ListInv
    <2> QED
      BY <1>0, <2>1, <2>2
  <1>7. ASSUME NEW all \in BOOLEAN, RestoreAll(all)
        PROVE  /\ ListInv(list') /\ rc' \in [Window -> Rect] /\ iconic' \subseteq Window
               /\ initPos' \in Int /\ origin' \in Point /\ bar' = bar
    <2>1. rc' \in [Window -> Rect] /\ origin' \in Point /\ iconic' \subseteq Window
      BY <1>7, RestoreKeeps
    <2>2. list' = list /\ initPos' = initPos /\ bar' = bar
      BY <1>7, Zenon DEF RestoreAll
    <2> HIDE DEF ListInv
    <2> QED
      BY <1>0, <2>1, <2>2
  <1>8. ASSUME NEW all \in BOOLEAN, NEW axis \in Axis, Tile(axis, all)
        PROVE  /\ ListInv(list') /\ rc' \in [Window -> Rect] /\ iconic' \subseteq Window
               /\ initPos' \in Int /\ origin' \in Point /\ bar' = bar
    <2>1. rc' \in [Window -> Rect]
      BY <1>8, TileKeeps
    <2>2. list' = list /\ iconic' = iconic /\ initPos' = initPos /\ origin' = origin /\ bar' = bar
      BY <1>8, Zenon DEF Tile
    <2> HIDE DEF ListInv
    <2> QED
      BY <1>0, <2>1, <2>2
  <1>9. ASSUME NEW to \in Origins, SwitchPage(to)
        PROVE  /\ ListInv(list') /\ rc' \in [Window -> Rect] /\ iconic' \subseteq Window
               /\ initPos' \in Int /\ origin' \in Point /\ bar' = bar
    <2>1. to \in Point
      BY LayoutType
    <2>2. TurnTo(to) /\ list' = list /\ iconic' = iconic /\ initPos' = initPos /\ bar' = bar
      BY <1>9 DEF SwitchPage
    <2>3. rc' \in [Window -> Rect] /\ origin' \in Point
      BY <2>1, <2>2, TurnKeeps
    <2> HIDE DEF ListInv
    <2> QED
      BY <1>0, <2>2, <2>3
  <1> HIDE DEF ListInv
  <1> QED
    BY <1>1, <1>2, <1>3, <1>4, <1>5, <1>6, <1>7, <1>8, <1>9, Zenon DEF WindowStep

LEMMA LayoutGoesOn == LayoutInv /\ [Next]_vars => LayoutInv'
  <1> SUFFICES ASSUME LayoutInv, [Next]_vars PROVE LayoutInv'
    OBVIOUS
  <1>1. CASE DesktopStep
    <2>1. list' = list /\ rc' = rc /\ iconic' = iconic /\ initPos' = initPos /\ origin' = origin
      BY <1>1 DEF DesktopStep, DragIcon, LineUpAllIcons, SetTaskbar
    <2>2. (bar' = bar /\ rcScreen' = rcScreen) \/ (bar' \in Bars /\ rcScreen' = ScreenBeside(bar'))
      BY <1>1 DEF DesktopStep, DragIcon, LineUpAllIcons, SetTaskbar
    <2> QED
      BY <2>1, <2>2 DEF LayoutInv
  <1>2. CASE WindowStep /\ UNCHANGED rcScreen
    BY <1>2, WindowStepKeeps
  <1>3. CASE UNCHANGED vars
    BY <1>3 DEF LayoutInv, vars
  <1> QED
    BY <1>1, <1>2, <1>3, Zenon DEF Next

\* The list holds each window once, and rectangles, pages and the screen stay what they
\* are, whatever is done to windows, icons and the taskbar.
THEOREM LayoutCorrect == Spec => []LayoutInv
  BY LayoutStarts, LayoutGoesOn, PTL DEF Spec
-----------------------------------------------------------------------------
(* The properties *)

\* Only a window that is opened becomes known.
LEMMA KnownBy ==
    ASSUME LayoutInv, Next, NEW w \in Window, w \notin Known, w \in Known'
    PROVE  NewWindow(w)
  <1>k. Known' = S!ToSet(list') /\ Known = S!ToSet(list)
    BY DEF Known
  <1>1. list' # list
    BY <1>k
  <1>2. CASE DesktopStep
    BY <1>1, <1>2 DEF DesktopStep, DragIcon, LineUpAllIcons, SetTaskbar
  <1>3. CASE WindowStep
    <2>1. PICK v \in Window : NewWindow(v) \/ DestroyWindow(v)
      <3>1. \A v, dirs : ExpandWindow(v, dirs) => list' = list
        BY DEF ExpandWindow
      <3>2. \A v, pt : MoveWindow(v, pt) => list' = list
        BY DEF MoveWindow
      <3>3. \A all : Overlap(all) => list' = list
        BY Zenon DEF Overlap
      <3>4. \A all : MinimizeAll(all) => list' = list
        BY DEF MinimizeAll
      <3>5. \A all : RestoreAll(all) => list' = list
        BY Zenon DEF RestoreAll
      <3>6. \A axis, all : Tile(axis, all) => list' = list
        BY Zenon DEF Tile
      <3>7. \A to : SwitchPage(to) => list' = list
        BY DEF SwitchPage
      <3> QED
        BY <1>1, <1>3, <3>1, <3>2, <3>3, <3>4, <3>5, <3>6, <3>7, Zenon DEF WindowStep
    <2>2. CASE NewWindow(v)
      <3>1. v \notin Known /\ list' = Append(list, v)
        BY <2>2 DEF NewWindow
      <3>2. \A i \in DOMAIN list' : list'[i] \in Known \cup {v}
        BY <3>1, AppendKeeps
      <3>3. w = v
        BY <1>k, <3>2 DEF S!ToSet
      <3> QED
        BY <2>2, <3>3
    <2>3. CASE DestroyWindow(v)
      <3>1. v \in Known /\ list' = Remove(list, v)
        BY <2>3 DEF DestroyWindow
      <3>2. \A i \in DOMAIN list' : list'[i] \in Known
        BY <3>1, RemoveKeeps
      <3> QED
        BY <1>k, <3>2 DEF S!ToSet
    <2> QED
      BY <2>1, <2>2, <2>3
  <1> QED
    BY <1>2, <1>3 DEF Next

\* GetNextPlace looks at the corners of windows only, and still finds a clear place
\* for a new window whenever there is one anywhere on the screen.
THEOREM PlacedClearCorrect == Spec => PlacedClear
  <1> DEFINE Tops(a) == {Here[a].at} \cup {End(rc[v][a]) : v \in Mapped}
             Free(w, pt) == /\ \A a \in Axis : /\ Here[a].at <= pt[a]
                                               /\ pt[a] + NewSize[w][a] < End(Here[a])
                            /\ Clear(RectAt(pt, NewSize[w]))
  <1>1. ASSUME LayoutInv, Next, NEW w \in Window, SmartPlacement, w \notin Known, w \in Known',
               NEW x \in Tops("x"), NEW y \in Tops("y"), Free(w, [x |-> x, y |-> y])
        PROVE  Free(w, Corner(rc'[w]))
    <2>1. NewWindow(w)
      BY <1>1, KnownBy
    <2>2. NewSize[w] \in Size
      BY LayoutType DEF Size
    <2>3. PICK place : /\ place = SmartPlace(NewSize[w]) /\ place \in [found : BOOLEAN, pt : Point]
                       /\ PlaceSays(place, Here["y"].at, NewSize[w])
      BY <1>1, <2>2, SmartPlaceFinds
    <2>4. x \in Int /\ y \in Int
      <3>1. \A v \in Mapped : rc[v] \in Rect
        BY <1>1, KnownType DEF Mapped, LayoutInv
      <3>2. Here \in Rect
        BY <1>1, ScreenType
      <3> QED
        BY <3>1, <3>2 DEF Rect, Span, End, Axis
    <2>5. PICK pt \in Point : pt = [x |-> x, y |-> y] /\ Free(w, pt)
      <3>1. [x |-> x, y |-> y] \in Point
        BY <2>4 DEF Point, Axis
      <3> HIDE DEF Free
      <3> QED
        BY <1>1, <3>1
    <2>6. Here["x"].at <= pt["x"] /\ Here["y"].at <= pt["y"] /\ Fits(NewSize[w], pt)
      BY <2>5 DEF Fits, Axis
    <2>7. place.found
      BY <2>3, <2>6 DEF PlaceSays
    <2>8. Corner(rc'[w]) = place.pt
      BY <1>1, <2>1, <2>3, <2>7, NewWindowKeeps
    <2>9. Here["x"].at <= place.pt["x"] /\ Here["y"].at <= place.pt["y"] /\ Fits(NewSize[w], place.pt)
      BY <2>3, <2>7 DEF PlaceSays
    <2>10. Free(w, place.pt)
      BY <2>9 DEF Fits, Axis
    <2> QED
      BY <2>8, <2>10
  <1>2. LayoutInv /\ [Next]_vars =>
          [\A w \in Window :
             (/\ SmartPlacement /\ w \notin Known /\ w \in Known'
              /\ \E x \in Tops("x"), y \in Tops("y") : Free(w, [x |-> x, y |-> y]))
             => Free(w, Corner(rc'[w]))]_vars
    <2> HIDE DEF Tops, Free
    <2> QED
      BY <1>1, Zenon
  <1>3. Spec => [][\A w \in Window :
             (/\ SmartPlacement /\ w \notin Known /\ w \in Known'
              /\ \E x \in Tops("x"), y \in Tops("y") : Free(w, [x |-> x, y |-> y]))
             => Free(w, Corner(rc'[w]))]_vars
    <2> HIDE DEF Tops, Free
    <2> QED
      BY <1>2, LayoutCorrect, PTL DEF Spec
  <1> QED
    BY <1>3 DEF PlacedClear

\* An expanded window stops at what is in its way, if it begins on the screen and is as
\* large as its hints ask for.
THEOREM ExpandStopsCorrect == Spec => ExpandStops
  <1> DEFINE Stops ==
        \A w \in Window, dir \in Sides :
          LET a == dir[1]
          IN  /\ rc'[w] # rc[w] /\ iconic' = iconic /\ ExpandWindow(w, {dir})
              /\ Here[a].at <= rc[w][a].at
              /\ \A c \in Axis : Hints[w][c].base <= rc[w][c].len
              => LET inner == [rc'[w] EXCEPT ![a].len = @ - 2,
                                             ![Other(a)] = [at |-> @.at + 1, len |-> @.len - 2]]
                 IN  \A t \in Obstacles : Overlapping(inner, t) => Overlapping(rc[w], t)
  <1>1. LayoutInv => Stops
    <2> SUFFICES ASSUME LayoutInv, NEW w \in Window, NEW dir \in Sides, NEW a, a = dir[1],
                        ExpandWindow(w, {dir}), Here[a].at <= rc[w][a].at,
                        \A c \in Axis : Hints[w][c].base <= rc[w][c].len,
                        NEW inner, inner = [rc'[w] EXCEPT ![a].len = @ - 2,
                                              ![Other(a)] = [at |-> @.at + 1, len |-> @.len - 2]],
                        NEW t \in Obstacles, Overlapping(inner, t)
                 PROVE  Overlapping(rc[w], t)
      BY Zenon
    <2>1. PICK r \in Rect : r = rc'[w] /\ r = Expanded(w, {dir})
      BY ExpandKeeps, ExpandedIs
    <2>2. a \in Axis
      BY DEF Sides
    <2>3. PICK b \in Axis : b = Other(a) /\ b # a /\ Axis = {a, b}
      BY <2>2, OtherIs
    <2>4. r[a] \in Span /\ r[b] \in Span
      BY <2>2 DEF Rect
    <2>5. inner = [c \in Axis |-> IF c = a THEN [at |-> r[a].at, len |-> r[a].len - 2]
                                  ELSE [at |-> r[b].at + 1, len |-> r[b].len - 2]]
      <3>1. inner = [[r EXCEPT ![a] = [r[a] EXCEPT !.len = @ - 2]]
                       EXCEPT ![b] = [at |-> @.at + 1, len |-> @.len - 2]]
        BY <2>1, <2>3, Zenon
      <3>2. [r[a] EXCEPT !.len = @ - 2] = [at |-> r[a].at, len |-> r[a].len - 2]
        BY <2>4 DEF Span
      <3> QED
        BY <2>3, <3>1, <3>2 DEF Rect
    <2>6. /\ inner \in Rect /\ inner[a].at = r[a].at /\ inner[a].len = r[a].len - 2
          /\ inner[b].at = r[b].at + 1 /\ inner[b].len = r[b].len - 2
      <3>1. [at |-> r[a].at, len |-> r[a].len - 2] \in Span /\ [at |-> r[b].at + 1, len |-> r[b].len - 2] \in Span
        BY <2>4 DEF Span
      <3>2. inner \in Rect
        BY <2>3, <2>5, <3>1 DEF Rect
      <3> QED
        BY <2>2, <2>3, <2>5, <3>2
    <2> QED
      BY <2>1, <2>2, <2>3, <2>6, ExpandedStops
  <1>2. Spec => [][Stops]_vars
    <2> HIDE DEF Stops
    <2> QED
      BY <1>1, LayoutCorrect, PTL DEF Spec
  <1> QED
    BY <1>2 DEF ExpandStops

\* A window that is moved snaps no further than its neighbours and the edges of the
\* screen can take it, however many they are.
THEOREM SnapNearCorrect == Spec => SnapNear
  <1> DEFINE Snaps ==
        \A w \in Window, pt \in Drops :
          /\ rc'[w] # rc[w] /\ iconic' = iconic /\ MoveWindow(w, pt)
          /\ \A v \in Mapped, a \in Axis : SnappingMove < rc[v][a].len
          /\ \A a \in Axis : rc[w][a].len <= rcScreen[a].len
          => \A a \in Axis : Abs(rc'[w][a].at - origin[a] - pt[a])
                 <= 2 * SnappingMove * Cardinality(Mapped \ {w}) + 2 * SnappingEdges + EdgeResistance
  <1>1. LayoutInv => Snaps
    <2> SUFFICES ASSUME LayoutInv, NEW w \in Window, NEW pt \in Drops, MoveWindow(w, pt),
                        \A v \in Mapped, a \in Axis : SnappingMove < rc[v][a].len,
                        \A a \in Axis : rc[w][a].len <= rcScreen[a].len,
                        NEW a \in Axis
                 PROVE  Abs(rc'[w][a].at - origin[a] - pt[a])
                 <= 2 * SnappingMove * Cardinality(Mapped \ {w}) + 2 * SnappingEdges + EdgeResistance
      BY Zenon
    <2>1. pt \in Point /\ origin \in Point /\ w \in Mapped
      BY LayoutType DEF LayoutInv, MoveWindow
    <2>2. PICK shown \in Rect : shown = PlaceAt(rc[w], pt)
      BY <2>1, MoveKeeps
    <2>3. PICK fixed \in Rect : fixed = FixWindowPos(w, shown) /\ rc'[w] = Shift(fixed, origin)
      BY <2>1, <2>2, MoveKeeps
    <2>4. \A c \in Axis : shown[c].at = pt[c] /\ shown[c].len = rc[w][c].len
      BY <2>2 DEF PlaceAt, LayoutInv, Rect, Span
    <2>5. (\A v \in Mapped : Long(rc[v])) /\ Long(shown)
          /\ \A c \in Axis : shown[c].len <= rcScreen[c].len
      BY <2>1, <2>4 DEF Long
    <2>6. Within(shown, fixed, a, 2 * SnappingMove * Cardinality(Mapped \ {w}) + 2 * SnappingEdges + EdgeResistance)
      BY <2>3, <2>5, FixWindowPosIs
    <2>7. rc'[w][a].at = fixed[a].at + origin[a]
      BY <2>3 DEF Shift, Rect, Span
    <2>8. fixed[a].at \in Int /\ origin[a] \in Int /\ pt[a] \in Int /\ shown[a].at = pt[a]
      BY <2>1, <2>4 DEF Rect, Span, Point
    <2>9. rc'[w][a].at - origin[a] - pt[a] = fixed[a].at - shown[a].at
      BY <2>7, <2>8
    <2> QED
      BY <2>6, <2>8, <2>9 DEF Within, Abs
  <1>2. Spec => [][Snaps]_vars
    <2> HIDE DEF Snaps
    <2> QED
      BY <1>1, LayoutCorrect, PTL DEF Spec
  <1> QED
    BY <1>2 DEF SnapNear

\* Tiles lie side by side, whatever size the hints give them but for one below 0.
THEOREM TilesApartCorrect ==
    ASSUME HintsSized
    PROVE  Spec => TilesApart
  <1> DEFINE Apart ==
        \A axis \in Axis, all \in BOOLEAN :
          rc' # rc /\ list' = list /\ iconic' = iconic /\ Tile(axis, all) =>
             \A i, j \in DOMAIN list :
                i < j /\ {list[i], list[j]} \subseteq Rearranged(all)
                  => End(rc'[list[i]][axis]) <= rc'[list[j]][axis].at
  <1>1. LayoutInv => Apart
    BY TileKeeps, Zenon
  <1>2. Spec => [][Apart]_vars
    <2> HIDE DEF Apart
    <2> QED
      BY <1>1, LayoutCorrect, PTL DEF Spec
  <1> QED
    BY <1>2 DEF TilesApart
=============================================================================
