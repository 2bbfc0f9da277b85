---------------------------- MODULE TimerTheorems ----------------------------
(***************************************************************************)
(* What the operations of Timer do to the callouts of each callback.       *)
(***************************************************************************)
EXTENDS Timer, Integers, SequenceTheorems, FiniteSetTheorems, WellFoundedInduction, TLAPS
-----------------------------------------------------------------------------
Callouts(C) == Seq([cb : C, left : Nat])

\* q has a callout of cb; and no two.
Waits(q, cb) == \E i \in DOMAIN q : q[i].cb = cb
Once(q, cb) == \A i, j \in DOMAIN q : q[i].cb = cb /\ q[j].cb = cb => i = j

\* Less-than as the well-founded relation that the library calls by this name.
LEMMA LessIsRelated ==
    ASSUME NEW i \in Nat, NEW k \in Nat, i < k
    PROVE  <<i, k>> \in OpToRel(<, Nat)
  BY Zenon DEF OpToRel

\* A set of numbers has a least one.
LEMMA LeastExists ==
    ASSUME NEW S \in SUBSET Nat, S # {}
    PROVE  \E x \in S : \A y \in S : x <= y
  <1> DEFINE less == OpToRel(<, Nat)
  <1>1. \E x \in S : \A y \in S : ~(<<y, x>> \in less)
    BY NatLessThanWellFounded, WFMin
  <1>2. \A i, k \in Nat : i < k => <<i, k>> \in less
    BY LessIsRelated
  <1> HIDE DEF less
  <1>3. PICK x \in S : \A y \in S : ~(<<y, x>> \in less)
    BY <1>1
  <1>4. \A y \in S : ~(y < x)
    BY <1>2, <1>3
  <1>5. \A y \in S : x <= y
    BY <1>4
  <1> QED
    BY <1>5

\* The first item of some kind.
LEMMA MinIsLeast ==
    ASSUME NEW S \in SUBSET Nat, S # {}
    PROVE  Min(S) \in S /\ \A y \in S : Min(S) <= y
  BY LeastExists DEF Min

\* The first k items of a list.
LEMMA Prefix ==
    ASSUME NEW S, NEW q \in Seq(S), NEW k \in 0..Len(q)
    PROVE  LET a == SubSeq(q, 1, k)
           IN  a \in Seq(S) /\ Len(a) = k /\ \A i \in 1..k : a[i] = q[i]
  <1> DEFINE a == SubSeq(q, 1, k)
  <1>1. Len(q) \in Nat /\ k \in Int /\ 1 \in Int /\ \A i \in 1..k : q[i] \in S
    BY LenProperties, ElementOfSeq
  <1>2. /\ a \in Seq(S) /\ Len(a) = IF 1 <= k THEN k - 1 + 1 ELSE 0
        /\ \A i \in 1..(k - 1 + 1) : a[i] = q[1 + i - 1]
    BY <1>1, SubSeqProperties
  <1> HIDE DEF a
  <1>3. a \in Seq(S) /\ Len(a) = k /\ \A i \in 1..k : a[i] = q[i]
    BY <1>1, <1>2
  <1> QED
    BY <1>3 DEF a

\* Those from the k-th on.
LEMMA Suffix ==
    ASSUME NEW S, NEW q \in Seq(S), NEW k \in 1..(Len(q) + 1)
    PROVE  LET b == SubSeq(q, k, Len(q))
           IN  /\ b \in Seq(S) /\ Len(b) = Len(q) - k + 1
               /\ \A i \in 1..(Len(q) - k + 1) : b[i] = q[k + i - 1]
  <1> DEFINE n == Len(q)  b == SubSeq(q, k, n)
  <1>1. n \in Nat /\ k \in Int /\ \A i \in k..n : q[i] \in S
    BY LenProperties, ElementOfSeq
  <1> HIDE DEF n
  <1>2. /\ b \in Seq(S) /\ Len(b) = IF k <= n THEN n - k + 1 ELSE 0
        /\ \A i \in 1..(n - k + 1) : b[i] = q[k + i - 1]
    BY <1>1, SubSeqProperties
  <1> HIDE DEF b
  <1>3. k <= n + 1
    BY DEF n
  <1>4. Len(b) = n - k + 1
    BY <1>1, <1>2, <1>3
  <1> QED
    BY <1>2, <1>4 DEF b, n

\* A callout is put into the list.
LEMMA Inserted ==
    ASSUME NEW C, NEW q \in Callouts(C), NEW msec \in Nat, NEW cb \in C
    PROVE  LET r == InsertCallout(q, msec, cb)
           IN  /\ r \in Callouts(C)
               /\ \A c : Waits(r, c) <=> c = cb \/ Waits(q, c)
               /\ \A c : Once(q, c) /\ (c = cb => ~Waits(q, c)) => Once(r, c)
  <1> DEFINE S == [cb : C, left : Nat]
             later == {i \in DOMAIN q : q[i].left > msec}
             co == [cb |-> cb, left |-> msec]
             r == InsertCallout(q, msec, cb)
             n == Len(q)
  <1>1. q \in Seq(S) /\ n \in Nat /\ DOMAIN q = 1..n /\ co \in S /\ co.cb = cb
    BY LenProperties DEF Callouts
  <1>2. \E k \in 1..(n + 1) :
           /\ r \in Seq(S) /\ DOMAIN r = 1..(n + 1)
           /\ \A i \in 1..(n + 1) : r[i] = IF i < k THEN q[i] ELSE IF i = k THEN co ELSE q[i - 1]
    <2> HIDE DEF co, S
    <2>1. CASE later = {}
      <3>1. r = Append(q, co)
        BY <2>1 DEF InsertCallout, co
      <3>2. r \in Seq(S) /\ DOMAIN r = 1..(n + 1)
        BY <1>1, <3>1, AppendProperties, LenProperties
      <3>3. \A i \in 1..(n + 1) : r[i] = IF i < n + 1 THEN q[i] ELSE co
        BY <1>1, <3>1, AppendProperties
      <3>4. n + 1 \in 1..(n + 1) /\ \A i \in 1..(n + 1) : i < n + 1 \/ i = n + 1
        BY <1>1
      <3> HIDE DEF r, n
      <3> QED
        BY <3>2, <3>3, <3>4
    <2>2. CASE later # {}
      <3> DEFINE k == Min(later)  a == SubSeq(q, 1, k - 1)  b == SubSeq(q, k, n)
      <3>1. k \in 1..n
        <4>1. later \in SUBSET Nat /\ later \subseteq 1..n
          BY <1>1
        <4> HIDE DEF later
        <4> QED
          BY <2>2, <4>1, MinIsLeast
      <3>2. r = a \o <<co>> \o b
        BY <2>2 DEF InsertCallout, InsertAt, co
      <3> HIDE DEF k
      <3>4. a \in Seq(S) /\ Len(a) = k - 1 /\ \A i \in 1..(k - 1) : a[i] = q[i]
        <4>1. k - 1 \in 0..Len(q)
          BY <1>1, <3>1
        <4> QED
          BY <1>1, <4>1, Prefix
      <3>5. b \in Seq(S) /\ Len(b) = n - k + 1 /\ \A i \in 1..(n - k + 1) : b[i] = q[k + i - 1]
        <4>1. k \in 1..(Len(q) + 1)
          BY <1>1, <3>1
        <4> QED
          BY <1>1, <4>1, Suffix
      <3>6. <<co>> \in Seq(S) /\ Len(<<co>>) = 1 /\ <<co>>[1] = co
        BY <1>1
      <3> HIDE DEF a, b
      <3> DEFINE d == a \o <<co>>
      <3>7. d \in Seq(S) /\ Len(d) = k /\ \A i \in 1..k : d[i] = IF i < k THEN q[i] ELSE co
        <4>1. /\ d \in Seq(S) /\ Len(d) = (k - 1) + 1
              /\ \A i \in 1..((k - 1) + 1) : d[i] = IF i <= k - 1 THEN a[i] ELSE <<co>>[i - (k - 1)]
          BY <3>4, <3>6, ConcatProperties
        <4> QED
          BY <3>1, <3>4, <3>6, <4>1
      <3> HIDE DEF d
      <3>8. /\ r \in Seq(S) /\ Len(r) = n + 1
            /\ \A i \in 1..(n + 1) : r[i] = IF i <= k THEN d[i] ELSE b[i - k]
        <4>1. r = d \o b
          BY <3>2 DEF d
        <4>2. /\ r \in Seq(S) /\ Len(r) = k + (n - k + 1)
              /\ \A i \in 1..(k + (n - k + 1)) : r[i] = IF i <= k THEN d[i] ELSE b[i - k]
          BY <3>5, <3>7, <4>1, ConcatProperties
        <4> HIDE DEF r
        <4> QED
          BY <1>1, <3>1, <4>2
      <3> HIDE DEF r
      <3>9. DOMAIN r = 1..(n + 1)
        BY <3>8, LenProperties
      <3>10. \A i \in 1..(n + 1) : r[i] = IF i < k THEN q[i] ELSE IF i = k THEN co ELSE q[i - 1]
        <4> SUFFICES ASSUME NEW i \in 1..(n + 1)
                     PROVE  r[i] = IF i < k THEN q[i] ELSE IF i = k THEN co ELSE q[i - 1]
          OBVIOUS
        <4>1. CASE i <= k
          BY <1>1, <3>1, <3>7, <3>8, <4>1
        <4>2. CASE i > k
          <5>1. i - k \in 1..(n - k + 1) /\ k + (i - k) - 1 = i - 1 /\ ~(i <= k) /\ ~(i < k) /\ i # k
            BY <1>1, <3>1, <4>2
          <5>2. b[i - k] = q[i - 1]
            BY <3>5, <5>1
          <5> QED
            BY <3>8, <5>1, <5>2
        <4> QED
          BY <1>1, <3>1, <4>1, <4>2
      <3>11. k \in 1..(n + 1)
        BY <1>1, <3>1
      <3> QED
        BY <3>8, <3>9, <3>10, <3>11
    <2> QED
      BY <2>1, <2>2
  <1> HIDE DEF r, co, n, S
  <1>3. PICK k \in 1..(n + 1) :
           /\ r \in Seq(S) /\ DOMAIN r = 1..(n + 1)
           /\ \A i \in 1..(n + 1) : r[i] = IF i < k THEN q[i] ELSE IF i = k THEN co ELSE q[i - 1]
    BY <1>2
  <1>4. r[k].cb = cb
    BY <1>1, <1>3
  <1>5. \A i \in 1..n : i \in 1..(n + 1) /\ i + 1 \in 1..(n + 1)
                        /\ r[IF i < k THEN i ELSE i + 1] = q[i]
    BY <1>1, <1>3
  <1>6. \A i \in 1..(n + 1) : i # k =>
           /\ (IF i < k THEN i ELSE i - 1) \in 1..n
           /\ r[i] = q[IF i < k THEN i ELSE i - 1]
    BY <1>1, <1>3
  <1>7. ASSUME NEW c PROVE Waits(r, c) <=> c = cb \/ Waits(q, c)
    <2>1. ASSUME NEW i \in 1..n, q[i].cb = c PROVE Waits(r, c)
      BY <1>3, <1>5, <2>1, Zenon DEF Waits
    <2>2. Waits(r, cb)
      BY <1>3, <1>4 DEF Waits
    <2>3. ASSUME NEW i \in 1..(n + 1), r[i].cb = c PROVE c = cb \/ Waits(q, c)
      <3>1. CASE i = k
        BY <1>4, <2>3, <3>1
      <3>2. CASE i # k
        <4> DEFINE x == IF i < k THEN i ELSE i - 1
        <4>1. x \in 1..n /\ r[i] = q[x]
          BY <1>6, <3>2
        <4> HIDE DEF x
        <4> QED
          BY <1>1, <2>3, <4>1 DEF Waits
      <3> QED
        BY <3>1, <3>2
    <2> QED
      BY <1>1, <1>3, <2>1, <2>2, <2>3 DEF Waits
  <1>8. ASSUME NEW c, Once(q, c), c = cb => ~Waits(q, c) PROVE Once(r, c)
    <2> SUFFICES ASSUME NEW i \in 1..(n + 1), NEW j \in 1..(n + 1), r[i].cb = c, r[j].cb = c
                 PROVE  i = j
      BY <1>3 DEF Once
    <2> DEFINE x == IF i < k THEN i ELSE i - 1  y == IF j < k THEN j ELSE j - 1
    <2>1. CASE c = cb
      BY <1>1, <1>6, <1>8, <2>1 DEF Waits
    <2>2. CASE c # cb
      <3>1. i # k /\ j # k
        BY <1>4, <2>2
      <3>2. x \in 1..n /\ y \in 1..n /\ q[x].cb = c /\ q[y].cb = c
        BY <1>6, <3>1
      <3>3. x = y
        BY <1>1, <1>8, <3>2 DEF Once
      <3> QED
        BY <3>1, <3>3
    <2> QED
      BY <2>1, <2>2
  <1>9. r \in Callouts(C)
    BY <1>3 DEF Callouts, S
  <1> QED
    BY <1>7, <1>8, <1>9 DEF r

\* A callout is taken out of the list.
LEMMA TakenOut ==
    ASSUME NEW C, NEW q \in Callouts(C), NEW k \in DOMAIN q
    PROVE  LET r == RemoveAt(q, k)
           IN  /\ r \in Callouts(C)
               /\ \A c : Waits(r, c) => Waits(q, c)
               /\ \A c : Waits(q, c) /\ c # q[k].cb => Waits(r, c)
               /\ \A c : Once(q, c) => Once(r, c)
               /\ Once(q, q[k].cb) => ~Waits(r, q[k].cb)
  <1> DEFINE S == [cb : C, left : Nat]
             r == RemoveAt(q, k)
             n == Len(q)
  <1>1. q \in Seq(S) /\ n \in Nat /\ DOMAIN q = 1..n /\ k \in 1..n
    BY LenProperties DEF Callouts
  <1>2. /\ r \in Seq(S) /\ DOMAIN r = 1..(n - 1)
        /\ \A i \in 1..(n - 1) : r[i] = IF i < k THEN q[i] ELSE q[i + 1]
    <2> HIDE DEF S
    <2> DEFINE a == SubSeq(q, 1, k - 1)  b == SubSeq(q, k + 1, n)
    <2>2. a \in Seq(S) /\ Len(a) = k - 1 /\ \A i \in 1..(k - 1) : a[i] = q[i]
      <3>1. k - 1 \in 0..Len(q)
        BY <1>1
      <3> QED
        BY <1>1, <3>1, Prefix
    <2>3. b \in Seq(S) /\ Len(b) = n - k /\ \A i \in 1..(n - k) : b[i] = q[k + i]
      <3>1. k + 1 \in 1..(Len(q) + 1)
        BY <1>1
      <3>2. /\ b \in Seq(S) /\ Len(b) = n - (k + 1) + 1
            /\ \A i \in 1..(n - (k + 1) + 1) : b[i] = q[(k + 1) + i - 1]
        BY <1>1, <3>1, Suffix
      <3> HIDE DEF b, n
      <3>3. \A i \in 1..(n - k) : (k + 1) + i - 1 = k + i
        BY <1>1
      <3>4. n - (k + 1) + 1 = n - k
        BY <1>1
      <3> QED
        BY <3>2, <3>3, <3>4
    <2>4. r = a \o b
      BY DEF RemoveAt
    <2> HIDE DEF a, b, r
    <2>5. /\ r \in Seq(S) /\ Len(r) = (k - 1) + (n - k)
          /\ \A i \in 1..((k - 1) + (n - k)) : r[i] = IF i <= k - 1 THEN a[i] ELSE b[i - (k - 1)]
      <3>1. a \in Seq(S) /\ b \in Seq(S) /\ Len(a) = k - 1 /\ Len(b) = n - k
        BY <2>2, <2>3
      <3> QED
        BY <2>4, <3>1, ConcatProperties
    <2>6. DOMAIN r = 1..(n - 1) /\ Len(r) = n - 1
      BY <1>1, <2>5, LenProperties
    <2>7. \A i \in 1..(n - 1) : r[i] = IF i < k THEN q[i] ELSE q[i + 1]
      <3> SUFFICES ASSUME NEW i \in 1..(n - 1)
                   PROVE  r[i] = IF i < k THEN q[i] ELSE q[i + 1]
        OBVIOUS
      <3>1. r[i] = IF i <= k - 1 THEN a[i] ELSE b[i - (k - 1)]
        BY <1>1, <2>5
      <3>2. CASE i < k
        BY <1>1, <2>2, <3>1, <3>2
      <3>3. CASE ~(i < k)
        <4>1. i - (k - 1) \in 1..(n - k) /\ k + (i - (k - 1)) = i + 1 /\ ~(i <= k - 1)
          BY <1>1, <3>3
        <4>2. b[i - (k - 1)] = q[i + 1]
          BY <2>3, <4>1
        <4> QED
          BY <3>1, <3>3, <4>1, <4>2
      <3> QED
        BY <3>2, <3>3
    <2> QED
      BY <2>5, <2>6, <2>7
  <1> HIDE DEF r, n, S
  <1>3. \A i \in 1..(n - 1) : /\ (IF i < k THEN i ELSE i + 1) \in 1..n \ {k}
                              /\ r[i] = q[IF i < k THEN i ELSE i + 1]
    BY <1>1, <1>2
  <1>4. \A i \in 1..n \ {k} : /\ (IF i < k THEN i ELSE i - 1) \in 1..(n - 1)
                              /\ r[IF i < k THEN i ELSE i - 1] = q[i]
    BY <1>1, <1>2
  <1>5. ASSUME NEW c, Waits(r, c) PROVE Waits(q, c)
    BY <1>1, <1>2, <1>3, <1>5 DEF Waits
  <1>6. ASSUME NEW c, Waits(q, c), c # q[k].cb PROVE Waits(r, c)
    BY <1>1, <1>2, <1>4, <1>6 DEF Waits
  <1>7. ASSUME NEW c, Once(q, c) PROVE Once(r, c)
    <2> SUFFICES ASSUME NEW i \in 1..(n - 1), NEW j \in 1..(n - 1), r[i].cb = c, r[j].cb = c
                 PROVE  i = j
      BY <1>2 DEF Once
    <2> DEFINE x == IF i < k THEN i ELSE i + 1  y == IF j < k THEN j ELSE j + 1
    <2>1. x \in 1..n /\ y \in 1..n /\ q[x].cb = c /\ q[y].cb = c
      BY <1>3
    <2>2. x = y
      BY <1>1, <1>7, <2>1 DEF Once
    <2> QED
      BY <1>1, <2>2
  <1>8. ASSUME Once(q, q[k].cb), Waits(r, q[k].cb) PROVE FALSE
    <2>1. PICK i \in 1..(n - 1) : r[i].cb = q[k].cb
      BY <1>2, <1>8 DEF Waits
    <2> DEFINE x == IF i < k THEN i ELSE i + 1
    <2>2. x \in 1..n /\ x # k /\ q[x].cb = q[k].cb
      BY <1>3, <2>1
    <2> QED
      BY <1>1, <1>8, <2>2 DEF Once
  <1>9. r \in Callouts(C)
    BY <1>2 DEF Callouts, S
  <1> QED
    BY <1>5, <1>6, <1>7, <1>8, <1>9 DEF r

\* The kept items of a list: for each number up to theirs there is one at which it is reached.
LEMMA KeptReached ==
    ASSUME NEW m \in Nat, NEW kept \in SUBSET (1..m), NEW n \in 1..Cardinality(kept)
    PROVE  \E i \in kept : Cardinality(kept \cap (1..i)) = n
  <1> DEFINE upto(i) == kept \cap (1..i)
             enough == {i \in Nat : Cardinality(upto(i)) >= n}
  <1>1. \A i \in Nat : IsFiniteSet(upto(i)) /\ Cardinality(upto(i)) \in Nat
    <2>1. \A i \in Nat : IsFiniteSet(1..i) /\ upto(i) \subseteq 1..i
      BY FS_Interval
    <2> QED
      BY <2>1, FS_Subset, FS_CardinalityType
  <1>2. upto(m) = kept
    OBVIOUS
  <1>3. m \in enough /\ n \in Nat /\ n >= 1
    <2>1. Cardinality(kept) \in Nat
      BY <1>1, <1>2
    <2> QED
      BY <1>2, <2>1
  <1>4. PICK i \in enough : \A j \in enough : i <= j
    BY <1>3, LeastExists
  <1>5. i # 0
    <2>1. upto(0) = {}
      OBVIOUS
    <2>2. Cardinality(upto(0)) = 0
      BY <2>1, FS_EmptySet
    <2> HIDE DEF upto
    <2> QED
      BY <1>3, <1>4, <2>2
  <1>6. i - 1 \in Nat /\ i - 1 \notin enough
    BY <1>4, <1>5
  <1>7. upto(i) = IF i \in kept THEN upto(i - 1) \cup {i} ELSE upto(i - 1)
    BY <1>6
  <1>8. i \notin upto(i - 1)
    BY <1>6
  <1>9. Cardinality(upto(i - 1) \cup {i}) = Cardinality(upto(i - 1)) + 1
    <2> HIDE DEF upto
    <2> QED
      BY <1>1, <1>6, <1>8, FS_AddElement
  <1>10. Cardinality(upto(i)) >= n /\ Cardinality(upto(i - 1)) < n
    <2>1. Cardinality(upto(i - 1)) \in Nat
      BY <1>1, <1>6
    <2> HIDE DEF upto
    <2> QED
      BY <1>3, <1>4, <1>6, <2>1
  <1>11. i \in kept /\ Cardinality(upto(i)) = n
    <2>1. Cardinality(upto(i - 1)) \in Nat
      BY <1>1, <1>6
    <2> HIDE DEF upto
    <2> QED
      BY <1>3, <1>7, <1>9, <1>10, <2>1
  <1> QED
    BY <1>11

\* At no two of them the same number is reached.
LEMMA KeptApart ==
    ASSUME NEW m \in Nat, NEW kept \in SUBSET (1..m), NEW i \in kept, NEW j \in kept,
           Cardinality(kept \cap (1..i)) = Cardinality(kept \cap (1..j))
    PROVE  i = j
  <1>1. ASSUME NEW a \in kept, NEW b \in kept, a < b,
               Cardinality(kept \cap (1..a)) = Cardinality(kept \cap (1..b))
        PROVE  FALSE
    <2>1. IsFiniteSet(kept \cap (1..b))
      <3>1. IsFiniteSet(1..b) /\ kept \cap (1..b) \in SUBSET (1..b)
        BY FS_Interval
      <3> QED
        BY <3>1, FS_Subset
    <2>2. kept \cap (1..a) \in SUBSET (kept \cap (1..b))
      BY <1>1
    <2>3. kept \cap (1..b) = kept \cap (1..a)
      BY <1>1, <2>1, <2>2, FS_Subset
    <2> QED
      BY <1>1, <2>3
  <1>2. i \in Nat /\ j \in Nat
    OBVIOUS
  <1> QED
    BY <1>1, <1>2

\* Callouts are cancelled.
LEMMA Cancelled ==
    ASSUME NEW C, NEW q \in Callouts(C), NEW cbs
    PROVE  LET r == Without(q, cbs)
           IN  /\ r \in Callouts(C)
               /\ \A c : Waits(r, c) <=> Waits(q, c) /\ c \notin cbs
               /\ \A c : Once(q, c) => Once(r, c)
  <1> DEFINE S == [cb : C, left : Nat]
             r == Without(q, cbs)
             kept == {i \in DOMAIN q : q[i].cb \notin cbs}
             n == Cardinality(kept)
             at == [x \in 1..n |-> CHOOSE i \in kept : Cardinality(kept \cap (1..i)) = x]
  <1>1. q \in Seq(S) /\ Len(q) \in Nat /\ DOMAIN q = 1..Len(q) /\ kept \in SUBSET (1..Len(q))
    BY LenProperties DEF Callouts
  <1>2. IsFiniteSet(kept) /\ n \in Nat
    <2>1. IsFiniteSet(1..Len(q))
      BY <1>1, FS_Interval
    <2> QED
      BY <1>1, <2>1, FS_Subset, FS_CardinalityType
  <1>3. r = [x \in 1..n |-> q[at[x]]]
    BY DEF Without
  <1>4. \A x \in 1..n : at[x] \in kept /\ Cardinality(kept \cap (1..at[x])) = x
    <2> SUFFICES ASSUME NEW x \in 1..n
                 PROVE  at[x] \in kept /\ Cardinality(kept \cap (1..at[x])) = x
      OBVIOUS
    <2> HIDE DEF kept
    <2>1. \E i \in kept : Cardinality(kept \cap (1..i)) = x
      BY <1>1, KeptReached
    <2> QED
      BY <2>1
  <1>5. ASSUME NEW i \in kept PROVE \E x \in 1..n : at[x] = i
    <2> DEFINE x == Cardinality(kept \cap (1..i))
    <2> HIDE DEF kept, at
    <2>1. kept \cap (1..i) \in SUBSET kept /\ i \in kept \cap (1..i)
      BY <1>1, <1>5
    <2>2. IsFiniteSet(kept \cap (1..i)) /\ x \in Nat /\ x <= n
      BY <1>2, <2>1, FS_Subset, FS_CardinalityType
    <2>3. x # 0
      BY <2>1, <2>2, FS_EmptySet
    <2>4. x \in 1..n
      BY <1>2, <2>2, <2>3
    <2>5. at[x] \in kept /\ Cardinality(kept \cap (1..at[x])) = x
      BY <1>4, <2>4
    <2>6. at[x] = i
      BY <1>1, <1>5, <2>5, KeptApart
    <2> QED
      BY <2>4, <2>6
  <1>6. r \in Seq(S) /\ DOMAIN r = 1..n
    <2>1. \A x \in 1..n : q[at[x]] \in S
      BY <1>1, <1>4, ElementOfSeq
    <2> HIDE DEF at, kept, S, n
    <2>2. r \in [1..n -> S]
      BY <1>3, <2>1
    <2> QED
      BY <1>2, <2>2, SeqDef
  <1>7. \A x \in 1..n : r[x] = q[at[x]] /\ at[x] \in DOMAIN q /\ q[at[x]].cb \notin cbs
    <2> HIDE DEF at, n, r
    <2> QED
      BY <1>3, <1>4
  <1>8. \A i \in DOMAIN q : q[i].cb \notin cbs => \E x \in 1..n : at[x] = i
    BY <1>5
  <1>9. \A x, y \in 1..n : at[x] = at[y] => x = y
    <2> HIDE DEF at, kept, n
    <2> QED
      BY <1>4
  <1> HIDE DEF at, kept, n, r, S
  <1>10. ASSUME NEW c PROVE Waits(r, c) <=> Waits(q, c) /\ c \notin cbs
    <2>1. ASSUME NEW x \in 1..n, r[x].cb = c PROVE Waits(q, c) /\ c \notin cbs
      BY <1>7, <2>1 DEF Waits
    <2>2. ASSUME NEW i \in DOMAIN q, q[i].cb = c, c \notin cbs PROVE Waits(r, c)
      <3>1. PICK x \in 1..n : at[x] = i
        BY <1>8, <2>2
      <3> QED
        BY <1>6, <1>7, <2>2, <3>1 DEF Waits
    <2> QED
      BY <1>6, <2>1, <2>2 DEF Waits
  <1>11. ASSUME NEW c, Once(q, c) PROVE Once(r, c)
    BY <1>6, <1>7, <1>9, <1>11 DEF Once
  <1>12. r \in Callouts(C)
    BY <1>6 DEF Callouts, S
  <1> QED
    BY <1>10, <1>11, <1>12 DEF r

\* Time passes.
LEMMA Ticked ==
    ASSUME NEW C, NEW q \in Callouts(C)
    PROVE  LET r == Tick(q)
           IN  /\ r \in Callouts(C)
               /\ \A c : Waits(r, c) <=> Waits(q, c)
               /\ \A c : Once(q, c) => Once(r, c)
  <1> DEFINE S == [cb : C, left : Nat]
             r == Tick(q)
             n == Len(q)
  <1>1. q \in Seq(S) /\ n \in Nat /\ DOMAIN q = 1..n /\ \A i \in 1..n : q[i] \in S
    BY LenProperties, ElementOfSeq DEF Callouts
  <1> DEFINE Later(co) == [co EXCEPT !.left = IF @ = 0 THEN 0 ELSE @ - 1]
  <1>2. r = [i \in 1..n |-> Later(q[i])]
    BY <1>1 DEF Tick
  <1>3. ASSUME NEW co \in S PROVE Later(co) \in S /\ Later(co).cb = co.cb
    OBVIOUS
  <1> HIDE DEF S, n, Later
  <1>4. r \in [1..n -> S] /\ \A i \in 1..n : r[i].cb = q[i].cb
    BY <1>1, <1>2, <1>3
  <1> HIDE DEF r
  <1>5. r \in Seq(S) /\ DOMAIN r = DOMAIN q
    BY <1>1, <1>4, SeqDef
  <1>6. r \in Callouts(C)
    BY <1>5 DEF Callouts, S
  <1>7. \A c : Waits(r, c) <=> Waits(q, c)
    BY <1>1, <1>4, <1>5 DEF Waits
  <1>8. \A c : Once(q, c) => Once(r, c)
    BY <1>1, <1>4, <1>5 DEF Once
  <1> QED
    BY <1>6, <1>7, <1>8 DEF r

\* Callouts of a callback, as the modules ask for them.
LEMMA CalloutsWait ==
    ASSUME NEW q, NEW cb
    PROVE  (CalloutsOf(q, cb) # {}) <=> Waits(q, cb)
  BY DEF CalloutsOf, Waits
=============================================================================
