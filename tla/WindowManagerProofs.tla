------------------------- MODULE WindowManagerProofs -------------------------
(***************************************************************************)
(* What the operations of List<T> return, and that every function of       *)
(* WindowOps returns a State.  Then from the functions to the steps: every *)
(* handler is a short sequence of the same functions, so what holds of     *)
(* their results holds of every step.  HandlersLead says once, for any     *)
(* sets G and H of states, that the steps lead from G to H if the          *)
(* functions do, and the proofs about WindowManager that follow are proofs *)
(* about functions; type correctness, for any windows, hints and settings, *)
(* is the first of them.                                                   *)
(***************************************************************************)
EXTENDS WindowHistory, SequenceTheorems, FiniteSetTheorems, WellFoundedInduction, TLAPS
-----------------------------------------------------------------------------
(* Lists *)

\* Unlinking an item of a list (list.h, Remove of an item) leaves a list one shorter.
LEMMA RemoveAtType ==
    ASSUME NEW S, NEW q \in Seq(S), NEW k, q # <<>>
    PROVE  /\ RemoveAt(q, k) \in Seq(S)
           /\ Len(RemoveAt(q, k)) = Len(q) - 1
           /\ \A i \in 1..(Len(q) - 1) : RemoveAt(q, k)[i] = IF i < k THEN q[i] ELSE q[i + 1]
  <1> DEFINE r == RemoveAt(q, k)
  <1>1. Len(q) \in Nat \ {0} /\ DOMAIN q = 1..Len(q) /\ q \in [1..Len(q) -> S]
    BY EmptySeq, LenProperties
  <1>2. \A i \in 1..(Len(q) - 1) : i \in 1..Len(q) /\ i + 1 \in 1..Len(q)
    BY <1>1
  <1>3. r \in [1..(Len(q) - 1) -> S]
    BY <1>1, <1>2 DEF RemoveAt
  <1>4. Len(q) - 1 \in Nat
    BY <1>1
  <1>5. r \in Seq(S)
    BY <1>3, <1>4, SeqDef
  <1>6. Len(r) = Len(q) - 1
    <2>1. DOMAIN r = 1..Len(r) /\ Len(r) \in Nat
      BY <1>5, LenProperties
    <2>2. DOMAIN r = 1..(Len(q) - 1)
      BY <1>3
    <2> QED
      BY <2>1, <2>2, <1>4
  <1> QED
    BY <1>5, <1>6 DEF RemoveAt

\* Less-than as the well-founded relation that the library calls by this name.
LEMMA LessIsRelated ==
    ASSUME NEW i \in Nat, NEW k \in Nat, i < k
    PROVE  <<i, k>> \in OpToRel(<, Nat)
  BY Zenon DEF OpToRel

\* The scan of List::Remove(obj) stops at the first item that holds obj.
LEMMA FirstIndexProperties ==
    ASSUME NEW S, NEW q \in Seq(S), NEW e, Has(q, e)
    PROVE  /\ FirstIndex(q, e) \in 1..Len(q)
           /\ q[FirstIndex(q, e)] = e
           /\ \A i \in 1..(FirstIndex(q, e) - 1) : q[i] # e
  <1> DEFINE less == OpToRel(<, Nat)
             holds == {k \in DOMAIN q : q[k] = e}
  <1>1. DOMAIN q = 1..Len(q) /\ Len(q) \in Nat
    BY LenProperties
  <1>2. holds \subseteq Nat /\ holds # {}
    BY <1>1 DEF Has
  <1>3. \E x \in holds : \A y \in holds : ~(<<y, x>> \in less)
    BY <1>2, NatLessThanWellFounded, WFMin
  <1>4. \A i, k \in Nat : i < k => <<i, k>> \in less
    BY LessIsRelated
  <1> HIDE DEF less
  <1>5. PICK k \in holds : \A y \in holds : ~(<<y, k>> \in less)
    BY <1>3
  <1>6. \A i \in 1..(k - 1) : q[i] # e
    <2> SUFFICES ASSUME NEW i \in 1..(k - 1), q[i] = e PROVE FALSE
      OBVIOUS
    <2>1. k \in 1..Len(q)
      BY <1>1, <1>5
    <2>2. i \in holds /\ i \in Nat /\ k \in Nat /\ i < k
      BY <1>1, <2>1
    <2>3. <<i, k>> \in less
      BY <1>4, <2>2
    <2> QED
      BY <1>5, <2>2, <2>3
  <1>7. k \in DOMAIN q /\ q[k] = e /\ \A i \in 1..(k - 1) : q[i] # e
    BY <1>5, <1>6
  <1>8. FirstIndex(q, e) \in DOMAIN q /\ q[FirstIndex(q, e)] = e
        /\ \A i \in 1..(FirstIndex(q, e) - 1) : q[i] # e
    BY <1>7 DEF FirstIndex
  <1> QED
    BY <1>1, <1>8

\* Every operation of a list of objects leaves a list of objects.
LEMMA ListTypes ==
    ASSUME NEW S, NEW q \in Seq(S), NEW e \in S
    PROVE  /\ InsertHead(q, e) \in Seq(S) /\ InsertHead(q, e) # <<>>
           /\ InsertTail(q, e) \in Seq(S) /\ InsertTail(q, e) # <<>>
           /\ Remove(q, e) \in Seq(S)
           /\ q # <<>> => /\ GetHead(q) \in S /\ GetTail(q) \in S
                          /\ RemoveHead(q) \in Seq(S) /\ RemoveTail(q) \in Seq(S)
  <1>1. <<e>> \in Seq(S)
    OBVIOUS
  <1>2. InsertHead(q, e) \in Seq(S) /\ InsertHead(q, e) # <<>>
    <2>1. InsertHead(q, e) \in Seq(S)
      BY <1>1, ConcatProperties DEF InsertHead
    <2>2. Len(InsertHead(q, e)) = 1 + Len(q) /\ Len(q) \in Nat
      BY <1>1, ConcatProperties, LenProperties DEF InsertHead
    <2> QED
      BY <2>1, <2>2, EmptySeq
  <1>3. InsertTail(q, e) \in Seq(S) /\ InsertTail(q, e) # <<>>
    BY AppendProperties DEF InsertTail
  <1>4. Remove(q, e) \in Seq(S)
    <2>1. CASE Has(q, e)
      <3>1. q # <<>>
        BY <2>1 DEF Has
      <3> QED
        BY <2>1, <3>1, RemoveAtType DEF Remove
    <2>2. CASE ~Has(q, e)
      BY <2>2 DEF Remove
    <2> QED
      BY <2>1, <2>2
  <1>5. ASSUME q # <<>>
        PROVE  /\ GetHead(q) \in S /\ GetTail(q) \in S
               /\ RemoveHead(q) \in Seq(S) /\ RemoveTail(q) \in Seq(S)
    <2>1. GetHead(q) \in S /\ RemoveHead(q) \in Seq(S)
      BY <1>5, HeadTailProperties DEF GetHead, RemoveHead
    <2>2. Len(q) \in Nat \ {0}
      BY <1>5, EmptySeq, LenProperties
    <2>3. GetTail(q) \in S
      BY <2>2, ElementOfSeq DEF GetTail
    <2>4. RemoveTail(q) \in Seq(S)
      BY <2>2, SubSeqProperties DEF RemoveTail
    <2> QED
      BY <2>1, <2>3, <2>4
  <1> QED
    BY <1>2, <1>3, <1>4, <1>5

\* What InsertHead, InsertTail, RemoveHead and RemoveTail leave in each place.
LEMMA ListItems ==
    ASSUME NEW S, NEW q \in Seq(S), NEW e \in S
    PROVE  LET n == Len(q)
           IN  /\ n \in Nat /\ DOMAIN q = 1..n
               /\ Len(InsertHead(q, e)) = n + 1 /\ DOMAIN InsertHead(q, e) = 1..(n + 1)
               /\ \A i \in 1..(n + 1) : InsertHead(q, e)[i] = IF i = 1 THEN e ELSE q[i - 1]
               /\ Len(InsertTail(q, e)) = n + 1 /\ DOMAIN InsertTail(q, e) = 1..(n + 1)
               /\ \A i \in 1..(n + 1) : InsertTail(q, e)[i] = IF i = n + 1 THEN e ELSE q[i]
               /\ q # <<>> => /\ Len(RemoveHead(q)) = n - 1
                              /\ \A i \in 1..(n - 1) : RemoveHead(q)[i] = q[i + 1]
                              /\ Len(RemoveTail(q)) = n - 1
                              /\ \A i \in 1..(n - 1) : RemoveTail(q)[i] = q[i]
  <1> DEFINE n == Len(q)
  <1>1. n \in Nat /\ DOMAIN q = 1..n
    BY LenProperties
  <1>2. <<e>> \in Seq(S) /\ Len(<<e>>) = 1 /\ <<e>>[1] = e
    OBVIOUS
  <1>3. /\ InsertHead(q, e) \in Seq(S) /\ Len(InsertHead(q, e)) = n + 1
        /\ \A i \in 1..(n + 1) : InsertHead(q, e)[i] = IF i = 1 THEN e ELSE q[i - 1]
    <2>1. /\ <<e>> \o q \in Seq(S) /\ Len(<<e>> \o q) = 1 + n
          /\ \A i \in 1..(1 + n) :
               (<<e>> \o q)[i] = IF i <= 1 THEN <<e>>[i] ELSE q[i - 1]
      BY <1>2, ConcatProperties
    <2> QED
      BY <1>1, <1>2, <2>1 DEF InsertHead
  <1>4. /\ InsertTail(q, e) \in Seq(S) /\ Len(InsertTail(q, e)) = n + 1
        /\ \A i \in 1..(n + 1) : InsertTail(q, e)[i] = IF i = n + 1 THEN e ELSE q[i]
    BY <1>1, AppendProperties DEF InsertTail
  <1>5. ASSUME q # <<>>
        PROVE  /\ Len(RemoveHead(q)) = n - 1
               /\ \A i \in 1..(n - 1) : RemoveHead(q)[i] = q[i + 1]
               /\ Len(RemoveTail(q)) = n - 1
               /\ \A i \in 1..(n - 1) : RemoveTail(q)[i] = q[i]
    <2>1. n \in Nat \ {0}
      BY <1>5, EmptySeq, LenProperties
    <2>2. /\ Len(RemoveHead(q)) = n - 1
          /\ \A i \in 1..(n - 1) : RemoveHead(q)[i] = q[i + 1]
      BY <1>5, <2>1, HeadTailProperties DEF RemoveHead
    <2>3. /\ Len(RemoveTail(q)) = n - 1
          /\ \A i \in 1..(n - 1) : RemoveTail(q)[i] = q[i]
      <3>1. /\ Len(SubSeq(q, 1, n - 1)) = IF 1 <= n - 1 THEN (n - 1) - 1 + 1 ELSE 0
            /\ \A i \in 1..((n - 1) - 1 + 1) : SubSeq(q, 1, n - 1)[i] = q[1 + i - 1]
        BY <2>1, SubSeqProperties
      <3>2. (n - 1) - 1 + 1 = n - 1 /\ (\A i \in 1..(n - 1) : 1 + i - 1 = i)
        BY <2>1
      <3>3. Len(SubSeq(q, 1, n - 1)) = n - 1
        <4> HIDE DEF n
        <4> QED
          BY <2>1, <3>1
      <3>4. \A i \in 1..(n - 1) : SubSeq(q, 1, n - 1)[i] = q[i]
        BY <3>1, <3>2
      <3> QED
        BY <3>3, <3>4 DEF RemoveTail
    <2> QED
      BY <2>2, <2>3
  <1>6. DOMAIN InsertHead(q, e) = 1..(n + 1) /\ DOMAIN InsertTail(q, e) = 1..(n + 1)
    BY <1>3, <1>4, LenProperties
  <1> QED
    BY <1>1, <1>3, <1>4, <1>5, <1>6

\* The lists that hold the items of q in another order.
Turns(S, q) ==
    {r \in Seq(S) :
        \E f \in [DOMAIN r -> DOMAIN q] :
            /\ \A i, j \in DOMAIN r : f[i] = f[j] => i = j
            /\ \A k \in DOMAIN q : \E i \in DOMAIN r : f[i] = k
            /\ \A i \in DOMAIN r : r[i] = q[f[i]]}

\* They hold each object as often as q does.
LEMMA TurnsKeepItems ==
    ASSUME NEW S, NEW q \in Seq(S), NEW r \in Turns(S, q), NEW e
    PROVE  /\ r \in Seq(S)
           /\ Has(r, e) <=> Has(q, e)
           /\ AtMostOnce(q, e) => AtMostOnce(r, e)
           /\ AtMostTwice(q, e) => AtMostTwice(r, e)
  <1>1. PICK f \in [DOMAIN r -> DOMAIN q] :
            /\ \A i, j \in DOMAIN r : f[i] = f[j] => i = j
            /\ \A k \in DOMAIN q : \E i \in DOMAIN r : f[i] = k
            /\ \A i \in DOMAIN r : r[i] = q[f[i]]
    BY DEF Turns
  <1>2. Has(r, e) <=> Has(q, e)
    BY <1>1 DEF Has
  <1>3. AtMostOnce(q, e) => AtMostOnce(r, e)
    BY <1>1 DEF AtMostOnce
  <1>4. AtMostTwice(q, e) => AtMostTwice(r, e)
    BY <1>1 DEF AtMostTwice
  <1> QED
    BY <1>2, <1>3, <1>4 DEF Turns

\* A list is a turn of itself, and a turn of a turn is one.
LEMMA TurnsCompose ==
    ASSUME NEW S, NEW q \in Seq(S)
    PROVE  /\ q \in Turns(S, q)
           /\ \A r \in Turns(S, q) : \A t \in Turns(S, r) : t \in Turns(S, q)
  <1>1. q \in Turns(S, q)
    <2> DEFINE f == [i \in DOMAIN q |-> i]
    <2>1. /\ f \in [DOMAIN q -> DOMAIN q]
          /\ \A i, j \in DOMAIN q : f[i] = f[j] => i = j
          /\ \A k \in DOMAIN q : \E i \in DOMAIN q : f[i] = k
          /\ \A i \in DOMAIN q : q[i] = q[f[i]]
      OBVIOUS
    <2> QED
      BY <2>1 DEF Turns
  <1>2. ASSUME NEW r \in Turns(S, q), NEW t \in Turns(S, r) PROVE t \in Turns(S, q)
    <2>1. PICK f \in [DOMAIN r -> DOMAIN q] :
              /\ \A i, j \in DOMAIN r : f[i] = f[j] => i = j
              /\ \A k \in DOMAIN q : \E i \in DOMAIN r : f[i] = k
              /\ \A i \in DOMAIN r : r[i] = q[f[i]]
      BY DEF Turns
    <2>2. PICK g \in [DOMAIN t -> DOMAIN r] :
              /\ \A i, j \in DOMAIN t : g[i] = g[j] => i = j
              /\ \A k \in DOMAIN r : \E i \in DOMAIN t : g[i] = k
              /\ \A i \in DOMAIN t : t[i] = r[g[i]]
      BY DEF Turns
    <2> DEFINE h == [i \in DOMAIN t |-> f[g[i]]]
    <2>3. /\ h \in [DOMAIN t -> DOMAIN q]
          /\ \A i, j \in DOMAIN t : h[i] = h[j] => i = j
          /\ \A k \in DOMAIN q : \E i \in DOMAIN t : h[i] = k
          /\ \A i \in DOMAIN t : t[i] = q[h[i]]
      BY <2>1, <2>2
    <2>4. t \in Seq(S)
      BY DEF Turns
    <2> HIDE DEF h
    <2> QED
      BY <2>3, <2>4 DEF Turns
  <1> QED
    BY <1>1, <1>2

\* RollFocus and RollFocusWithinScreen turn the list.
LEMMA RollsAreTurns ==
    ASSUME NEW S, NEW q \in Seq(S), q # <<>>
    PROVE  /\ InsertTail(RemoveHead(q), GetHead(q)) \in Turns(S, q)
           /\ InsertHead(RemoveTail(q), GetTail(q)) \in Turns(S, q)
           /\ \A k \in DOMAIN q : InsertHead(RemoveAt(q, k), q[k]) \in Turns(S, q)
  <1> DEFINE n == Len(q)
  <1>1. n \in Nat \ {0} /\ DOMAIN q = 1..n
    BY EmptySeq, LenProperties
  <1>2. \A i \in 1..n : q[i] \in S
    BY ElementOfSeq
  <1> HIDE DEF n
  <1>0. n = Len(q)
    BY DEF n
  <1>3. GetHead(q) = q[1] /\ GetTail(q) = q[n]
    BY <1>0, HeadTailProperties DEF GetHead, GetTail
  <1>4. InsertTail(RemoveHead(q), GetHead(q)) \in Turns(S, q)
    <2> DEFINE t == RemoveHead(q)
               r == InsertTail(t, q[1])
               f == [i \in 1..n |-> IF i = n THEN 1 ELSE i + 1]
    <2>0. q[1] \in S
      BY <1>1, <1>2
    <2>1. t \in Seq(S) /\ Len(t) = n - 1 /\ \A i \in 1..(n - 1) : t[i] = q[i + 1]
      BY ZenonT(60), <1>0, <2>0, ListItems, ListTypes
    <2> HIDE DEF t
    <2>2. r \in Seq(S) /\ DOMAIN r = 1..n
          /\ \A i \in 1..n : r[i] = IF i = n THEN q[1] ELSE t[i]
      <3>1. DOMAIN r = 1..(Len(t) + 1)
            /\ \A i \in 1..(Len(t) + 1) : r[i] = IF i = Len(t) + 1 THEN q[1] ELSE t[i]
        BY SMTT(40), <2>0, <2>1, ListItems
      <3>2. Len(t) + 1 = n
        BY <1>1, <2>1
      <3>3. r \in Seq(S)
        BY <2>0, <2>1, ListTypes
      <3> QED
        BY <3>1, <3>2, <3>3
    <2> HIDE DEF r
    <2>3. /\ f \in [DOMAIN r -> DOMAIN q]
          /\ \A i, j \in DOMAIN r : f[i] = f[j] => i = j
      BY <1>1, <2>2
    <2>4. \A k \in DOMAIN q : \E i \in DOMAIN r : f[i] = k
      <3> TAKE k \in DOMAIN q
      <3>1. f[IF k = 1 THEN n ELSE k - 1] = k /\ (IF k = 1 THEN n ELSE k - 1) \in 1..n
        BY <1>1
      <3> QED
        BY <2>2, <3>1
    <2>5. \A i \in DOMAIN r : r[i] = q[f[i]]
      BY <1>1, <2>1, <2>2
    <2> HIDE DEF f
    <2>6. r \in Turns(S, q)
      BY <2>2, <2>3, <2>4, <2>5 DEF Turns
    <2> QED
      BY <1>3, <2>6 DEF r, t
  <1>5. ASSUME NEW k \in 1..n, NEW t \in Seq(S), Len(t) = n - 1,
               \A i \in 1..(n - 1) : t[i] = IF i < k THEN q[i] ELSE q[i + 1]
        PROVE  InsertHead(t, q[k]) \in Turns(S, q)
    <2> DEFINE r == InsertHead(t, q[k])
               f == [i \in 1..n |-> IF i = 1 THEN k ELSE IF i - 1 < k THEN i - 1 ELSE i]
    <2>1. r \in Seq(S) /\ DOMAIN r = 1..n
          /\ \A i \in 1..n : r[i] = IF i = 1 THEN q[k] ELSE t[i - 1]
      <3>1. q[k] \in S
        BY <1>2
      <3>2. DOMAIN r = 1..(Len(t) + 1)
            /\ \A i \in 1..(Len(t) + 1) : r[i] = IF i = 1 THEN q[k] ELSE t[i - 1]
        BY SMTT(40), <1>5, <3>1, ListItems
      <3>3. Len(t) + 1 = n
        BY <1>1, <1>5
      <3>4. r \in Seq(S)
        BY <1>5, <3>1, ListTypes
      <3> QED
        BY <3>2, <3>3, <3>4
    <2> HIDE DEF r
    <2>2. /\ f \in [DOMAIN r -> DOMAIN q]
          /\ \A i, j \in DOMAIN r : f[i] = f[j] => i = j
      BY <1>1, <2>1
    <2>3. \A m \in DOMAIN q : \E i \in DOMAIN r : f[i] = m
      <3> TAKE m \in DOMAIN q
      <3>1. LET i == IF m = k THEN 1 ELSE IF m < k THEN m + 1 ELSE m
            IN  i \in 1..n /\ f[i] = m
        BY <1>1
      <3> QED
        BY <2>1, <3>1
    <2>4. \A i \in DOMAIN r : r[i] = q[f[i]]
      BY SMTT(40), <1>1, <1>5, <2>1
    <2> HIDE DEF f
    <2>5. r \in Turns(S, q)
      BY <2>1, <2>2, <2>3, <2>4 DEF Turns
    <2> QED
      BY <2>5 DEF r
  <1>6. InsertHead(RemoveTail(q), GetTail(q)) \in Turns(S, q)
    <2>1. RemoveTail(q) \in Seq(S) /\ Len(RemoveTail(q)) = n - 1
          /\ \A i \in 1..(n - 1) : RemoveTail(q)[i] = q[i]
      <3>1. q[n] \in S
        BY <1>1, <1>2
      <3> QED
        BY <1>0, <3>1, ListItems, ListTypes
    <2>2. \A i \in 1..(n - 1) : i < n
      BY <1>1
    <2> QED
      BY <1>1, <1>3, <1>5, <2>1, <2>2
  <1>7. ASSUME NEW k \in DOMAIN q PROVE InsertHead(RemoveAt(q, k), q[k]) \in Turns(S, q)
    BY <1>0, <1>1, <1>5, RemoveAtType
  <1> QED
    BY <1>4, <1>6, <1>7

\* Once is at most twice, and never is at most once.
LEMMA SeldomIsOften ==
    ASSUME NEW q, NEW e
    PROVE  /\ ~Has(q, e) => AtMostOnce(q, e)
           /\ AtMostOnce(q, e) => AtMostTwice(q, e)
  BY DEF Has, AtMostOnce, AtMostTwice

\* An object inserted is on the list once more, the others as often as before.
LEMMA InsertOccurs ==
    ASSUME NEW S, NEW q \in Seq(S), NEW e \in S, NEW r, r = InsertHead(q, e) \/ r = InsertTail(q, e)
    PROVE  /\ \A x : /\ Has(r, x) <=> x = e \/ Has(q, x)
                     /\ x # e /\ AtMostOnce(q, x) => AtMostOnce(r, x)
                     /\ x # e /\ AtMostTwice(q, x) => AtMostTwice(r, x)
           /\ ~Has(q, e) => AtMostOnce(r, e)
           /\ AtMostOnce(q, e) => AtMostTwice(r, e)
  <1>1. PICK g, k : /\ g \in [DOMAIN q -> DOMAIN r]
                    /\ k \in DOMAIN r /\ r[k] = e
                    /\ \A i, j \in DOMAIN q : g[i] = g[j] => i = j
                    /\ \A m \in DOMAIN r : m = k \/ \E i \in DOMAIN q : m = g[i]
                    /\ \A i \in DOMAIN q : g[i] # k /\ r[g[i]] = q[i]
    <2> DEFINE n == Len(q)
    <2>1. n \in Nat /\ DOMAIN q = 1..n
      BY LenProperties
    <2>2. CASE r = InsertHead(q, e)
      <3>1. DOMAIN r = 1..(n + 1) /\ \A i \in 1..(n + 1) : r[i] = IF i = 1 THEN e ELSE q[i - 1]
        BY <2>2, ListItems
      <3> DEFINE g == [i \in DOMAIN q |-> i + 1]
      <3> HIDE DEF n
      <3>2. /\ g \in [DOMAIN q -> DOMAIN r]
            /\ 1 \in DOMAIN r /\ r[1] = e
            /\ \A i, j \in DOMAIN q : g[i] = g[j] => i = j
            /\ \A i \in DOMAIN q : g[i] # 1 /\ r[g[i]] = q[i]
        BY <2>1, <3>1
      <3>3. \A m \in DOMAIN r : m = 1 \/ \E i \in DOMAIN q : m = g[i]
        <4> TAKE m \in DOMAIN r
        <4>1. m # 1 => m - 1 \in DOMAIN q /\ g[m - 1] = m
          BY <2>1, <3>1
        <4> QED
          BY <4>1
      <3> HIDE DEF g
      <3> QED
        BY <3>2, <3>3
    <2>3. CASE r = InsertTail(q, e)
      <3>1. DOMAIN r = 1..(n + 1)
            /\ \A i \in 1..(n + 1) : r[i] = IF i = n + 1 THEN e ELSE q[i]
        BY <2>3, ListItems
      <3> DEFINE g == [i \in DOMAIN q |-> i]
      <3> HIDE DEF n
      <3>2. /\ g \in [DOMAIN q -> DOMAIN r]
            /\ n + 1 \in DOMAIN r /\ r[n + 1] = e
            /\ \A i, j \in DOMAIN q : g[i] = g[j] => i = j
            /\ \A i \in DOMAIN q : g[i] # n + 1 /\ r[g[i]] = q[i]
        BY <2>1, <3>1
      <3>3. \A m \in DOMAIN r : m = n + 1 \/ \E i \in DOMAIN q : m = g[i]
        BY <2>1, <3>1
      <3> HIDE DEF g
      <3> QED
        BY <3>2, <3>3
    <2> QED
      BY <2>2, <2>3
  <1>2. \A x : Has(r, x) <=> x = e \/ Has(q, x)
    BY <1>1 DEF Has
  <1>3. \A x : x # e /\ AtMostOnce(q, x) => AtMostOnce(r, x)
    BY <1>1 DEF AtMostOnce
  <1>4. \A x : x # e /\ AtMostTwice(q, x) => AtMostTwice(r, x)
    BY <1>1 DEF AtMostTwice
  <1>5. ~Has(q, e) => AtMostOnce(r, e)
    BY <1>1 DEF Has, AtMostOnce
  <1>6. AtMostOnce(q, e) => AtMostTwice(r, e)
    BY <1>1 DEF AtMostOnce, AtMostTwice
  <1> QED
    BY <1>2, <1>3, <1>4, <1>5, <1>6

\* An object removed is on the list once less, the others as often as before.
LEMMA RemoveOccurs ==
    ASSUME NEW S, NEW q \in Seq(S), NEW e
    PROVE  LET r == Remove(q, e)
           IN  /\ r \in Seq(S)
               /\ \A x : /\ Has(r, x) => Has(q, x)
                         /\ x # e /\ Has(q, x) => Has(r, x)
                         /\ AtMostOnce(q, x) => AtMostOnce(r, x)
                         /\ AtMostTwice(q, x) => AtMostTwice(r, x)
               /\ AtMostOnce(q, e) => ~Has(r, e)
               /\ AtMostTwice(q, e) => AtMostOnce(r, e)
               /\ q # <<>> /\ q[1] # e => r # <<>> /\ r[1] = q[1]
  <1> DEFINE r == Remove(q, e)
  <1>1. CASE ~Has(q, e)
    BY <1>1 DEF Remove, Has, AtMostOnce, AtMostTwice
  <1>2. CASE Has(q, e)
    <2> DEFINE n == Len(q)
               k == FirstIndex(q, e)
    <2>1. k \in 1..n /\ q[k] = e /\ \A i \in 1..(k - 1) : q[i] # e
      BY <1>2, FirstIndexProperties
    <2>2. n \in Nat \ {0} /\ DOMAIN q = 1..n /\ q # <<>>
      BY <2>1, EmptySeq, LenProperties
    <2>3. r = RemoveAt(q, k)
      BY <1>2 DEF Remove
    <2> HIDE DEF k, r
    <2>4. r \in Seq(S) /\ Len(r) = n - 1 /\ DOMAIN r = 1..(n - 1)
          /\ \A i \in 1..(n - 1) : r[i] = IF i < k THEN q[i] ELSE q[i + 1]
      BY ZenonT(60), <2>2, <2>3, RemoveAtType, LenProperties
    <2> DEFINE g == [i \in DOMAIN r |-> IF i < k THEN i ELSE i + 1]
    <2> HIDE DEF n
    <2>5. /\ g \in [DOMAIN r -> DOMAIN q]
          /\ \A i, j \in DOMAIN r : g[i] = g[j] => i = j
          /\ \A i \in DOMAIN r : g[i] # k /\ r[i] = q[g[i]]
      BY <2>1, <2>2, <2>4
    <2>6. \A m \in DOMAIN q : m = k \/ \E i \in DOMAIN r : g[i] = m
      <3> TAKE m \in DOMAIN q
      <3>1. m < k => m \in DOMAIN r /\ g[m] = m
        BY <2>1, <2>2, <2>4
      <3>2. m > k => m - 1 \in DOMAIN r /\ g[m - 1] = m
        BY <2>1, <2>2, <2>4
      <3> QED
        BY <2>1, <2>2, <3>1, <3>2
    <2> HIDE DEF g
    <2>7. \A x : (Has(r, x) => Has(q, x)) /\ (x # e /\ Has(q, x) => Has(r, x))
      BY <2>1, <2>5, <2>6 DEF Has
    <2>8. \A x : /\ AtMostOnce(q, x) => AtMostOnce(r, x)
                 /\ AtMostTwice(q, x) => AtMostTwice(r, x)
      <3>1. \A x : AtMostOnce(q, x) => AtMostOnce(r, x)
        BY <2>5 DEF AtMostOnce
      <3>2. \A x : AtMostTwice(q, x) => AtMostTwice(r, x)
        BY <2>5 DEF AtMostTwice
      <3> QED
        BY <3>1, <3>2
    <2>9. AtMostOnce(q, e) => ~Has(r, e)
      BY <2>1, <2>2, <2>5 DEF Has, AtMostOnce
    <2>10. AtMostTwice(q, e) => AtMostOnce(r, e)
      BY <2>1, <2>2, <2>5 DEF AtMostOnce, AtMostTwice
    <2>11. q[1] # e => r # <<>> /\ r[1] = q[1]
      <3> HAVE q[1] # e
      <3>1. k # 1 /\ 1 < k /\ n - 1 >= 1
        BY <2>1, <2>2
      <3>2. 1 \in DOMAIN r /\ r[1] = q[1]
        BY <2>2, <2>4, <3>1
      <3> QED
        BY <3>2
    <2> USE DEF r
    <2> QED
      BY <2>4, <2>7, <2>8, <2>9, <2>10, <2>11
  <1> QED
    BY <1>1, <1>2

\* An object taken off the list and put on again, at either end, is there as often.
LEMMA RaiseOccurs ==
    ASSUME NEW S, NEW q \in Seq(S), NEW e \in S
    PROVE  /\ LET r == InsertHead(Remove(q, e), e)
              IN  /\ r \in Seq(S) /\ r # <<>> /\ r[1] = e
                  /\ \A x : /\ Has(r, x) <=> x = e \/ Has(q, x)
                            /\ AtMostOnce(q, x) => AtMostOnce(r, x)
                            /\ AtMostTwice(q, x) => AtMostTwice(r, x)
           /\ LET r == InsertTail(Remove(q, e), e)
              IN  /\ r \in Seq(S)
                  /\ q # <<>> /\ q[1] # e => r # <<>> /\ r[1] = q[1]
                  /\ \A x : /\ Has(r, x) <=> x = e \/ Has(q, x)
                            /\ AtMostOnce(q, x) => AtMostOnce(r, x)
                            /\ AtMostTwice(q, x) => AtMostTwice(r, x)
  <1> DEFINE p == Remove(q, e)
  <1>1. /\ p \in Seq(S)
        /\ \A x : /\ Has(p, x) => Has(q, x)
                  /\ x # e /\ Has(q, x) => Has(p, x)
                  /\ AtMostOnce(q, x) => AtMostOnce(p, x)
                  /\ AtMostTwice(q, x) => AtMostTwice(p, x)
        /\ AtMostOnce(q, e) => ~Has(p, e)
        /\ AtMostTwice(q, e) => AtMostOnce(p, e)
        /\ q # <<>> /\ q[1] # e => p # <<>> /\ p[1] = q[1]
    BY RemoveOccurs
  <1> HIDE DEF p
  <1>2. ASSUME NEW r, r = InsertHead(p, e) \/ r = InsertTail(p, e)
        PROVE  \A x : /\ Has(r, x) <=> x = e \/ Has(q, x)
                      /\ AtMostOnce(q, x) => AtMostOnce(r, x)
                      /\ AtMostTwice(q, x) => AtMostTwice(r, x)
    <2>1. /\ \A x : /\ Has(r, x) <=> x = e \/ Has(p, x)
                    /\ x # e /\ AtMostOnce(p, x) => AtMostOnce(r, x)
                    /\ x # e /\ AtMostTwice(p, x) => AtMostTwice(r, x)
          /\ ~Has(p, e) => AtMostOnce(r, e)
          /\ AtMostOnce(p, e) => AtMostTwice(r, e)
      BY <1>1, <1>2, InsertOccurs
    <2>2. \A x : x # e => /\ Has(r, x) <=> Has(q, x)
                          /\ AtMostOnce(q, x) => AtMostOnce(r, x)
                          /\ AtMostTwice(q, x) => AtMostTwice(r, x)
      BY <1>1, <2>1
    <2>3. /\ Has(r, e)
          /\ AtMostOnce(q, e) => AtMostOnce(r, e)
          /\ AtMostTwice(q, e) => AtMostTwice(r, e)
      BY <1>1, <2>1
    <2> QED
      BY <2>2, <2>3
  <1>3. /\ InsertHead(p, e) \in Seq(S) /\ InsertHead(p, e) # <<>>
        /\ InsertTail(p, e) \in Seq(S) /\ InsertTail(p, e) # <<>>
    BY <1>1, ListTypes
  <1>4. /\ InsertHead(p, e)[1] = e
        /\ p # <<>> => InsertTail(p, e)[1] = p[1]
    <2> DEFINE n == Len(p)
    <2>1. /\ n \in Nat
          /\ \A i \in 1..(n + 1) : InsertHead(p, e)[i] = IF i = 1 THEN e ELSE p[i - 1]
          /\ \A i \in 1..(n + 1) : InsertTail(p, e)[i] = IF i = n + 1 THEN e ELSE p[i]
      <3>1. /\ Len(p) \in Nat
            /\ \A i \in 1..(Len(p) + 1) : InsertHead(p, e)[i] = IF i = 1 THEN e ELSE p[i - 1]
        BY <1>1, ListItems
      <3>2. \A i \in 1..(Len(p) + 1) :
              InsertTail(p, e)[i] = IF i = Len(p) + 1 THEN e ELSE p[i]
        BY <1>1, ListItems
      <3> QED
        BY <3>1, <3>2
    <2>0. p # <<>> => n # 0
      BY <1>1, EmptySeq
    <2> HIDE DEF n
    <2>2. 1 \in 1..(n + 1) /\ (n # 0 => 1 # n + 1)
      BY <2>1
    <2> QED
      BY <2>0, <2>1, <2>2
  <1> QED
    BY <1>1, <1>2, <1>3, <1>4 DEF p
-----------------------------------------------------------------------------
(* Functions of the State *)

\* An assignment to a member of one window, or to a list.
LEMMA AssignTypes ==
    ASSUME NEW s \in State, NEW w \in Qvwm
    PROVE  /\ \A b \in BOOLEAN : [s EXCEPT !.trMapped[w] = b] \in State
           /\ \A v \in SUBSET Status : [s EXCEPT !.status[w] = v] \in State
           /\ \A v \in SUBSET Flag : [s EXCEPT !.flags[w] = v] \in State
           /\ \A v \in SUBSET Flag : [s EXCEPT !.flagsBak[w] = v] \in State
           /\ \A q \in Seq(Window) : [s EXCEPT !.mapList = q] \in State
           /\ \A q \in Seq(Window) : [s EXCEPT !.unmapList = q] \in State
           /\ \A q, r \in Seq(Window) : [s EXCEPT !.mapList = q, !.unmapList = r] \in State
           /\ \A q, r \in Seq(Window) : [s EXCEPT !.unmapList = r, !.mapList = q] \in State
           /\ \A f, g \in SUBSET Flag :
                [s EXCEPT !.flags[w] = f, !.flagsBak[w] = g] \in State
  BY DEF State

\* The links between transients and main windows, assigned together.
WithLinks(s, mains, lists) == [s EXCEPT !.qvMain = mains, !.trList = lists]

\* The members a destructor sets.
LEMMA WithLinksType ==
    ASSUME NEW s \in State,
           NEW mains \in [Qvwm -> Window \cup {Root, NULL}], NEW lists \in [Qvwm -> SUBSET Window]
    PROVE  WithLinks(s, mains, lists) \in State
  BY DEF WithLinks, State

\* FocusMgr::SetFocus and Qvwm::SetFocus leave a well-typed state.
LEMMA FocusMgrSetFocusType ==
    ASSUME NEW s \in State, NEW w \in Qvwm
    PROVE  FocusMgrSetFocus(s, w) \in State
  <1>1. ASSUME w # Root PROVE InsertHead(Remove(s.mapList, w), w) \in Seq(Window)
    <2>1. s.mapList \in Seq(Window) /\ w \in Window
      BY <1>1 DEF State, Qvwm
    <2>2. Remove(s.mapList, w) \in Seq(Window)
      BY <2>1, ListTypes
    <2> QED
      BY <2>1, <2>2, ListTypes
  <1> QED
    BY <1>1 DEF FocusMgrSetFocus, State

\* SetFocus, of the manager and of a window.
LEMMA SetFocusType ==
    ASSUME NEW s \in State, NEW w \in Qvwm
    PROVE  SetFocus(s, w) \in State
  BY FocusMgrSetFocusType DEF SetFocus

\* Qvwm::MapWindow and Qvwm::UnmapWindow reach the window and transients alone.
LEMMA ReachedProperties ==
    ASSUME NEW s, NEW w, NEW transients \in BOOLEAN
    PROVE  /\ w \in Reached(s, w, transients)
           /\ \A x \in Reached(s, w, transients) : x = w \/ (x \in Window /\ IsTransient(x))
  BY DEF Reached, Cascade, Transients

\* MapWindow, with its transients.
LEMMA MapWindowType ==
    ASSUME NEW s \in State, NEW w \in Qvwm, NEW mapTransient \in BOOLEAN
    PROVE  MapWindow(s, w, mapTransient) \in State
  <1> DEFINE R == Reached(s, w, mapTransient)
  <1>1. MapWindow(s, w, mapTransient) =
          [s EXCEPT !.mapped = [x \in Qvwm |-> x \in R \/ s.mapped[x]],
                    !.xmapped = [x \in Window |-> x \in R \/ s.xmapped[x]],
                    !.frames = s.frames \cup {x \in Window : x \in R /\ ~s.mapped[x]}]
    BY Zenon DEF MapWindow
  <1> HIDE DEF R
  <1>2. [x \in Qvwm |-> x \in R \/ s.mapped[x]] \in [Qvwm -> BOOLEAN]
    OBVIOUS
  <1>3. [x \in Window |-> x \in R \/ s.xmapped[x]] \in [Window -> BOOLEAN]
    OBVIOUS
  <1>4. s.frames \cup {x \in Window : x \in R /\ ~s.mapped[x]} \in SUBSET Window
    BY DEF State
  <1> QED
    BY <1>1, <1>2, <1>3, <1>4 DEF State

\* MapWindows.
LEMMA MapWindowsType ==
    ASSUME NEW s \in State, NEW w \in Window, NEW mapTransient \in BOOLEAN
    PROVE  MapWindows(s, w, mapTransient) \in State
  <1> DEFINE t == [MapWindow(s, w, mapTransient) EXCEPT !.trMapped[w] = TRUE]
  <1>0. w \in Qvwm
    BY DEF Qvwm
  <1>1. t \in State
    BY <1>0, MapWindowType, AssignTypes
  <1>2. Remove(t.unmapList, w) \in Seq(Window) /\ InsertHead(t.mapList, w) \in Seq(Window)
    <2>1. t.unmapList \in Seq(Window) /\ t.mapList \in Seq(Window)
      BY <1>1 DEF State
    <2> QED
      BY <2>1, ListTypes
  <1> HIDE DEF t
  <1>3. [t EXCEPT !.unmapList = Remove(@, w), !.mapList = InsertHead(@, w)] \in State
    BY <1>1, <1>2 DEF State
  <1> QED
    BY <1>1, <1>3 DEF MapWindows, t

\* UnmapWindow, with its transients.
LEMMA UnmapWindowType ==
    ASSUME NEW s \in State, NEW w \in Qvwm, NEW unmapTransient \in BOOLEAN
    PROVE  UnmapWindow(s, w, unmapTransient) \in State
  <1> DEFINE R == Reached(s, w, unmapTransient)
  <1>1. UnmapWindow(s, w, unmapTransient) =
          [s EXCEPT !.mapped = [x \in Qvwm |-> x \notin R /\ s.mapped[x]],
                    !.xmapped = [x \in Window |-> x \notin R /\ s.xmapped[x]]]
    BY Zenon DEF UnmapWindow
  <1> HIDE DEF R
  <1>2. [x \in Qvwm |-> x \notin R /\ s.mapped[x]] \in [Qvwm -> BOOLEAN]
    OBVIOUS
  <1>3. [x \in Window |-> x \notin R /\ s.xmapped[x]] \in [Window -> BOOLEAN]
    OBVIOUS
  <1> QED
    BY <1>1, <1>2, <1>3 DEF State

\* UnmapWindows.
LEMMA UnmapWindowsType ==
    ASSUME NEW s \in State, NEW w \in Window, NEW unmapTransient \in BOOLEAN
    PROVE  UnmapWindows(s, w, unmapTransient) \in State
  <1> DEFINE t == [UnmapWindow(s, w, unmapTransient) EXCEPT !.trMapped[w] = FALSE]
  <1>0. w \in Qvwm
    BY DEF Qvwm
  <1>1. t \in State
    BY <1>0, UnmapWindowType, AssignTypes
  <1>2. Remove(t.mapList, w) \in Seq(Window) /\ InsertTail(t.unmapList, w) \in Seq(Window)
    <2>1. t.unmapList \in Seq(Window) /\ t.mapList \in Seq(Window)
      BY <1>1 DEF State
    <2> QED
      BY <2>1, ListTypes
  <1> HIDE DEF t
  <1>3. [t EXCEPT !.mapList = Remove(@, w), !.unmapList = InsertTail(@, w)] \in State
    BY <1>1, <1>2 DEF State
  <1> QED
    BY <1>1, <1>3 DEF UnmapWindows, t

\* Qvwm::RestoreWindow, MaximizeWindow and ExpandWindow.
LEMMA RestoreWindowType ==
    ASSUME NEW s \in State, NEW w \in Qvwm, NEW mapTransient \in BOOLEAN
    PROVE  RestoreWindow(s, w, mapTransient) \in State
  <1> SUFFICES ASSUME w \in Window
               PROVE  RestoreWindow(s, w, mapTransient) \in State
    BY DEF RestoreWindow, Qvwm
  <1>1. [s EXCEPT !.status[w] = {"MAXIMIZE_WINDOW"}] \in State
    BY AssignTypes DEF Status
  <1>2. [s EXCEPT !.status[w] = {}, !.flags[w] = s.flagsBak[w]] \in State
    <2>1. s.flagsBak[w] \in SUBSET Flag
      BY DEF State
    <2> QED
      BY <2>1 DEF State
  <1>3. \A t \in State : SetFocus(MapWindows(t, w, mapTransient), w) \in State
    BY MapWindowsType, SetFocusType
  <1> QED
    BY <1>1, <1>2, <1>3 DEF RestoreWindow

\* MaximizeWindow, which may restore or map first.
LEMMA MaximizeWindowType ==
    ASSUME NEW s \in State, NEW w \in Qvwm, NEW mapTransient \in BOOLEAN
    PROVE  MaximizeWindow(s, w, mapTransient) \in State
  <1> SUFFICES ASSUME w \in Window
               PROVE  MaximizeWindow(s, w, mapTransient) \in State
    BY DEF MaximizeWindow, Qvwm
  <1>1. \A flags \in SUBSET Flag :
          [s EXCEPT !.status[w] = {"MAXIMIZE_WINDOW"}, !.flagsBak[w] = flags] \in State
    BY DEF State, Status
  <1>2. s.flags[w] \in SUBSET Flag /\ s.flagsBak[w] \in SUBSET Flag
    BY DEF State
  <1>3. [s EXCEPT !.status[w] = {"MAXIMIZE_WINDOW"},
                  !.flagsBak[w] = IF Minimized(s, w) THEN @ ELSE s.flags[w]] \in State
    BY <1>1, <1>2
  <1>4. \A t \in State : SetFocus(MapWindows(t, w, mapTransient), w) \in State
    BY MapWindowsType, SetFocusType
  <1> QED
    BY <1>3, <1>4 DEF MaximizeWindow

\* ExpandWindow, which may map first.
LEMMA ExpandWindowType ==
    ASSUME NEW s \in State, NEW w \in Qvwm
    PROVE  ExpandWindow(s, w) \in State
  BY MapWindowsType, SetFocusType DEF ExpandWindow, Qvwm

\* Qvwm::YieldFocus gives the focus to a window of mapList or to the root.
LEMMA YieldFocusType ==
    ASSUME NEW s \in State, NEW w \in Window
    PROVE  YieldFocus(s, w) \in State
  <1> DEFINE q == IF Has(s.mapList, w) THEN InsertTail(Remove(s.mapList, w), w)
                  ELSE s.mapList
             t == [s EXCEPT !.mapList = q]
             next == IF t.mapList = <<>> \/ Head(t.mapList) = w THEN Root ELSE Head(t.mapList)
  <1>1. s.mapList \in Seq(Window)
    BY DEF State
  <1>2. q \in Seq(Window)
    <2>1. Remove(s.mapList, w) \in Seq(Window)
      BY <1>1, ListTypes
    <2>2. InsertTail(Remove(s.mapList, w), w) \in Seq(Window)
      BY <2>1, ListTypes
    <2> QED
      BY <1>1, <2>2
  <1>3. t \in State
    BY <1>2, AssignTypes DEF Qvwm
  <1>4. next \in Qvwm
    <2>1. t.mapList \in Seq(Window)
      BY <1>3 DEF State
    <2> HIDE DEF t
    <2>2. t.mapList # <<>> => Head(t.mapList) \in Window
      BY <2>1, HeadTailProperties
    <2> QED
      BY <2>2 DEF Qvwm
  <1>5. YieldFocus(s, w) =
          IF w # s.focusQvwm THEN t
          ELSE IF ~ClickToFocus THEN SetFocus(t, Root)
          ELSE IF CheckMapped(t, next) THEN SetFocus(t, next)
          ELSE RestoreWindow(t, next, TRUE)
    BY Zenon DEF YieldFocus
  <1>6. Root \in Qvwm
    BY DEF Qvwm
  <1> HIDE DEF t, next
  <1> QED
    BY <1>3, <1>4, <1>5, <1>6, SetFocusType, RestoreWindowType

\* ChangeFocusToCursor, wherever the pointer is.
LEMMA ChangeFocusToCursorType ==
    ASSUME NEW s \in State, NEW pointer \in Qvwm
    PROVE  ChangeFocusToCursor(s, pointer) \in State
  BY SetFocusType DEF ChangeFocusToCursor, Qvwm

\* MinimizeWindow, whoever it yields the focus to.
LEMMA MinimizeWindowType ==
    ASSUME NEW s \in State, NEW w \in Qvwm, NEW unmapTransient \in BOOLEAN,
           NEW pointer \in Qvwm
    PROVE  MinimizeWindow(s, w, unmapTransient, pointer) \in State
  <1> SUFFICES ASSUME w \in Window
               PROVE  MinimizeWindow(s, w, unmapTransient, pointer) \in State
    BY DEF MinimizeWindow, Qvwm
  <1> DEFINE t == [s EXCEPT !.status[w] = @ \cup {"MINIMIZE_WINDOW"},
                            !.flagsBak[w] = IF Maximized(s, w) THEN @ ELSE s.flags[w]]
  <1>1. \A v \in SUBSET Status, flags \in SUBSET Flag :
          [s EXCEPT !.status[w] = v, !.flagsBak[w] = flags] \in State
    BY DEF State
  <1>2. /\ s.flags[w] \in SUBSET Flag /\ s.flagsBak[w] \in SUBSET Flag
        /\ s.status[w] \cup {"MINIMIZE_WINDOW"} \in SUBSET Status
    BY DEF State, Status
  <1>3. t \in State
    BY <1>1, <1>2
  <1>4. UnmapWindows(YieldFocus(t, w), w, unmapTransient) \in State
    BY <1>3, YieldFocusType, UnmapWindowsType
  <1>5. ChangeFocusToCursor(UnmapWindows(YieldFocus(t, w), w, unmapTransient), pointer) \in State
    BY <1>4, ChangeFocusToCursorType
  <1> QED
    BY <1>4, <1>5, Zenon DEF MinimizeWindow

\* The constructor and the destructor, and Event::DestroyQvwm.
LEMMA NewQvwmType ==
    ASSUME NEW s \in State, NEW w \in Window, NEW junk \in BOOLEAN
    PROVE  NewQvwm(s, w, junk) \in State
  <1> DEFINE leader == IF TransientFor[w] \in s.qvwmList \cup {Root} THEN TransientFor[w]
                       ELSE NULL
             orphans == {x \in s.qvwmList :
                            IsTransient(x) /\ s.qvMain[x] = NULL /\ TransientFor[x] = w}
             mains == [x \in Qvwm |-> IF x = w THEN leader
                                      ELSE IF x \in orphans THEN w ELSE s.qvMain[x]]
             lists == [x \in Qvwm |-> (IF x = w THEN orphans ELSE s.trList[x])
                                      \cup (IF x = leader THEN {w} ELSE {})]
  <1>1. s.qvwmList \subseteq Window /\ orphans \subseteq Window
        /\ leader \in Window \cup {Root, NULL}
    BY DEF State
  <1>2. mains \in [Qvwm -> Window \cup {Root, NULL}]
    <2> HIDE DEF leader, orphans
    <2> QED
      BY <1>1 DEF State
  <1>3. lists \in [Qvwm -> SUBSET Window]
    <2> HIDE DEF leader, orphans
    <2> QED
      BY <1>1 DEF State
  <1>4. InitFlags[w] \in SUBSET Flag
    BY HintsType DEF Flag
  <1>5. NewQvwm(s, w, junk) =
          [s EXCEPT !.qvwmList = s.qvwmList \cup {w}, !.mapped[w] = FALSE,
                    !.trMapped[w] = junk, !.status[w] = {}, !.flags[w] = InitFlags[w],
                    !.qvMain = mains, !.trList = lists]
    BY Zenon DEF NewQvwm
  <1> HIDE DEF mains, lists
  <1> DEFINE t == [s EXCEPT !.qvwmList = s.qvwmList \cup {w}, !.mapped[w] = FALSE,
                            !.trMapped[w] = junk, !.status[w] = {}]
  <1>6. t \in State
    BY <1>1 DEF State
  <1>7. NewQvwm(s, w, junk) =
          [[t EXCEPT !.flags[w] = InitFlags[w]] EXCEPT !.qvMain = mains, !.trList = lists]
    BY <1>5
  <1> HIDE DEF t
  <1>8. w \in Qvwm
    BY DEF Qvwm
  <1>9. [t EXCEPT !.flags[w] = InitFlags[w]] \in State
    BY <1>4, <1>6, <1>8, AssignTypes
  <1> DEFINE u == [t EXCEPT !.flags[w] = InitFlags[w]]
  <1>10. NewQvwm(s, w, junk) = WithLinks(u, mains, lists) /\ u \in State
    BY <1>7, <1>9 DEF WithLinks
  <1> HIDE DEF u
  <1> QED
    BY <1>2, <1>3, <1>10, WithLinksType

\* The destructor.
LEMMA DeleteQvwmType ==
    ASSUME NEW s \in State, NEW w \in Window
    PROVE  DeleteQvwm(s, w) \in State
  <1> DEFINE leader == s.qvMain[w]
             linked == IsTransient(w) /\ leader # NULL
             mains == [x \in Qvwm |->
                         IF x = w \/ (~linked /\ x \in s.trList[w]) THEN NULL ELSE s.qvMain[x]]
             lists == [x \in Qvwm |->
                         IF x = w THEN {}
                         ELSE IF linked /\ x = leader THEN s.trList[x] \ {w} ELSE s.trList[x]]
  <1>1. mains \in [Qvwm -> Window \cup {Root, NULL}]
    <2> HIDE DEF linked
    <2> QED
      BY DEF State
  <1>2. lists \in [Qvwm -> SUBSET Window]
    <2> HIDE DEF linked, leader
    <2> QED
      BY DEF State
  <1>3. DeleteQvwm(s, w) =
          [s EXCEPT !.qvwmList = s.qvwmList \ {w}, !.mapped[w] = FALSE,
                    !.trMapped[w] = FALSE, !.status[w] = {}, !.flags[w] = {},
                    !.flagsBak[w] = {}, !.qvMain = mains, !.trList = lists]
    BY Zenon DEF DeleteQvwm
  <1> HIDE DEF mains, lists
  <1> DEFINE t == [s EXCEPT !.qvwmList = s.qvwmList \ {w}, !.mapped[w] = FALSE,
                            !.trMapped[w] = FALSE, !.status[w] = {}]
  <1>4. t \in State
    BY DEF State
  <1>5. DeleteQvwm(s, w) =
          [[t EXCEPT !.flags[w] = {}, !.flagsBak[w] = {}]
             EXCEPT !.qvMain = mains, !.trList = lists]
    BY <1>3
  <1> HIDE DEF t
  <1>6. w \in Qvwm
    BY DEF Qvwm
  <1>7. [t EXCEPT !.flags[w] = {}, !.flagsBak[w] = {}] \in State
    BY <1>4, <1>6, AssignTypes
  <1> DEFINE u == [t EXCEPT !.flags[w] = {}, !.flagsBak[w] = {}]
  <1>8. DeleteQvwm(s, w) = WithLinks(u, mains, lists) /\ u \in State
    BY <1>5, <1>7 DEF WithLinks
  <1> HIDE DEF u
  <1> QED
    BY <1>1, <1>2, <1>8, WithLinksType

\* DestroyQvwm, with the focus yielded.
LEMMA DestroyQvwmType ==
    ASSUME NEW s \in State, NEW w \in Window, NEW pointer \in Qvwm
    PROVE  DestroyQvwm(s, w, pointer) \in State
  <1> DEFINE t == IF w = s.focusQvwm THEN YieldFocus(s, w) ELSE s
             u == UnmapWindows(t, w, TRUE)
             v == [u EXCEPT !.unmapList = Remove(@, w), !.mapList = Remove(@, w)]
             d == DeleteQvwm(v, w)
  <1>1. t \in State
    BY YieldFocusType
  <1>2. u \in State
    BY <1>1, UnmapWindowsType
  <1>3. v \in State
    <2> HIDE DEF u
    <2>1. u.unmapList \in Seq(Window) /\ u.mapList \in Seq(Window)
      BY <1>2 DEF State
    <2>2. Remove(u.unmapList, w) \in Seq(Window) /\ Remove(u.mapList, w) \in Seq(Window)
      BY <2>1, ListTypes
    <2> QED
      BY <1>2, <2>2 DEF State
  <1>4. d \in State
    BY <1>3, DeleteQvwmType
  <1>5. ChangeFocusToCursor(d, pointer) \in State
    BY <1>4, ChangeFocusToCursorType
  <1> QED
    BY <1>4, <1>5, Zenon DEF DestroyQvwm
-----------------------------------------------------------------------------
\* Only a window that may set override_redirect is reported with it.
SentEvent == {e \in Event : e.type = "MapNotifyOverride" => e.window \in Override}

\* What the loops over the windows have to visit, and what the queue can hold.
LoopInv ==
    /\ pass = "capture" => todo \cap wm.qvwmList = {}
    /\ pass \in {"minimizeAll", "restoreAll"} => todo \subseteq wm.qvwmList
    /\ queue \in Seq(SentEvent)

\* The functions that move the focus or show a window lead from G to G.
Shown(G) ==
    /\ \A s \in G, w \in Qvwm, b \in BOOLEAN :
          w \in s.qvwmList \cup {Root} =>
             /\ SetFocus(s, w) \in G
             /\ RestoreWindow(s, w, b) \in G
             /\ MaximizeWindow(s, w, b) \in G
             /\ ExpandWindow(s, w) \in G
    /\ \A s \in G, pointer \in Qvwm : ChangeFocusToCursor(s, pointer) \in G

\* So do those that turn mapList.
Rolled(G) ==
    \A s \in G : \A q \in Turns(Window, s.mapList) :
        /\ SetFocus([s EXCEPT !.mapList = q], Root) \in G
        /\ q # <<>> => SetFocus([s EXCEPT !.mapList = q], q[1]) \in G

\* The right button on the taskbar, which lifts NO_FOCUS for a moment.
FocusOnce(s, w) ==
    [SetFocus([s EXCEPT !.flags[w] = @ \ {"NO_FOCUS"}], w) EXCEPT !.flags[w] = s.flags[w]]

\* So do those that change an attribute.
Flagged(G) ==
    \A s \in G, w \in Window :
        w \in s.qvwmList =>
           /\ [s EXCEPT !.flags[w] = @ \cup {"NO_TBUTTON"}] \in G
           /\ Flip(s, w, "NO_TBUTTON") \in G
           /\ "Q_TOGGLE_FOCUS" \in Bound => Flip(s, w, "NO_FOCUS") \in G
           /\ FocusOnce(s, w) \in G

\* The functions that hide a window lead from G to H.
Hidden(G, H) ==
    \A s \in G, w \in Qvwm, b \in BOOLEAN, pointer \in Qvwm :
        w \in s.qvwmList \cup {Root} =>
           /\ MinimizeWindow(s, w, b, pointer) \in H
           /\ Toggle(s, w, pointer) \in H

\* So do those that make a Qvwm or answer a client.
Born(G, H) ==
    \A s \in G, w \in Window, junk \in BOOLEAN, pointer \in Qvwm :
        /\ w \in alive => MapRequestResult(s, w, junk, pointer) \in H
        /\ w \in alive \ s.qvwmList => CaptureResult(s, w, junk, pointer) \in H
        /\ w \in s.qvwmList => MapNotifyResult(s, w) \in H

\* The window whose handler is to delete its Qvwm.
Leaving ==
    {w \in Window : /\ queue # <<>> /\ EventWindow = w
                    /\ Head(queue).type \in {"UnmapNotify", "DestroyNotify", "MapNotifyOverride"}}

\* So do those that delete one.
Dead(G, H) ==
    \A s \in G, w \in Window, pointer \in Qvwm :
        w \in s.qvwmList \cap Leaving =>
           /\ DestroyQvwm(s, w, pointer) \in H
           /\ DestroyQvwm([s EXCEPT !.xmapped[w] = FALSE], w, pointer) \in H
           /\ w \in Override => DeleteQvwm(s, w) \in H

Leads(G, H) ==
    /\ Shown(G) /\ Rolled(G) /\ Flagged(G)
    /\ Hidden(G, H) /\ Born(G, H) /\ Dead(G, H)
    /\ G \subseteq H
    /\ \A s \in H : [s EXCEPT !.frames = {}] \in H
-----------------------------------------------------------------------------
\* mapList as RollFocus leaves it, in either direction.
Forth == InsertTail(RemoveHead(wm.mapList), GetHead(wm.mapList))
Back == InsertHead(RemoveTail(wm.mapList), GetTail(wm.mapList))

\* What the pointer can be on.
LEMMA PointerType == Root \in Qvwm /\ Pointer \subseteq Qvwm /\ Window \subseteq Qvwm
  BY DEF Pointer, Qvwm

\* SetFocus neither manages nor unmanages a window.
LEMMA SetFocusManaged ==
    ASSUME NEW s \in State, NEW w \in Qvwm
    PROVE  SetFocus(s, w) \in State /\ SetFocus(s, w).qvwmList = s.qvwmList
  <1>1. SetFocus(s, w).qvwmList = s.qvwmList
    BY DEF SetFocus, FocusMgrSetFocus, State
  <1> QED
    BY <1>1, SetFocusType

\* Nor do MapWindows and UnmapWindows.
LEMMA MappingManaged ==
    ASSUME NEW s \in State, NEW w \in Window, NEW b \in BOOLEAN
    PROVE  /\ MapWindows(s, w, b).qvwmList = s.qvwmList
           /\ UnmapWindows(s, w, b).qvwmList = s.qvwmList
  <1>1. ASSUME NEW v \in State, NEW c \in BOOLEAN
        PROVE  LET t == [v EXCEPT !.trMapped[w] = c]
               IN  /\ t.qvwmList = v.qvwmList
                   /\ [t EXCEPT !.unmapList = Remove(@, w), !.mapList = InsertHead(@, w)].qvwmList
                        = v.qvwmList
                   /\ [t EXCEPT !.mapList = Remove(@, w), !.unmapList = InsertTail(@, w)].qvwmList
                        = v.qvwmList
    BY DEF State
  <1>2. /\ MapWindow(s, w, b) \in State /\ MapWindow(s, w, b).qvwmList = s.qvwmList
        /\ UnmapWindow(s, w, b) \in State /\ UnmapWindow(s, w, b).qvwmList = s.qvwmList
    <2>1. w \in Qvwm
      BY DEF Qvwm
    <2>2. MapWindow(s, w, b).qvwmList = s.qvwmList /\ UnmapWindow(s, w, b).qvwmList = s.qvwmList
      BY DEF MapWindow, UnmapWindow, State
    <2> QED
      BY <2>1, <2>2, MapWindowType, UnmapWindowType
  <1> DEFINE m == MapWindow(s, w, b)
             u == UnmapWindow(s, w, b)
             tm == [m EXCEPT !.trMapped[w] = TRUE]
             tu == [u EXCEPT !.trMapped[w] = FALSE]
             rm == [tm EXCEPT !.unmapList = Remove(@, w), !.mapList = InsertHead(@, w)]
             ru == [tu EXCEPT !.mapList = Remove(@, w), !.unmapList = InsertTail(@, w)]
  <1>3. MapWindows(s, w, b) \in {s, tm, rm} /\ UnmapWindows(s, w, b) \in {s, tu, ru}
    <2>1. MapWindows(s, w, b) = s \/ MapWindows(s, w, b) = tm \/ MapWindows(s, w, b) = rm
      BY Zenon DEF MapWindows
    <2>2. UnmapWindows(s, w, b) = s \/ UnmapWindows(s, w, b) = tu \/ UnmapWindows(s, w, b) = ru
      BY Zenon DEF UnmapWindows
    <2> QED
      BY <2>1, <2>2
  <1>4. /\ tm.qvwmList = s.qvwmList /\ rm.qvwmList = s.qvwmList
        /\ tu.qvwmList = s.qvwmList /\ ru.qvwmList = s.qvwmList
    <2>1. m.qvwmList = s.qvwmList /\ u.qvwmList = s.qvwmList /\ m \in State /\ u \in State
      BY <1>2
    <2> HIDE DEF m, u
    <2> QED
      BY <1>1, <2>1
  <1> HIDE DEF tm, tu, rm, ru
  <1> QED
    BY <1>3, <1>4

\* Nor do the functions that map a window and give it the focus.
LEMMA ShowManaged ==
    ASSUME NEW s \in State, NEW w \in Qvwm, NEW b \in BOOLEAN
    PROVE  /\ RestoreWindow(s, w, b).qvwmList = s.qvwmList
           /\ MaximizeWindow(s, w, b).qvwmList = s.qvwmList
           /\ ExpandWindow(s, w).qvwmList = s.qvwmList
  <1>1. ASSUME NEW t \in State, w \in Window, NEW c \in BOOLEAN
        PROVE  SetFocus(MapWindows(t, w, c), w).qvwmList = t.qvwmList
    <2>1. MapWindows(t, w, c) \in State /\ MapWindows(t, w, c).qvwmList = t.qvwmList
      BY <1>1, MapWindowsType, MappingManaged
    <2> QED
      BY <2>1, SetFocusManaged
  <1>2. CASE w = Root
    BY <1>2 DEF RestoreWindow, MaximizeWindow, ExpandWindow
  <1>3. CASE w # Root
    <2> DEFINE t == IF Minimized(s, w) /\ Maximized(s, w)
                    THEN [s EXCEPT !.status[w] = {"MAXIMIZE_WINDOW"}]
                    ELSE [s EXCEPT !.status[w] = {}, !.flags[w] = s.flagsBak[w]]
               u == [s EXCEPT !.status[w] = {"MAXIMIZE_WINDOW"},
                              !.flagsBak[w] = IF Minimized(s, w) THEN @ ELSE s.flags[w]]
    <2>1. w \in Window /\ s.flagsBak[w] \in SUBSET Flag /\ s.flags[w] \in SUBSET Flag
      BY <1>3 DEF Qvwm, State
    <2>2. t \in State /\ t.qvwmList = s.qvwmList
      <3>1. [s EXCEPT !.status[w] = {"MAXIMIZE_WINDOW"}] \in State
        BY AssignTypes DEF Status
      <3>2. [s EXCEPT !.status[w] = {}, !.flags[w] = s.flagsBak[w]] \in State
        BY <2>1 DEF State
      <3>3. t.qvwmList = s.qvwmList
        BY DEF State
      <3> QED
        BY <3>1, <3>2, <3>3
    <2>3. u \in State /\ u.qvwmList = s.qvwmList
      <3>1. \A flags \in SUBSET Flag :
              [s EXCEPT !.status[w] = {"MAXIMIZE_WINDOW"}, !.flagsBak[w] = flags] \in State
        BY DEF State, Status
      <3>2. u.qvwmList = s.qvwmList
        BY DEF State
      <3> QED
        BY <2>1, <3>1, <3>2
    <2>4. RestoreWindow(s, w, b) \in {s, SetFocus(MapWindows(t, w, b), w)}
      BY Zenon DEF RestoreWindow
    <2>5. MaximizeWindow(s, w, b) \in {s, SetFocus(MapWindows(u, w, b), w)}
      BY Zenon DEF MaximizeWindow
    <2>6. ExpandWindow(s, w) = SetFocus(MapWindows(s, w, TRUE), w)
      BY <1>3 DEF ExpandWindow
    <2> HIDE DEF t, u
    <2> QED
      BY <1>1, <2>1, <2>2, <2>3, <2>4, <2>5, <2>6
  <1> QED
    BY <1>2, <1>3

\* mapList as YieldFocus leaves it, and the window it gives the focus to.
YieldedList(s, w) ==
    IF Has(s.mapList, w) THEN InsertTail(Remove(s.mapList, w), w) ELSE s.mapList
Yielded(s, w) == [s EXCEPT !.mapList = YieldedList(s, w)]
NextOf(s, w) ==
    IF YieldedList(s, w) = <<>> \/ Head(YieldedList(s, w)) = w THEN Root
    ELSE Head(YieldedList(s, w))

\* The ways through YieldFocus.
LEMMA YieldFocusCases ==
    ASSUME NEW s \in State, NEW w \in Window
    PROVE  /\ YieldedList(s, w) \in Seq(Window)
           /\ Yielded(s, w) \in State /\ Yielded(s, w).mapList = YieldedList(s, w)
           /\ NextOf(s, w) \in Qvwm \ {w}
           /\ YieldFocus(s, w) =
                IF w # s.focusQvwm THEN Yielded(s, w)
                ELSE IF ~ClickToFocus THEN SetFocus(Yielded(s, w), Root)
                ELSE IF CheckMapped(Yielded(s, w), NextOf(s, w))
                     THEN SetFocus(Yielded(s, w), NextOf(s, w))
                     ELSE RestoreWindow(Yielded(s, w), NextOf(s, w), TRUE)
  <1>1. s.mapList \in Seq(Window) /\ Root \in Qvwm \ {w}
    BY RootIsNoWindow DEF State, Qvwm
  <1>2. YieldedList(s, w) \in Seq(Window)
    <2>1. Remove(s.mapList, w) \in Seq(Window)
      BY <1>1, ListTypes
    <2>2. InsertTail(Remove(s.mapList, w), w) \in Seq(Window)
      BY <2>1, ListTypes
    <2> QED
      BY <1>1, <2>2 DEF YieldedList
  <1>3. Yielded(s, w) \in State
    BY <1>1, <1>2, AssignTypes DEF Yielded
  <1>4. Yielded(s, w).mapList = YieldedList(s, w)
    BY DEF Yielded, State
  <1>5. NextOf(s, w) \in Qvwm \ {w}
    <2>1. YieldedList(s, w) # <<>> => Head(YieldedList(s, w)) \in Window
      BY <1>2, HeadTailProperties
    <2> QED
      BY <1>1, <2>1 DEF Qvwm, NextOf
  <1>7. YieldFocus(s, w) =
          LET t == Yielded(s, w)
              next == IF t.mapList = <<>> \/ Head(t.mapList) = w THEN Root ELSE Head(t.mapList)
          IN  IF w # s.focusQvwm THEN t
              ELSE IF ~ClickToFocus THEN SetFocus(t, Root)
              ELSE IF CheckMapped(t, next) THEN SetFocus(t, next)
              ELSE RestoreWindow(t, next, TRUE)
    BY Zenon DEF YieldFocus, Yielded, YieldedList
  <1>8. YieldFocus(s, w) =
                IF w # s.focusQvwm THEN Yielded(s, w)
                ELSE IF ~ClickToFocus THEN SetFocus(Yielded(s, w), Root)
                ELSE IF CheckMapped(Yielded(s, w), NextOf(s, w))
                     THEN SetFocus(Yielded(s, w), NextOf(s, w))
                     ELSE RestoreWindow(Yielded(s, w), NextOf(s, w), TRUE)
    BY <1>4, <1>7, Zenon DEF NextOf
  <1> QED
    BY <1>2, <1>3, <1>4, <1>5, <1>8, Zenon

\* Nor does YieldFocus, whichever window it restores.
LEMMA YieldFocusManaged ==
    ASSUME NEW s \in State, NEW w \in Window
    PROVE  YieldFocus(s, w) \in State /\ YieldFocus(s, w).qvwmList = s.qvwmList
  <1>1. Yielded(s, w) \in State /\ Yielded(s, w).qvwmList = s.qvwmList
    BY YieldFocusCases DEF Yielded, State
  <1>2. Root \in Qvwm /\ NextOf(s, w) \in Qvwm
    BY YieldFocusCases, PointerType
  <1>3. YieldFocus(s, w) \in {Yielded(s, w), SetFocus(Yielded(s, w), Root),
                              SetFocus(Yielded(s, w), NextOf(s, w)),
                              RestoreWindow(Yielded(s, w), NextOf(s, w), TRUE)}
    BY YieldFocusCases, Zenon
  <1>4. /\ SetFocus(Yielded(s, w), Root).qvwmList = s.qvwmList
        /\ SetFocus(Yielded(s, w), NextOf(s, w)).qvwmList = s.qvwmList
    BY <1>1, <1>2, SetFocusManaged
  <1>5. RestoreWindow(Yielded(s, w), NextOf(s, w), TRUE).qvwmList = s.qvwmList
    BY <1>1, <1>2, ShowManaged
  <1>6. YieldFocus(s, w).qvwmList = s.qvwmList
    BY <1>1, <1>3, <1>4, <1>5
  <1> QED
    BY <1>6, YieldFocusType

\* Nor does any other that a loop over the windows calls.
LEMMA MinimizeManaged ==
    ASSUME NEW s \in State, NEW w \in Qvwm, NEW b \in BOOLEAN, NEW pointer \in Qvwm
    PROVE  MinimizeWindow(s, w, b, pointer).qvwmList = s.qvwmList
  <1> DEFINE t == [s EXCEPT !.status[w] = @ \cup {"MINIMIZE_WINDOW"},
                            !.flagsBak[w] = IF Maximized(s, w) THEN @ ELSE s.flags[w]]
             u == UnmapWindows(YieldFocus(t, w), w, b)
             r == MinimizeWindow(s, w, b, pointer)
  <1>1. r = s \/ (w # Root /\ r = IF ClickToFocus THEN u ELSE ChangeFocusToCursor(u, pointer))
    BY Zenon DEF MinimizeWindow
  <1>2. CASE w # Root /\ r = IF ClickToFocus THEN u ELSE ChangeFocusToCursor(u, pointer)
    <2>1. w \in Window
      BY <1>2 DEF Qvwm
    <2>2. t \in State /\ t.qvwmList = s.qvwmList
      <3>1. \A v \in SUBSET Status, flags \in SUBSET Flag :
              [s EXCEPT !.status[w] = v, !.flagsBak[w] = flags] \in State
        BY DEF State
      <3>2. /\ s.flags[w] \in SUBSET Flag /\ s.flagsBak[w] \in SUBSET Flag
            /\ s.status[w] \cup {"MINIMIZE_WINDOW"} \in SUBSET Status
        BY DEF State, Status
      <3>3. t.qvwmList = s.qvwmList
        BY DEF State
      <3> QED
        BY <3>1, <3>2, <3>3
    <2> HIDE DEF t
    <2>3. YieldFocus(t, w) \in State /\ YieldFocus(t, w).qvwmList = t.qvwmList
      BY <2>1, <2>2, YieldFocusManaged
    <2>4. u \in State /\ u.qvwmList = s.qvwmList
      BY <2>1, <2>2, <2>3, UnmapWindowsType, MappingManaged
    <2> HIDE DEF u
    <2>5. ChangeFocusToCursor(u, pointer).qvwmList = u.qvwmList
      BY <2>4, SetFocusManaged DEF ChangeFocusToCursor, Qvwm
    <2> QED
      BY <1>2, <2>4, <2>5
  <1> QED
    BY <1>1, <1>2

\* A capture manages at most its window.
LEMMA CaptureManaged ==
    ASSUME NEW s \in State, NEW w \in Window, NEW junk \in BOOLEAN, NEW pointer \in Qvwm
    PROVE  /\ CaptureResult(s, w, junk, pointer).qvwmList \subseteq s.qvwmList \cup {w}
           /\ w \notin CloseSoon => w \in CaptureResult(s, w, junk, pointer).qvwmList
  <1> DEFINE t == NewQvwm(s, w, junk)
             u == IF w \in WasIconic \cup InitIconic THEN MinimizeWindow(t, w, FALSE, pointer)
                  ELSE IF w \in InitMaximize THEN MaximizeWindow(t, w, FALSE)
                  ELSE MapWindows(t, w, TRUE)
  <1>1. w \in Qvwm
    BY DEF Qvwm
  <1>2. t \in State /\ t.qvwmList = s.qvwmList \cup {w}
    <2>1. t.qvwmList = s.qvwmList \cup {w}
      BY DEF NewQvwm, State
    <2> QED
      BY <2>1, NewQvwmType
  <1> HIDE DEF t
  <1>3. u \in State /\ u.qvwmList = t.qvwmList
    <2>1. CASE w \in WasIconic \cup InitIconic
      BY <1>1, <1>2, <2>1, MinimizeWindowType, MinimizeManaged
    <2>2. CASE w \notin WasIconic \cup InitIconic /\ w \in InitMaximize
      BY <1>1, <1>2, <2>2, MaximizeWindowType, ShowManaged
    <2>3. CASE w \notin WasIconic \cup InitIconic \cup InitMaximize
      BY <1>2, <2>3, MapWindowsType, MappingManaged
    <2> QED
      BY <2>1, <2>2, <2>3
  <1> HIDE DEF u
  <1>4. [u EXCEPT !.unmapList = InsertTail(@, w)].qvwmList = u.qvwmList
    BY <1>3 DEF State
  <1>5. SetFocus(u, w).qvwmList = u.qvwmList
    BY <1>1, <1>3, SetFocusManaged
  <1>6. DeleteQvwm(t, w).qvwmList = t.qvwmList \ {w}
    BY <1>2 DEF DeleteQvwm, State
  <1>7. LET r == CaptureResult(s, w, junk, pointer)
        IN  \/ w \in CloseSoon /\ r = DeleteQvwm(t, w)
            \/ r \in {[u EXCEPT !.unmapList = InsertTail(@, w)], SetFocus(u, w), u}
    BY Zenon DEF CaptureResult, t, u
  <1> QED
    BY <1>2, <1>3, <1>4, <1>5, <1>6, <1>7
-----------------------------------------------------------------------------
(* The end of a handler *)

\* The MapNotify events that follow a handler are events.
LEMMA NoticesType ==
    ASSUME NEW frames \in SUBSET Window, NEW notices \in Notices(frames)
    PROVE  /\ notices \in Seq(Event)
           /\ \A i \in DOMAIN notices : notices[i].type = "MapNotify"
  <1> DEFINE n == Cardinality(frames)
  <1>1. n \in Nat
    BY WindowFinite, FS_Subset, FS_CardinalityType
  <1>2. PICK f \in [1..n -> frames] : notices = [i \in DOMAIN f |-> XEvent("MapNotify", f[i])]
    BY DEF Notices
  <1>4. \A i \in DOMAIN notices : notices[i].type = "MapNotify"
    BY <1>2 DEF XEvent
  <1> HIDE DEF n
  <1>3. notices \in [1..n -> Event]
    BY <1>2 DEF XEvent, Event, EventType
  <1> QED
    BY <1>1, <1>3, <1>4, SeqDef

\* An event of the queue after events were added is one of them or was there.
LEMMA ConcatItems ==
    ASSUME NEW S, NEW q \in Seq(S), NEW r \in Seq(S)
    PROVE  /\ q \o r \in Seq(S)
           /\ \A i \in DOMAIN q : i \in DOMAIN (q \o r) /\ (q \o r)[i] = q[i]
           /\ \A i \in DOMAIN (q \o r) :
                \/ i \in DOMAIN q /\ (q \o r)[i] = q[i]
                \/ \E j \in DOMAIN r : (q \o r)[i] = r[j]
  <1>1. /\ q \o r \in Seq(S) /\ Len(q \o r) = Len(q) + Len(r)
        /\ \A i \in 1..(Len(q) + Len(r)) :
             (q \o r)[i] = IF i <= Len(q) THEN q[i] ELSE r[i - Len(q)]
    BY ConcatProperties
  <1>2. /\ Len(q) \in Nat /\ DOMAIN q = 1..Len(q)
        /\ Len(r) \in Nat /\ DOMAIN r = 1..Len(r)
        /\ DOMAIN (q \o r) = 1..(Len(q) + Len(r))
    BY <1>1, LenProperties
  <1>3. \A i \in DOMAIN q : i \in DOMAIN (q \o r) /\ (q \o r)[i] = q[i]
    BY <1>1, <1>2
  <1>4. ASSUME NEW i \in DOMAIN (q \o r), i \notin DOMAIN q
        PROVE  \E j \in DOMAIN r : (q \o r)[i] = r[j]
    <2>1. i - Len(q) \in DOMAIN r /\ (q \o r)[i] = r[i - Len(q)]
      BY <1>1, <1>2, <1>4
    <2> QED
      BY <2>1
  <1> QED
    BY <1>1, <1>3, <1>4

\* The window UnmapNotifyProc withdraws although the server has it mapped.
Remapped ==
    {w \in wm.qvwmList \cap alive :
        wm.xmapped[w] /\ DispatchStep /\ Head(queue) = XEvent("UnmapNotify", w)}

\* Events that qvwm itself makes the server send.
Echo(r) ==
    /\ r \in Seq(Event)
    /\ \A i \in DOMAIN r : \/ r[i].type = "MapNotify"
                           \/ r[i].type = "UnmapNotify" /\ r[i].window \in Remapped

\* The step leaves q and such events to come, and a state of H, its frames told.
Added(q) == \E r : Echo(r) /\ queue' = q \o r
Ends(H, q) ==
    /\ Added(q)
    /\ \E s \in H : wm' = s \/ wm' = [s EXCEPT !.frames = {}]

\* The end of a handler adds only MapNotify events.
LEMMA LeaveEnds ==
    ASSUME NEW H \in SUBSET State, NEW s \in H, NEW q \in Seq(Event), NEW r, Echo(r),
           Leave(s, q \o r)
    PROVE  Ends(H, q)
  <1>1. s.frames \in SUBSET Window
    BY DEF State
  <1>2. PICK notices \in Notices(s.frames) : queue' = (q \o r) \o notices
    BY DEF Leave
  <1>3. notices \in Seq(Event) /\ \A i \in DOMAIN notices : notices[i].type = "MapNotify"
    BY <1>1, NoticesType
  <1>4. queue' = q \o (r \o notices)
    BY SMTT(40), <1>2, <1>3, ConcatAssociative DEF Echo
  <1>5. Echo(r \o notices)
    BY <1>3, ConcatItems DEF Echo
  <1> QED
    BY <1>4, <1>5 DEF Added, Ends, Leave

\* A handler that makes no more events, and one that does nothing.
LEMMA HandlerEnds ==
    ASSUME NEW H \in SUBSET State, NEW q \in Seq(Event)
    PROVE  /\ \A s \in H : Leave(s, q) => Ends(H, q)
           /\ wm \in H /\ wm' = wm /\ queue' = q => Ends(H, q)
  <1>1. Echo(<<>>) /\ q \o <<>> = q
    BY ConcatEmptySeq, EmptySeq DEF Echo
  <1>2. ASSUME NEW s \in H, Leave(s, q) PROVE Ends(H, q)
    <2>1. Leave(s, q \o <<>>)
      BY <1>1, <1>2
    <2> QED
      BY <1>1, <2>1, LeaveEnds
  <1>3. queue' = q => Added(q)
    BY <1>1 DEF Added
  <1> QED
    BY <1>2, <1>3 DEF Ends

-----------------------------------------------------------------------------
(* The steps, from the functions *)

\* Refocus, which gives the focus by way of the desktop.
LEMMA RefocusLeads ==
    ASSUME NEW G \in SUBSET State, Shown(G), NEW s \in G, NEW w \in Qvwm,
           w \in s.qvwmList \cup {Root}
    PROVE  Refocus(s, w) \in G /\ Refocus(s, w).qvwmList = s.qvwmList
  <1>1. SetFocus(s, Root) \in G /\ SetFocus(s, Root).qvwmList = s.qvwmList
    BY PointerType, SetFocusManaged DEF Shown
  <1> QED
    BY <1>1, SetFocusManaged DEF Shown, Refocus

\* The handlers of the events.
LEMMA DispatchLeads ==
    ASSUME TypeInv, LoopInv, NEW G \in SUBSET State, NEW H \in SUBSET State,
           Leads(G, H), wm \in G, DispatchStep
    PROVE  Ends(H, Tail(queue))
  <1> DEFINE w == EventWindow
  <1>1. wm \in H /\ Shown(G) /\ Flagged(G) /\ Hidden(G, H) /\ Born(G, H) /\ Dead(G, H)
        /\ G \subseteq H
    BY DEF Leads
  <1>2. Pointer \subseteq Qvwm /\ Window \subseteq Qvwm /\ Root \in Qvwm
    BY PointerType
  <1>3. queue # <<>> /\ w \in Window /\ Tail(queue) \in Seq(Event)
    <2>1. queue # <<>> /\ queue \in Seq(Event)
      BY DEF DispatchStep, MapRequestProc, MapNotifyOverrideProc, MapNotifyProc,
         UnmapNotifyProc, DestroyNotifyProc, ClientMessageProc, Dispatch, TypeInv
    <2>2. Head(queue) \in Event /\ Tail(queue) \in Seq(Event)
      BY <2>1, HeadTailProperties
    <2> QED
      BY <2>1, <2>2 DEF EventWindow, Event
  <1>4. \A s \in H : Leave(s, Tail(queue)) => Ends(H, Tail(queue))
    BY <1>3, HandlerEnds
  <1>5. CASE MapRequestProc
    <2>1. PICK junk \in BOOLEAN, pointer \in Pointer :
            Leave(IF w \in alive THEN MapRequestResult(wm, w, junk, pointer) ELSE wm, Tail(queue))
      BY <1>5, Zenon DEF MapRequestProc
    <2>2. w \in Window /\ pointer \in Qvwm
      BY <1>2, <1>3, <1>5 DEF MapRequestProc
    <2>3. (IF w \in alive THEN MapRequestResult(wm, w, junk, pointer) ELSE wm) \in H
      BY <1>1, <2>2 DEF Born
    <2> QED
      BY <1>4, <2>1, <2>3
  <1>6. CASE MapNotifyOverrideProc
    <2>1. /\ Dispatch("MapNotifyOverride")
          /\ Leave(IF w \in wm.qvwmList THEN DeleteQvwm(wm, w) ELSE wm, Tail(queue))
      BY <1>6, Zenon DEF MapNotifyOverrideProc
    <2>2. w \in Window /\ w \in Override
      <3>1. queue \in Seq(SentEvent) /\ queue # <<>> /\ Head(queue).type = "MapNotifyOverride"
        BY <2>1 DEF Dispatch, LoopInv
      <3>2. Head(queue) \in SentEvent
        BY <3>1, HeadTailProperties
      <3> QED
        BY <1>3, <3>1, <3>2 DEF SentEvent, EventWindow
    <2>3. w \in Leaving
      BY <1>3, <2>1 DEF Dispatch, Leaving
    <2>4. (IF w \in wm.qvwmList THEN DeleteQvwm(wm, w) ELSE wm) \in H
      BY <1>1, <1>2, <2>2, <2>3 DEF Dead
    <2> QED
      BY <1>4, <2>1, <2>4
  <1>7. CASE MapNotifyProc
    <2>1. /\ Dispatch("MapNotify")
          /\ Leave(IF w \in wm.qvwmList THEN MapNotifyResult(wm, w) ELSE wm, Tail(queue))
      BY <1>7, Zenon DEF MapNotifyProc
    <2>2. (IF w \in wm.qvwmList THEN MapNotifyResult(wm, w) ELSE wm) \in H
      BY <1>1, <1>2, <1>3, <2>1 DEF Born
    <2> QED
      BY <1>4, <2>1, <2>2
  <1>8. CASE UnmapNotifyProc
    <2> DEFINE t == [wm EXCEPT !.xmapped[w] = FALSE]
               echo == IF w \in wm.qvwmList \cap alive /\ wm.xmapped[w]
                       THEN <<XEvent("UnmapNotify", w), XEvent("MapNotify", w),
                              XEvent("MapNotify", w), XEvent("UnmapNotify", w)>> ELSE <<>>
               r(p) == IF w \in wm.qvwmList THEN DestroyQvwm(t, w, p) ELSE wm
    <2>1. PICK p \in Pointer : Leave(r(p), Tail(queue) \o echo)
      BY <1>8, Zenon DEF UnmapNotifyProc
    <2>4. Head(queue).type = "UnmapNotify"
      BY <1>8 DEF UnmapNotifyProc, Dispatch
    <2>5. w \in Leaving
      BY <1>3, <2>4 DEF Leaving
    <2>2. r(p) \in H
      BY <1>1, <1>2, <1>3, <2>5 DEF Dead
    <2>6. w \in wm.qvwmList \cap alive /\ wm.xmapped[w] => w \in Remapped
      <3>1. Head(queue) \in Event
        BY <1>3, HeadTailProperties DEF TypeInv
      <3>2. Head(queue) = XEvent("UnmapNotify", w)
        BY <2>4, <3>1 DEF Event, XEvent, EventWindow
      <3> QED
        BY <1>3, <3>2 DEF Remapped
    <2>3. Echo(echo)
      <3> DEFINE unmap == XEvent("UnmapNotify", w)
                 map == XEvent("MapNotify", w)
      <3>1. /\ unmap \in Event /\ unmap.type = "UnmapNotify" /\ unmap.window = w
            /\ map \in Event /\ map.type = "MapNotify"
        BY <1>3 DEF XEvent, Event, EventType
      <3>2. echo = <<>> \/ (echo = <<unmap, map, map, unmap>> /\ w \in Remapped)
        BY <2>6, Zenon
      <3> HIDE DEF unmap, map, echo
      <3>3. w \in Remapped => Echo(<<unmap, map, map, unmap>>)
        <4>1. <<unmap, map, map, unmap>> \in Seq(Event)
          BY <3>1
        <4> QED
          BY <3>1, <4>1 DEF Echo
      <3>4. Echo(<<>>)
        BY EmptySeq DEF Echo
      <3> QED
        BY <3>2, <3>3, <3>4
    <2> HIDE DEF r, echo
    <2> QED
      BY <1>3, <2>1, <2>2, <2>3, LeaveEnds
  <1>9. CASE DestroyNotifyProc
    <2>1. PICK pointer \in Pointer :
            Leave(IF w \in wm.qvwmList THEN DestroyQvwm(wm, w, pointer) ELSE wm, Tail(queue))
      BY <1>9, Zenon DEF DestroyNotifyProc
    <2>2. w \in Window /\ w \in Leaving
      BY <1>3, <1>9 DEF DestroyNotifyProc, Dispatch, Leaving
    <2>3. (IF w \in wm.qvwmList THEN DestroyQvwm(wm, w, pointer) ELSE wm) \in H
      BY <1>1, <1>2, <2>2 DEF Dead
    <2> QED
      BY <1>4, <2>1, <2>3
  <1>10. ASSUME NEW message \in ClientMessage, ClientMessageProc(message) PROVE Ends(H, Tail(queue))
    <2>1. PICK pointer \in Pointer :
            Leave(IF w \in wm.qvwmList THEN ClientMessageResult(wm, w, message, pointer) ELSE wm,
                  Tail(queue))
      BY <1>10, Zenon DEF ClientMessageProc
    <2>2. w \in Window
      BY <1>3, <1>10 DEF ClientMessageProc
    <2>3. ASSUME w \in wm.qvwmList PROVE ClientMessageResult(wm, w, message, pointer) \in H
      <3>1. \A b \in BOOLEAN : MinimizeWindow(wm, w, b, pointer) \in H
        BY <1>1, <1>2, <2>2, <2>3 DEF Hidden
      <3>2. /\ RestoreWindow(wm, w, FALSE) \in G /\ MaximizeWindow(wm, w, FALSE) \in G
            /\ [wm EXCEPT !.flags[w] = @ \cup {"NO_TBUTTON"}] \in G
        BY <1>1, <1>2, <2>2, <2>3 DEF Shown, Flagged
      <3>3. /\ RestoreWindow(wm, w, FALSE).qvwmList = wm.qvwmList
            /\ MaximizeWindow(wm, w, FALSE).qvwmList = wm.qvwmList
        BY <1>2, <2>2, ShowManaged
      <3>4. /\ Refocus(RestoreWindow(wm, w, FALSE), w) \in G
            /\ Refocus(MaximizeWindow(wm, w, FALSE), w) \in G
        BY <1>1, <1>2, <2>2, <2>3, <3>2, <3>3, RefocusLeads
      <3> QED
        BY <1>1, <3>1, <3>2, <3>4 DEF ClientMessageResult, ClientMessage
    <2> QED
      BY <1>1, <1>4, <2>1, <2>3
  <1> QED
    BY <1>5, <1>6, <1>7, <1>8, <1>9, <1>10 DEF DispatchStep

\* The handlers of buttons and crossings.
LEMMA InputLeads ==
    ASSUME TypeInv, NEW G \in SUBSET State, NEW H \in SUBSET State,
           Leads(G, H), wm \in G, InputStep
    PROVE  Ends(H, queue)
  <1>1. wm \in H /\ Shown(G) /\ Flagged(G) /\ Hidden(G, H) /\ G \subseteq H
    BY DEF Leads
  <1>2. Pointer \subseteq Qvwm /\ Window \subseteq Qvwm /\ Root \in Qvwm
    BY PointerType
  <1>3. \A s \in H : Handle(s) => Ends(H, queue)
    BY HandlerEnds DEF Handle, TypeInv
  <1>4. \A w \in Qvwm : OnFrame(w) => w \in wm.qvwmList \cup {Root}
    BY DEF OnFrame, Managed
  <1>5. ASSUME NEW w \in Qvwm, w \in wm.qvwmList \cup {Root}
        PROVE  SetFocus(wm, w) \in G /\ SetFocus(wm, w).qvwmList = wm.qvwmList
    BY <1>1, <1>5, SetFocusManaged DEF Shown
  <1>6. ASSUME NEW w \in Qvwm, Button1Press(w) \/ Enter(w) \/ MiniatureButton1Press(w)
        PROVE  Ends(H, queue)
    BY <1>1, <1>3, <1>4, <1>5, <1>6 DEF Button1Press, Enter, MiniatureButton1Press
  <1>7. ASSUME NEW w \in Qvwm, OnFrame(w)
        PROVE  /\ RestoreWindow(SetFocus(wm, w), w, TRUE) \in G
               /\ MaximizeWindow(SetFocus(wm, w), w, TRUE) \in G
               /\ \A p \in Pointer : MinimizeWindow(SetFocus(wm, w), w, TRUE, p) \in H
    BY <1>1, <1>2, <1>4, <1>5, <1>7 DEF Shown, Hidden
  <1>8. ASSUME NEW w \in Qvwm, Button3Release(w) PROVE Ends(H, queue)
    BY <1>1, <1>3, <1>4, <1>5, <1>7, <1>8 DEF Button3Release
  <1>9. ASSUME NEW w \in Qvwm, FrameButton1(w) PROVE Ends(H, queue)
    BY <1>3, <1>7, <1>9 DEF FrameButton1
  <1>10. ASSUME NEW w \in Qvwm, FrameButton2(w) PROVE Ends(H, queue)
    BY <1>1, <1>3, <1>7, <1>10 DEF FrameButton2
  <1>11. ASSUME NEW w \in Qvwm, TaskbarButtonPush(w) PROVE Ends(H, queue)
    <2>1. w \in wm.qvwmList
      BY <1>11 DEF TaskbarButtonPush, OnTaskbar
    <2>2. /\ \A p \in Pointer : MinimizeWindow(wm, w, TRUE, p) \in H
          /\ RestoreWindow(wm, w, TRUE) \in G
      BY <1>1, <1>2, <2>1 DEF Shown, Hidden
    <2> QED
      BY <1>1, <1>3, <1>5, <1>11, <2>1, <2>2 DEF TaskbarButtonPush
  <1>12. ASSUME NEW w \in Qvwm, TaskbarButton3Release(w) PROVE Ends(H, queue)
    <2>1. OnTaskbar(w) /\ Handle(FocusOnce(wm, w))
      BY <1>12, Zenon DEF TaskbarButton3Release, FocusOnce
    <2>2. w \in wm.qvwmList /\ w \in Window
      BY <2>1 DEF OnTaskbar, TypeInv, State
    <2>3. FocusOnce(wm, w) \in G
      BY <1>1, <2>2 DEF Flagged
    <2> QED
      BY <1>1, <1>3, <2>1, <2>3
  <1>13. CASE DesktopFocus
    BY <1>1, <1>2, <1>3, <1>5, <1>13 DEF DesktopFocus
  <1>14. CASE SwitchPage
    <2>1. \A p \in Qvwm : ChangeFocusToCursor(wm, p) \in G
      BY <1>1 DEF Shown
    <2> QED
      BY <1>1, <1>3, <1>14, <2>1 DEF SwitchPage
  <1> QED
    BY <1>6, <1>8, <1>9, <1>10, <1>11, <1>12, <1>13, <1>14 DEF InputStep

\* The functions of a window.
LEMMA FunctionOfWindowLeads ==
    ASSUME TypeInv, NEW G \in SUBSET State, NEW H \in SUBSET State,
           Leads(G, H), wm \in G, NEW w \in Qvwm,
           \/ Q_RESTORE(w) \/ Q_FOCUS(w) \/ Q_RAISE_FOCUS(w) \/ Q_MINIMIZE(w)
           \/ Q_MAXIMIZE(w) \/ Q_MAXIMIZE_ONEWAY(w) \/ Q_EXPAND(w)
           \/ Q_TOGGLE_TITLE(w) \/ Q_TOGGLE_FOCUS(w) \/ Q_TOGGLE_TBUTTON(w)
    PROVE  Ends(H, queue)
  <1>1. wm \in State /\ Shown(G) /\ Flagged(G) /\ Hidden(G, H) /\ G \subseteq H
    BY DEF Leads
  <1>2. Pointer \subseteq Qvwm
    BY PointerType
  <1>3. \A s \in H : Handle(s) => Ends(H, queue)
    BY HandlerEnds DEF Handle, TypeInv
  <1>4. w \in wm.qvwmList \cup {Root}
    BY DEF Q_RESTORE, Q_FOCUS, Q_RAISE_FOCUS, Q_MINIMIZE, Q_MAXIMIZE, Q_MAXIMIZE_ONEWAY,
       Q_EXPAND, Q_TOGGLE_TITLE, Q_TOGGLE_FOCUS, Q_TOGGLE_TBUTTON, Function, Managed
  <1>5. \A s \in G : s.qvwmList = wm.qvwmList =>
          Refocus(s, w) \in G /\ Refocus(s, w).qvwmList = wm.qvwmList
    BY <1>1, <1>4, RefocusLeads
  <1>6. /\ RestoreWindow(wm, w, TRUE) \in G /\ RestoreWindow(wm, w, TRUE).qvwmList = wm.qvwmList
        /\ MaximizeWindow(wm, w, TRUE) \in G
        /\ MaximizeWindow(wm, w, TRUE).qvwmList = wm.qvwmList
        /\ ExpandWindow(wm, w) \in G /\ ExpandWindow(wm, w).qvwmList = wm.qvwmList
    BY <1>1, <1>4, ShowManaged DEF Shown
  <1>7. CASE Q_RESTORE(w)
    BY <1>1, <1>3, <1>5, <1>6, <1>7 DEF Q_RESTORE
  <1>8. CASE Q_FOCUS(w)
    BY <1>1, <1>3, <1>5, <1>8 DEF Q_FOCUS
  <1>9. CASE Q_RAISE_FOCUS(w)
    <2>1. Refocus(wm, w) \in G /\ Refocus(wm, w).qvwmList = wm.qvwmList
      BY <1>5
    <2>2. RestoreWindow(Refocus(wm, w), w, TRUE) \in G
      BY <1>1, <1>4, <2>1 DEF Shown
    <2> QED
      BY <1>1, <1>3, <1>9, <2>1, <2>2 DEF Q_RAISE_FOCUS
  <1>10. CASE Q_MINIMIZE(w)
    <2>1. \A p \in Pointer : MinimizeWindow(wm, w, TRUE, p) \in H
      BY <1>1, <1>2, <1>4 DEF Hidden
    <2> QED
      BY <1>3, <1>10, <2>1 DEF Q_MINIMIZE
  <1>11. CASE Q_MAXIMIZE(w)
    BY <1>1, <1>3, <1>5, <1>6, <1>11 DEF Q_MAXIMIZE
  <1>12. CASE Q_MAXIMIZE_ONEWAY(w)
    BY <1>1, <1>3, <1>5, <1>6, <1>12 DEF Q_MAXIMIZE_ONEWAY
  <1>13. CASE Q_EXPAND(w)
    BY <1>1, <1>3, <1>5, <1>6, <1>13 DEF Q_EXPAND
  <1>14. \A s \in G, p \in Pointer : s.qvwmList = wm.qvwmList => Toggle(s, w, p) \in H
    BY <1>1, <1>2, <1>4 DEF Hidden
  <1>15. CASE Q_TOGGLE_TITLE(w)
    BY <1>1, <1>3, <1>14, <1>15 DEF Q_TOGGLE_TITLE
  <1>16. \A flag : Flip(wm, w, flag).qvwmList = wm.qvwmList
    BY <1>1 DEF Flip, State
  <1>17. w # Root => w \in wm.qvwmList /\ w \in Window
    BY <1>4 DEF Qvwm
  <1>18. CASE Q_TOGGLE_FOCUS(w)
    <2>1. Flip(wm, w, "NO_FOCUS") \in G
      BY <1>1, <1>17, <1>18 DEF Flagged, Q_TOGGLE_FOCUS, Function
    <2> QED
      BY <1>3, <1>14, <1>16, <1>18, <2>1 DEF Q_TOGGLE_FOCUS
  <1>19. CASE Q_TOGGLE_TBUTTON(w)
    <2>1. Flip(wm, w, "NO_TBUTTON") \in G
      BY <1>1, <1>17, <1>19 DEF Flagged, Q_TOGGLE_TBUTTON
    <2> QED
      BY <1>3, <1>14, <1>16, <1>19, <2>1 DEF Q_TOGGLE_TBUTTON
  <1> QED
    BY <1>7, <1>8, <1>9, <1>10, <1>11, <1>12, <1>13, <1>15, <1>18, <1>19

\* RollFocusWithinScreen gives the focus to a window it brings to the top, or
\* to the desktop.
LEMMA RollToLeads ==
    ASSUME TypeInv, NEW G \in SUBSET State, Rolled(G), wm \in G,
           NEW q \in Turns(Window, wm.mapList), NEW found \in SUBSET DOMAIN q
    PROVE  RollTo(q, found) \in G
  <1>1. q \in Seq(Window) /\ wm.mapList \in Seq(Window)
    BY DEF Turns, TypeInv, State
  <1>2. CASE found = {}
    <2>1. RollTo(q, found) = SetFocus([wm EXCEPT !.mapList = q], Root)
      BY <1>2, Zenon DEF RollTo
    <2> QED
      BY <2>1 DEF Rolled
  <1>3. CASE found # {}
    <2> DEFINE k == CHOOSE i \in found : TRUE
               r == InsertHead(RemoveAt(q, k), q[k])
    <2>1. k \in DOMAIN q
      BY <1>3
    <2>2. RollTo(q, found) = SetFocus([wm EXCEPT !.mapList = r], q[k])
      BY <1>3, Zenon DEF RollTo
    <2> HIDE DEF k
    <2>3. q # <<>> /\ q[k] \in Window
      BY <1>1, <2>1, ElementOfSeq
    <2>4. r \in Turns(Window, wm.mapList)
      <3>1. r \in Turns(Window, q)
        BY <1>1, <2>1, <2>3, RollsAreTurns
      <3> QED
        BY <1>1, <3>1, TurnsCompose
    <2>5. r # <<>> /\ r[1] = q[k]
      <3>1. RemoveAt(q, k) \in Seq(Window)
        BY <1>1, <2>3, RemoveAtType
      <3>2. 1 \in 1..(Len(RemoveAt(q, k)) + 1)
        BY <3>1, LenProperties
      <3> QED
        BY <2>3, <3>1, <3>2, ListItems, ListTypes
    <2> HIDE DEF r
    <2>6. SetFocus([wm EXCEPT !.mapList = r], r[1]) \in G
      BY <2>4, <2>5 DEF Rolled
    <2> QED
      BY <2>2, <2>5, <2>6
  <1> QED
    BY <1>2, <1>3

\* The functions of the desktop.
LEMMA FunctionLeads ==
    ASSUME TypeInv, NEW G \in SUBSET State, NEW H \in SUBSET State,
           Leads(G, H), wm \in G, FunctionStep
    PROVE  Ends(H, queue)
  <1>1. wm \in State /\ wm \in H /\ Shown(G) /\ Rolled(G) /\ G \subseteq H
    BY DEF Leads
  <1>2. wm.mapList \in Seq(Window) /\ wm.mapList \in Turns(Window, wm.mapList)
    BY <1>1, TurnsCompose DEF State
  <1>3. \A s \in H : Handle(s) => Ends(H, queue)
    BY HandlerEnds DEF Handle, TypeInv
  <1>4. wm.mapList # <<>> =>
          /\ Forth \in Turns(Window, wm.mapList) /\ Forth # <<>> /\ GetHead(Forth) = Forth[1]
          /\ Back \in Turns(Window, wm.mapList) /\ Back # <<>> /\ GetHead(Back) = Back[1]
    <2> HAVE wm.mapList # <<>>
    <2>1. Forth \in Turns(Window, wm.mapList) /\ Back \in Turns(Window, wm.mapList)
      BY <1>2, RollsAreTurns, Zenon DEF Forth, Back
    <2>2. /\ GetHead(wm.mapList) \in Window /\ RemoveHead(wm.mapList) \in Seq(Window)
          /\ GetTail(wm.mapList) \in Window /\ RemoveTail(wm.mapList) \in Seq(Window)
      <3>1. wm.mapList[1] \in Window
        BY <1>2, EmptySeq, ElementOfSeq
      <3> QED
        BY <1>2, <3>1, ListTypes
    <2>3. Forth # <<>> /\ Back # <<>>
      BY <2>2, ListTypes DEF Forth, Back
    <2>4. Forth \in Seq(Window) /\ Back \in Seq(Window)
      BY <2>1 DEF Turns
    <2>5. \A q \in Seq(Window) : q # <<>> => GetHead(q) = q[1]
      BY DEF GetHead
    <2> QED
      BY <2>1, <2>3, <2>4, <2>5
  <1>5. CASE Q_CHANGE_WINDOW
    <2>1. wm.mapList # <<>> /\ Handle(SetFocus([wm EXCEPT !.mapList = Forth], GetHead(Forth)))
      BY <1>5, Zenon DEF Q_CHANGE_WINDOW, Forth
    <2>2. SetFocus([wm EXCEPT !.mapList = Forth], Forth[1]) \in G
      BY <1>1, <1>4, <2>1 DEF Rolled
    <2> QED
      BY <1>1, <1>3, <1>4, <2>1, <2>2
  <1>6. CASE Q_CHANGE_WINDOW_BACK
    <2>1. wm.mapList # <<>> /\ Handle(SetFocus([wm EXCEPT !.mapList = Back], GetHead(Back)))
      BY <1>6, Zenon DEF Q_CHANGE_WINDOW_BACK, Back
    <2>2. SetFocus([wm EXCEPT !.mapList = Back], Back[1]) \in G
      BY <1>1, <1>4, <2>1 DEF Rolled
    <2> QED
      BY <1>1, <1>3, <1>4, <2>1, <2>2
  <1>7. CASE Q_CHANGE_WINDOW_INSCR
    <2>1. PICK here \in SUBSET wm.qvwmList :
            LET rolls == wm.focusQvwm \in here
                q == IF rolls THEN Forth ELSE wm.mapList
            IN  (rolls => wm.mapList # <<>>) /\ Handle(RollTo(q, NextHere(q, here)))
      BY <1>7, Zenon DEF Q_CHANGE_WINDOW_INSCR, Forth
    <2> DEFINE q == IF wm.focusQvwm \in here THEN Forth ELSE wm.mapList
    <2>2. q \in Turns(Window, wm.mapList) /\ NextHere(q, here) \subseteq DOMAIN q
      BY <1>2, <1>4, <2>1 DEF NextHere
    <2>3. Handle(RollTo(q, NextHere(q, here)))
      BY <2>1
    <2> HIDE DEF q
    <2> QED
      BY <1>1, <1>3, <2>2, <2>3, RollToLeads
  <1>8. CASE Q_CHANGE_WINDOW_BACK_INSCR
    <2>1. PICK here \in SUBSET wm.qvwmList : Handle(RollTo(wm.mapList, PrevHere(wm.mapList, here)))
      BY <1>8 DEF Q_CHANGE_WINDOW_BACK_INSCR
    <2>2. PrevHere(wm.mapList, here) \subseteq DOMAIN wm.mapList
      BY DEF PrevHere
    <2> QED
      BY <1>1, <1>2, <1>3, <2>1, <2>2, RollToLeads
  <1>9. CASE RollFocusOnEmptyList
    BY <1>1, <1>9, HandlerEnds DEF RollFocusOnEmptyList, TypeInv
  <1>10. CASE MinimizeAll
    <2>1. SetFocus(wm, Root) \in G
      BY <1>1, PointerType DEF Shown
    <2> QED
      BY <1>1, <1>10, <2>1, HandlerEnds DEF MinimizeAll, StartPass, TypeInv
  <1>11. CASE RestoreAll
    BY <1>1, <1>11, HandlerEnds DEF RestoreAll, StartPass, TypeInv
  <1> QED
    BY <1>5, <1>6, <1>7, <1>8, <1>9, <1>10, <1>11, FunctionOfWindowLeads DEF FunctionStep

\* The loops over the windows: a window captured is new, the others are managed.
LEMMA PassLeads ==
    ASSUME TypeInv, LoopInv, NEW G \in SUBSET State, NEW H \in SUBSET State,
           Leads(G, H), wm \in G, PassStep
    PROVE  Ends(H, queue)
  <1>1. wm \in H /\ Shown(G) /\ Hidden(G, H) /\ Born(G, H) /\ G \subseteq H
    BY DEF Leads
  <1>2. Pointer \subseteq Qvwm /\ Window \subseteq Qvwm
    BY PointerType
  <1>3. \A s \in H : \A name, w : Visit(name, w, s) => Ends(H, queue)
    BY HandlerEnds DEF Visit, TypeInv
  <1>4. ASSUME NEW w \in Window, CaptureWindow(w) PROVE Ends(H, queue)
    <2>1. PICK junk \in BOOLEAN, pointer \in Pointer :
            Visit("capture", w, IF w \in alive /\ (wm.xmapped[w] \/ w \in WasIconic)
                                THEN CaptureResult(wm, w, junk, pointer) ELSE wm)
      BY <1>4, Zenon DEF CaptureWindow
    <2>2. w \notin wm.qvwmList
      BY <2>1 DEF Visit, LoopInv
    <2>3. w \in alive => CaptureResult(wm, w, junk, pointer) \in H
      BY <1>1, <1>2, <2>2 DEF Born
    <2>4. (IF w \in alive /\ (wm.xmapped[w] \/ w \in WasIconic)
           THEN CaptureResult(wm, w, junk, pointer) ELSE wm) \in H
      BY <1>1, <2>3
    <2> QED
      BY <1>3, <2>1, <2>4
  <1>5. ASSUME NEW w \in Window, MinimizeNext(w) PROVE Ends(H, queue)
    <2>1. PICK pointer \in Pointer :
            Visit("minimizeAll", w, IF CheckMapped(wm, w)
                                    THEN MinimizeWindow(wm, w, FALSE, pointer) ELSE wm)
      BY <1>5, Zenon DEF MinimizeNext
    <2>2. w \in wm.qvwmList
      BY <2>1 DEF Visit, LoopInv
    <2>3. (IF CheckMapped(wm, w) THEN MinimizeWindow(wm, w, FALSE, pointer) ELSE wm) \in H
      BY <1>1, <1>2, <2>2 DEF Hidden
    <2> QED
      BY <1>3, <2>1, <2>3
  <1>6. ASSUME NEW w \in Window, RestoreNext(w) PROVE Ends(H, queue)
    <2>1. w \in wm.qvwmList
      BY <1>6 DEF RestoreNext, Visit, LoopInv
    <2>2. (IF CheckMapped(wm, w) THEN wm ELSE RestoreWindow(wm, w, FALSE)) \in H
      BY <1>1, <1>2, <2>1 DEF Shown
    <2> QED
      BY <1>3, <1>6, <2>2 DEF RestoreNext
  <1>7. CASE CaptureDone
    <2>1. \A p \in Qvwm : ChangeFocusToCursor(wm, p) \in G
      BY <1>1 DEF Shown
    <2> QED
      BY <1>1, <1>7, <2>1, HandlerEnds DEF CaptureDone, TypeInv
  <1>8. CASE PassDone
    BY <1>1, <1>8, HandlerEnds DEF PassDone, TypeInv
  <1> QED
    BY <1>4, <1>5, <1>6, <1>7, <1>8 DEF PassStep

\* A step of the X server changes what it knows of one window.
LEMMA ClientEffect ==
    ASSUME ClientStep
    PROVE  \E w \in Window, b \in BOOLEAN : wm' \in {wm, [wm EXCEPT !.xmapped[w] = b]}
  <1>1. PICK w \in Window :
          \/ ClientMap(w) \/ ClientMapOverride(w) \/ ClientUnmap(w) \/ ClientDestroy(w)
          \/ \E message \in ClientMessage : ClientSendsMessage(w, message)
    BY DEF ClientStep
  <1>2. wm' = wm \/ \E b \in BOOLEAN : wm' = [wm EXCEPT !.xmapped[w] = b]
    BY <1>1 DEF ClientMap, ClientMapOverride, ClientUnmap, ClientDestroy, ClientSendsMessage
  <1> QED
    BY <1>2

\* The other steps lead where the functions lead, and add Echo events to the queue
\* or to what a dispatch leaves of it.
LEMMA HandlersLead ==
    ASSUME TypeInv, LoopInv, Next, ~ClientStep,
           NEW G \in SUBSET State, NEW H \in SUBSET State, Leads(G, H), wm \in G
    PROVE  /\ wm' \in H
           /\ (DispatchStep /\ Added(Tail(queue))) \/ (~DispatchStep /\ Added(queue))
  <1>1. \A q : Ends(H, q) => wm' \in H /\ Added(q)
    BY DEF Ends, Leads
  <1>2. DispatchStep => Ends(H, Tail(queue))
    BY DispatchLeads
  <1>3. ~DispatchStep => Ends(H, queue)
    BY InputLeads, FunctionLeads, PassLeads DEF Next
  <1> QED
    BY <1>1, <1>2, <1>3

\* What the functions and the server keep, every step keeps.
LEMMA StatesKept ==
    ASSUME TypeInv, LoopInv, [Next]_vars, NEW G \in SUBSET State, Leads(G, G), wm \in G,
           \A s \in G, w \in Window, b \in BOOLEAN : [s EXCEPT !.xmapped[w] = b] \in G
    PROVE  wm' \in G
  <1>1. ClientStep => wm' \in G
    BY ClientEffect
  <1>2. ~ClientStep /\ Next => wm' \in G
    BY HandlersLead
  <1> QED
    BY <1>1, <1>2 DEF vars
-----------------------------------------------------------------------------
(* Type correctness *)

\* What the handlers of the events make of a State.
LEMMA MapRequestResultType ==
    ASSUME NEW s \in State, NEW w \in Window, NEW junk \in BOOLEAN, NEW pointer \in Qvwm
    PROVE  MapRequestResult(s, w, junk, pointer) \in State
  <1> DEFINE t == IF w \in s.qvwmList THEN s ELSE NewQvwm(s, w, junk)
             u == IF w \in InitIconic THEN MinimizeWindow(t, w, TRUE, pointer)
                  ELSE IF w \in InitMaximize THEN MaximizeWindow(t, w, FALSE)
                  ELSE IF Minimized(t, w) THEN RestoreWindow(t, w, FALSE)
                  ELSE MapWindows(t, w, TRUE)
  <1>1. w \in Qvwm
    BY DEF Qvwm
  <1>2. t \in State
    BY NewQvwmType
  <1> HIDE DEF t
  <1>3. u \in State
    BY <1>1, <1>2, MinimizeWindowType, MaximizeWindowType, RestoreWindowType, MapWindowsType
  <1> HIDE DEF u
  <1>4. u.unmapList \in Seq(Window)
    BY <1>3 DEF State
  <1>5. [u EXCEPT !.unmapList = InsertTail(@, w)] \in State
    BY <1>1, <1>3, <1>4, ListTypes, AssignTypes
  <1>6. SetFocus(u, w) \in State /\ DeleteQvwm(t, w) \in State
    BY <1>1, <1>2, <1>3, SetFocusType, DeleteQvwmType
  <1> USE DEF t, u
  <1> QED
    BY <1>3, <1>5, <1>6, Zenon DEF MapRequestResult

\* Capture results in a legal state.
LEMMA CaptureResultType ==
    ASSUME NEW s \in State, NEW w \in Window, NEW junk \in BOOLEAN, NEW pointer \in Qvwm
    PROVE  CaptureResult(s, w, junk, pointer) \in State
  <1> DEFINE t == NewQvwm(s, w, junk)
             u == IF w \in WasIconic \cup InitIconic THEN MinimizeWindow(t, w, FALSE, pointer)
                  ELSE IF w \in InitMaximize THEN MaximizeWindow(t, w, FALSE)
                  ELSE MapWindows(t, w, TRUE)
  <1>1. w \in Qvwm
    BY DEF Qvwm
  <1>2. t \in State
    BY NewQvwmType
  <1> HIDE DEF t
  <1>3. u \in State
    BY <1>1, <1>2, MinimizeWindowType, MaximizeWindowType, MapWindowsType
  <1> HIDE DEF u
  <1>4. u.unmapList \in Seq(Window)
    BY <1>3 DEF State
  <1>5. [u EXCEPT !.unmapList = InsertTail(@, w)] \in State
    BY <1>1, <1>3, <1>4, ListTypes, AssignTypes
  <1>6. SetFocus(u, w) \in State /\ DeleteQvwm(t, w) \in State
    BY <1>1, <1>2, <1>3, SetFocusType, DeleteQvwmType
  <1> USE DEF t, u
  <1> QED
    BY <1>3, <1>5, <1>6, Zenon DEF CaptureResult

\* So does a MapNotify.
LEMMA MapNotifyResultType ==
    ASSUME NEW s \in State, NEW w \in Window
    PROVE  MapNotifyResult(s, w) \in State
  <1>1. w \in Qvwm
    BY DEF Qvwm
  <1>2. RestoreWindow(s, w, FALSE) \in State /\ MapWindows(s, w, TRUE) \in State
    BY <1>1, RestoreWindowType, MapWindowsType
  <1>3. SetFocus(RestoreWindow(s, w, FALSE), w) \in State
        /\ SetFocus(MapWindows(s, w, TRUE), w) \in State
    BY <1>1, <1>2, SetFocusType
  <1> QED
    BY <1>2, <1>3 DEF MapNotifyResult

\* So does toggling an attribute.
LEMMA ToggleType ==
    ASSUME NEW s \in State, NEW w \in Qvwm, NEW pointer \in Qvwm
    PROVE  Toggle(s, w, pointer) \in State
  BY MinimizeWindowType, RestoreWindowType DEF Toggle

\* So does toggling one with a side effect.
LEMMA FlipType ==
    ASSUME NEW s \in State, NEW w \in Qvwm, NEW flag \in Flag
    PROVE  Flip(s, w, flag) \in State
  <1>1. s.flags[w] \in SUBSET Flag
    BY DEF State
  <1>2. (IF flag \in s.flags[w] THEN s.flags[w] \ {flag} ELSE s.flags[w] \cup {flag})
          \in SUBSET Flag
    BY <1>1
  <1> QED
    BY <1>2, AssignTypes DEF Flip

\* So does the right button on the taskbar.
LEMMA FocusOnceType ==
    ASSUME NEW s \in State, NEW w \in Qvwm
    PROVE  FocusOnce(s, w) \in State
  <1> DEFINE t == [s EXCEPT !.flags[w] = @ \ {"NO_FOCUS"}]
             u == SetFocus(t, w)
  <1>1. s.flags[w] \in SUBSET Flag
    BY DEF State
  <1>2. t \in State
    BY <1>1, AssignTypes
  <1>3. u \in State
    BY <1>2, SetFocusType
  <1>4. FocusOnce(s, w) = [u EXCEPT !.flags[w] = s.flags[w]]
    BY Zenon DEF FocusOnce
  <1> HIDE DEF u
  <1>5. \A v \in SUBSET Flag : [u EXCEPT !.flags[w] = v] \in State
    BY <1>3, AssignTypes
  <1> QED
    BY <1>1, <1>4, <1>5

\* The functions lead from legal states to legal states.
LEMMA StateLeads == Leads(State, State)
  <1>1. Window \subseteq Qvwm /\ Root \in Qvwm
    BY PointerType
  <1>2. \A s \in State : s.qvwmList \subseteq Window
    BY DEF State
  <1>3. Shown(State)
    BY SetFocusType, RestoreWindowType, MaximizeWindowType, ExpandWindowType,
       ChangeFocusToCursorType DEF Shown
  <1>4. Rolled(State)
    <2> SUFFICES ASSUME NEW s \in State, NEW q \in Turns(Window, s.mapList)
                 PROVE  /\ SetFocus([s EXCEPT !.mapList = q], Root) \in State
                        /\ q # <<>> => SetFocus([s EXCEPT !.mapList = q], q[1]) \in State
      BY Zenon DEF Rolled
    <2>1. q \in Seq(Window) /\ (q # <<>> => q[1] \in Qvwm)
      BY <1>1, EmptySeq, ElementOfSeq DEF Turns
    <2>2. [s EXCEPT !.mapList = q] \in State
      BY <1>1, <2>1, AssignTypes
    <2> QED
      BY <1>1, <2>1, <2>2, SetFocusType
  <1>5. Flagged(State)
    <2> SUFFICES ASSUME NEW s \in State, NEW w \in Window
                 PROVE  /\ [s EXCEPT !.flags[w] = @ \cup {"NO_TBUTTON"}] \in State
                        /\ Flip(s, w, "NO_TBUTTON") \in State
                        /\ Flip(s, w, "NO_FOCUS") \in State
                        /\ FocusOnce(s, w) \in State
      BY Zenon DEF Flagged
    <2>1. s.flags[w] \cup {"NO_TBUTTON"} \in SUBSET Flag
      BY <1>1 DEF State, Flag
    <2>2. [s EXCEPT !.flags[w] = @ \cup {"NO_TBUTTON"}] \in State
      BY <1>1, <2>1, AssignTypes
    <2> QED
      BY <1>1, <2>2, FlipType, FocusOnceType DEF Flag
  <1>6. Hidden(State, State)
    BY MinimizeWindowType, ToggleType DEF Hidden
  <1>7. Born(State, State)
    BY MapRequestResultType, CaptureResultType, MapNotifyResultType DEF Born
  <1>8. Dead(State, State)
    <2>1. \A s \in State, w \in Window : [s EXCEPT !.xmapped[w] = FALSE] \in State
      BY DEF State
    <2> QED
      BY <2>1, DestroyQvwmType, DeleteQvwmType DEF Dead
  <1>9. \A s \in State : [s EXCEPT !.frames = {}] \in State
    BY DEF State
  <1> QED
    BY <1>3, <1>4, <1>5, <1>6, <1>7, <1>8, <1>9 DEF Leads
-----------------------------------------------------------------------------
\* The events that qvwm makes the server send are not of override-redirect windows.
LEMMA AddedType ==
    ASSUME NEW q \in Seq(SentEvent), Added(q)
    PROVE  queue' \in Seq(SentEvent)
  <1>1. PICK r : Echo(r) /\ queue' = q \o r
    BY DEF Added
  <1>2. r \in [1..Len(r) -> SentEvent] /\ Len(r) \in Nat
    <2>1. r \in [1..Len(r) -> Event] /\ Len(r) \in Nat
      BY <1>1, LenProperties DEF Echo
    <2> QED
      BY <1>1, <2>1 DEF Echo, SentEvent
  <1>3. r \in Seq(SentEvent)
    BY <1>2, SeqDef
  <1> QED
    BY <1>1, <1>3, ConcatProperties

\* What a client does changes at most the map state of its window and the queue.
LEMMA ClientStepType ==
    ASSUME TypeInv, LoopInv, ClientStep
    PROVE  TypeInv' /\ LoopInv'
  <1> PICK w \in Window :
        \/ ClientMap(w) \/ ClientMapOverride(w) \/ ClientUnmap(w) \/ ClientDestroy(w)
        \/ \E message \in ClientMessage : ClientSendsMessage(w, message)
    BY DEF ClientStep
  <1>1. \A type \in EventType : type # "MapNotifyOverride" \/ w \in Override =>
          XEvent(type, w) \in SentEvent
    BY DEF XEvent, Event, SentEvent
  <1>2. \A type \in EventType : type # "MapNotifyOverride" \/ w \in Override =>
          Append(queue, XEvent(type, w)) \in Seq(SentEvent)
    BY <1>1, AppendProperties DEF LoopInv
  <1>3. \A b \in BOOLEAN : /\ [wm EXCEPT !.xmapped[w] = b] \in State
                           /\ [wm EXCEPT !.xmapped[w] = b].qvwmList = wm.qvwmList
    BY DEF TypeInv, State
  <1>4. ASSUME queue' \in Seq(SentEvent), NEW b \in BOOLEAN,
               wm' \in {wm, [wm EXCEPT !.xmapped[w] = b]},
               alive' \subseteq Window, wanted' \subseteq Window,
               UNCHANGED <<pass, todo, running>>
        PROVE  TypeInv' /\ LoopInv'
    <2>1. wm' \in State /\ wm'.qvwmList = wm.qvwmList
      BY <1>3, <1>4 DEF TypeInv
    <2>2. SentEvent \subseteq Event
      BY DEF SentEvent
    <2>3. queue' \in Seq(Event)
      BY <1>4, <2>2
    <2> QED
      BY <1>4, <2>1, <2>3 DEF TypeInv, LoopInv
  <1>5. /\ alive \subseteq Window /\ wanted \subseteq Window
        /\ queue \in Seq(SentEvent) /\ TRUE \in BOOLEAN
    BY DEF TypeInv, LoopInv
  <1>6. CASE ClientMap(w)
    <2>1. queue' \in Seq(SentEvent)
      BY <1>2, <1>6 DEF ClientMap, EventType
    <2> QED
      BY <1>4, <1>5, <1>6, <2>1 DEF ClientMap
  <1>7. CASE ClientMapOverride(w)
    <2>1. queue' \in Seq(SentEvent)
      BY <1>2, <1>7 DEF ClientMapOverride, EventType
    <2> QED
      BY <1>4, <1>5, <1>7, <2>1 DEF ClientMapOverride
  <1>8. CASE ClientUnmap(w)
    <2>1. queue' \in Seq(SentEvent)
      BY <1>2, <1>5, <1>8 DEF ClientUnmap, EventType
    <2> QED
      BY <1>4, <1>5, <1>8, <2>1 DEF ClientUnmap
  <1>9. CASE ClientDestroy(w)
    <2> DEFINE unmap == IF wm.xmapped[w] THEN <<XEvent("UnmapNotify", w)>> ELSE <<>>
               sent == IF w \in wm.qvwmList THEN Append(unmap, XEvent("DestroyNotify", w))
                       ELSE <<>>
    <2>1. XEvent("UnmapNotify", w) \in SentEvent /\ XEvent("DestroyNotify", w) \in SentEvent
      BY <1>1 DEF EventType
    <2>2. unmap \in Seq(SentEvent)
      BY <2>1
    <2>3. sent \in Seq(SentEvent)
      <3> HIDE DEF unmap
      <3> QED
        BY <2>1, <2>2, AppendProperties, EmptySeq
    <2>4. queue' = queue \o sent /\ wm' = [wm EXCEPT !.xmapped[w] = FALSE]
          /\ alive' = alive \ {w} /\ wanted' = wanted \ {w} /\ UNCHANGED <<pass, todo, running>>
      BY <1>9, Zenon DEF ClientDestroy
    <2> HIDE DEF sent
    <2>5. queue' \in Seq(SentEvent)
      BY <1>5, <2>3, <2>4, ConcatProperties
    <2> QED
      BY <1>4, <1>5, <2>4, <2>5
  <1>10. ASSUME NEW message \in ClientMessage, ClientSendsMessage(w, message)
         PROVE  TypeInv' /\ LoopInv'
    <2>1. message \in EventType /\ message # "MapNotifyOverride"
      BY DEF ClientMessage, EventType
    <2>2. queue' \in Seq(SentEvent)
      BY <1>2, <1>10, <2>1 DEF ClientSendsMessage
    <2> QED
      BY <1>4, <1>5, <1>10, <2>2 DEF ClientSendsMessage
  <1> QED
    BY <1>6, <1>7, <1>8, <1>9, <1>10

\* The windows a loop has still to visit stay new, or stay managed: between two
\* iterations no handler runs, and an iteration manages at most its own window.
LEMMA LoopKept ==
    ASSUME TypeInv, LoopInv, Next, ~ClientStep
    PROVE  /\ alive' = alive /\ wanted' = wanted
           /\ pass' \in Pass /\ todo' \subseteq Window /\ running' \in BOOLEAN
           /\ pass' = "capture" => todo' \cap wm'.qvwmList = {}
           /\ pass' \in {"minimizeAll", "restoreAll"} => todo' \subseteq wm'.qvwmList
  <1> DEFINE Loop ==
           /\ alive' = alive /\ wanted' = wanted
           /\ pass' \in Pass /\ todo' \subseteq Window /\ running' \in BOOLEAN
           /\ pass' = "capture" => todo' \cap wm'.qvwmList = {}
           /\ pass' \in {"minimizeAll", "restoreAll"} => todo' \subseteq wm'.qvwmList
  <1>1. wm \in State /\ pass \in Pass /\ todo \subseteq Window /\ running \in BOOLEAN
        /\ wm.qvwmList \subseteq Window
    BY DEF TypeInv, State
  <1>2. ASSUME pass = "none", UNCHANGED <<alive, wanted, pass, todo, running>> PROVE Loop
    BY <1>1, <1>2
  <1>3. CASE DispatchStep
    <2>1. pass = "none" /\ UNCHANGED <<alive, wanted, pass, todo, running>>
      BY <1>3 DEF DispatchStep, MapRequestProc, MapNotifyOverrideProc, MapNotifyProc,
         UnmapNotifyProc, DestroyNotifyProc, ClientMessageProc, Dispatch
    <2> QED
      BY <1>2, <2>1
  <1>4. \A s : Handle(s) => Loop
    BY <1>2 DEF Handle
  <1>5. CASE InputStep
    <2>1. \E s : Handle(s)
      BY <1>5 DEF InputStep, Button1Press, Button3Release, Enter, FrameButton1, FrameButton2,
         MiniatureButton1Press, TaskbarButtonPush, TaskbarButton3Release, DesktopFocus, SwitchPage
    <2> QED
      BY <1>4, <2>1
  <1>6. ASSUME NEW s \in State, s.qvwmList = wm.qvwmList
        PROVE  /\ \A q : Leave(s, q) => wm'.qvwmList = wm.qvwmList
               /\ \A name \in Pass : \A fn : StartPass(name, fn, s) /\ name # "capture" => Loop
               /\ \A name, w : Visit(name, w, s) => Loop
    <2>1. \A q : Leave(s, q) => wm'.qvwmList = wm.qvwmList
      BY <1>6 DEF Leave, State
    <2> QED
      BY <1>1, <2>1 DEF StartPass, Visit, LoopInv
  <1>7. CASE FunctionStep
    <2>1. CASE MinimizeAll
      <3>1. SetFocus(wm, Root) \in State /\ SetFocus(wm, Root).qvwmList = wm.qvwmList
        BY <1>1, PointerType, SetFocusManaged
      <3> QED
        BY <1>6, <2>1, <3>1 DEF MinimizeAll, Pass
    <2>2. CASE RestoreAll
      BY <1>1, <1>6, <2>2 DEF RestoreAll, Pass
    <2>3. CASE RollFocusOnEmptyList
      BY <1>1, <2>3 DEF RollFocusOnEmptyList, LoopInv
    <2>4. CASE ~MinimizeAll /\ ~RestoreAll /\ ~RollFocusOnEmptyList
      <3>1. \E s : Handle(s)
        BY <1>7, <2>4 DEF FunctionStep, Q_RESTORE, Q_FOCUS, Q_RAISE_FOCUS, Q_MINIMIZE,
           Q_MAXIMIZE, Q_MAXIMIZE_ONEWAY, Q_EXPAND, Q_TOGGLE_TITLE, Q_TOGGLE_FOCUS,
           Q_TOGGLE_TBUTTON, Q_CHANGE_WINDOW, Q_CHANGE_WINDOW_BACK, Q_CHANGE_WINDOW_INSCR,
           Q_CHANGE_WINDOW_BACK_INSCR
      <3> QED
        BY <1>4, <3>1
    <2> QED
      BY <2>1, <2>2, <2>3, <2>4
  <1>8. ASSUME NEW w \in Window, CaptureWindow(w) PROVE Loop
    <2>1. PICK junk \in BOOLEAN, pointer \in Pointer :
            Visit("capture", w, IF w \in alive /\ (wm.xmapped[w] \/ w \in WasIconic)
                                THEN CaptureResult(wm, w, junk, pointer) ELSE wm)
      BY <1>8, Zenon DEF CaptureWindow
    <2> DEFINE s == IF w \in alive /\ (wm.xmapped[w] \/ w \in WasIconic)
                    THEN CaptureResult(wm, w, junk, pointer) ELSE wm
    <2>2. s \in State /\ s.qvwmList \subseteq wm.qvwmList \cup {w}
      BY <1>1, PointerType, CaptureResultType, CaptureManaged
    <2> HIDE DEF s
    <2>3. Visit("capture", w, s)
      BY <2>1 DEF s
    <2>4. wm'.qvwmList = s.qvwmList
      BY <2>2, <2>3 DEF Visit, Leave, State
    <2> QED
      BY <1>1, <2>2, <2>3, <2>4 DEF Visit, LoopInv
  <1>9. ASSUME NEW w \in Window, MinimizeNext(w) PROVE Loop
    <2>1. PICK pointer \in Pointer :
            Visit("minimizeAll", w, IF CheckMapped(wm, w)
                                    THEN MinimizeWindow(wm, w, FALSE, pointer) ELSE wm)
      BY <1>9, Zenon DEF MinimizeNext
    <2>2. /\ MinimizeWindow(wm, w, FALSE, pointer) \in State
          /\ MinimizeWindow(wm, w, FALSE, pointer).qvwmList = wm.qvwmList
      BY <1>1, PointerType, MinimizeWindowType, MinimizeManaged
    <2> QED
      BY <1>1, <1>6, <2>1, <2>2
  <1>10. ASSUME NEW w \in Window, RestoreNext(w) PROVE Loop
    <2>1. /\ RestoreWindow(wm, w, FALSE) \in State
          /\ RestoreWindow(wm, w, FALSE).qvwmList = wm.qvwmList
      BY <1>1, PointerType, RestoreWindowType, ShowManaged
    <2> QED
      BY <1>1, <1>6, <1>10, <2>1 DEF RestoreNext
  <1>11. CASE CaptureDone \/ PassDone
    BY <1>1, <1>11 DEF CaptureDone, PassDone, Pass, LoopInv
  <1> QED
    BY <1>3, <1>5, <1>7, <1>8, <1>9, <1>10, <1>11 DEF Next, PassStep

\* What main.cc leaves before CaptureAllWindows is a State.
LEMMA InitType == Init => TypeInv
  <1> SUFFICES ASSUME Init PROVE TypeInv
    OBVIOUS
  <1>1. InitState(Existing \ WasIconic) \in State
    <2>1. <<>> \in Seq(Window)
      BY EmptySeq
    <2> QED
      BY <2>1 DEF InitState, State, Qvwm, Status, Flag
  <1>2. Existing \subseteq Window
    BY SettingsType
  <1>3. queue \in Seq(Event)
    BY EmptySeq DEF Init
  <1> QED
    BY <1>1, <1>2, <1>3 DEF Init, TypeInv, Pass

\* The types and LoopInv are inductive together.
LEMMA TypeKept ==
    ASSUME TypeInv, LoopInv, [Next]_vars
    PROVE  TypeInv' /\ LoopInv'
  <1>1. CASE UNCHANGED vars
    BY <1>1 DEF vars, TypeInv, LoopInv
  <1>2. CASE Next /\ ~ClientStep
    <2>1. wm' \in State /\ (Added(queue) \/ (DispatchStep /\ Added(Tail(queue))))
      BY <1>2, StateLeads, HandlersLead DEF TypeInv
    <2>2. queue \in Seq(SentEvent) /\ (DispatchStep => Tail(queue) \in Seq(SentEvent))
      <3>1. queue \in Seq(SentEvent)
        BY DEF LoopInv
      <3>2. DispatchStep => queue # <<>>
        BY DEF DispatchStep, MapRequestProc, MapNotifyOverrideProc, MapNotifyProc,
           UnmapNotifyProc, DestroyNotifyProc, ClientMessageProc, Dispatch
      <3> QED
        BY <3>1, <3>2, HeadTailProperties
    <2>3. queue' \in Seq(SentEvent)
      BY <2>1, <2>2, AddedType
    <2>4. SentEvent \subseteq Event
      BY DEF SentEvent
    <2>5. queue' \in Seq(Event)
      BY <2>3, <2>4
    <2> QED
      BY <1>2, <2>1, <2>3, <2>5, LoopKept DEF TypeInv, LoopInv
  <1> QED
    BY <1>1, <1>2, ClientStepType

\* At the start the children of the root window have still to be captured.
LEMMA LoopInit == Init => LoopInv
  BY EmptySeq DEF Init, InitState, LoopInv

\* Whatever clients, users and handlers do, and for any windows, hints and
\* settings, every registry of qvwm holds windows it knows; and a loop over the
\* windows never visits one that was deleted, or captures one twice.
THEOREM TypeCorrect == Spec => [](TypeInv /\ LoopInv)
  BY InitType, LoopInit, TypeKept, PTL DEF Spec

-----------------------------------------------------------------------------
(***************************************************************************)
(* The life of windows: qvwm agrees with the server about every one, or an *)
(* event that will settle it is on its way; the links between transients   *)
(* and main windows are true; and no main window is ever left unmapped and *)
(* not minimized.  The first two are facts about qvwmList, mapped,         *)
(* xmapped, qvMain and trList, which only MapWindow, UnmapWindow, the      *)
(* constructor and the destructor of Qvwm assign.  Lives and Begets say of *)
(* a set of states that these four do not leave it; no other one does.     *)
(***************************************************************************)

\* The functions of focus and of special resizing leave these members alone.
SameLife(s, t) ==
    /\ t \in State
    /\ t.qvwmList = s.qvwmList /\ t.mapped = s.mapped /\ t.xmapped = s.xmapped
    /\ t.qvMain = s.qvMain /\ t.trList = s.trList

\* A set of states told apart by these members, which mapping does not leave.
Lives(G) ==
    /\ \A s \in G : \A t : SameLife(s, t) => t \in G
    /\ \A s \in G, w \in Window, b \in BOOLEAN :
          /\ MapWindow(s, w, b) \in G
          /\ w \in s.qvwmList => UnmapWindow(s, w, b) \in G

\* Nor do birth and the death of the windows of D.
Begets(G, D) ==
    \A s \in G, w \in Window, junk \in BOOLEAN :
        /\ w \in alive \ s.qvwmList => NewQvwm(s, w, junk) \in G
        /\ w \in s.qvwmList \cap D => DeleteQvwm(s, w) \in G

\* SetFocus moves the focus and mapList.
LEMMA SetFocusLife ==
    ASSUME NEW s \in State, NEW w \in Qvwm
    PROVE  SameLife(s, SetFocus(s, w))
  <1>1. LET t == SetFocus(s, w)
        IN  /\ t.qvwmList = s.qvwmList /\ t.mapped = s.mapped /\ t.xmapped = s.xmapped
            /\ t.qvMain = s.qvMain /\ t.trList = s.trList
    BY DEF SetFocus, FocusMgrSetFocus, State
  <1> QED
    BY <1>1, SetFocusType DEF SameLife

\* Assignments to the other members.
LEMMA AssignLife ==
    ASSUME NEW s \in State, NEW w \in Qvwm
    PROVE  /\ \A b \in BOOLEAN : SameLife(s, [s EXCEPT !.trMapped[w] = b])
           /\ \A v \in SUBSET Status : SameLife(s, [s EXCEPT !.status[w] = v])
           /\ \A v \in SUBSET Flag : SameLife(s, [s EXCEPT !.flags[w] = v])
           /\ \A v \in SUBSET Status, f \in SUBSET Flag :
                /\ SameLife(s, [s EXCEPT !.status[w] = v, !.flags[w] = f])
                /\ SameLife(s, [s EXCEPT !.status[w] = v, !.flagsBak[w] = f])
           /\ \A q \in Seq(Window) : /\ SameLife(s, [s EXCEPT !.mapList = q])
                                     /\ SameLife(s, [s EXCEPT !.unmapList = q])
           /\ \A q, r \in Seq(Window) :
                /\ SameLife(s, [s EXCEPT !.mapList = q, !.unmapList = r])
                /\ SameLife(s, [s EXCEPT !.unmapList = r, !.mapList = q])
           /\ SameLife(s, [s EXCEPT !.frames = {}])
  <1>1. \A v \in SUBSET Status, f \in SUBSET Flag :
          /\ [s EXCEPT !.status[w] = v, !.flags[w] = f] \in State
          /\ [s EXCEPT !.status[w] = v, !.flagsBak[w] = f] \in State
    BY DEF State
  <1>2. [s EXCEPT !.frames = {}] \in State
    BY DEF State
  <1> DEFINE Same(t) == /\ t.qvwmList = s.qvwmList /\ t.mapped = s.mapped
                        /\ t.xmapped = s.xmapped
                        /\ t.qvMain = s.qvMain /\ t.trList = s.trList
  <1>3. /\ \A b : Same([s EXCEPT !.trMapped[w] = b])
        /\ \A v : Same([s EXCEPT !.status[w] = v]) /\ Same([s EXCEPT !.flags[w] = v])
        /\ \A v, f : /\ Same([s EXCEPT !.status[w] = v, !.flags[w] = f])
                     /\ Same([s EXCEPT !.status[w] = v, !.flagsBak[w] = f])
    BY DEF State
  <1>4. /\ \A q : Same([s EXCEPT !.mapList = q]) /\ Same([s EXCEPT !.unmapList = q])
        /\ \A q, r : /\ Same([s EXCEPT !.mapList = q, !.unmapList = r])
                     /\ Same([s EXCEPT !.unmapList = r, !.mapList = q])
        /\ Same([s EXCEPT !.frames = {}])
    BY DEF State
  <1>5. \A t \in State : Same(t) => SameLife(s, t)
    BY DEF SameLife
  <1> HIDE DEF Same
  <1> QED
    BY <1>1, <1>2, <1>3, <1>4, <1>5, AssignTypes

\* MapWindows and UnmapWindows move a window between the lists besides.
LEMMA MappingLives ==
    ASSUME NEW G \in SUBSET State, Lives(G), NEW s \in G, NEW w \in Window, NEW b \in BOOLEAN
    PROVE  MapWindows(s, w, b) \in G /\ (w \in s.qvwmList => UnmapWindows(s, w, b) \in G)
  <1> DEFINE m == MapWindow(s, w, b)
             u == UnmapWindow(s, w, b)
             tm == [m EXCEPT !.trMapped[w] = TRUE]
             tu == [u EXCEPT !.trMapped[w] = FALSE]
             rm == [tm EXCEPT !.unmapList = Remove(@, w), !.mapList = InsertHead(@, w)]
             ru == [tu EXCEPT !.mapList = Remove(@, w), !.unmapList = InsertTail(@, w)]
  <1>1. MapWindows(s, w, b) \in {s, tm, rm} /\ UnmapWindows(s, w, b) \in {s, tu, ru}
    <2>1. MapWindows(s, w, b) = s \/ MapWindows(s, w, b) = tm \/ MapWindows(s, w, b) = rm
      BY Zenon DEF MapWindows
    <2>2. UnmapWindows(s, w, b) = s \/ UnmapWindows(s, w, b) = tu \/ UnmapWindows(s, w, b) = ru
      BY Zenon DEF UnmapWindows
    <2> QED
      BY <2>1, <2>2
  <1>2. m \in G /\ (w \in s.qvwmList => u \in G)
    BY DEF Lives
  <1>3. w \in Qvwm /\ \A t \in G : t \in State
    BY DEF Qvwm
  <1> HIDE DEF m, u
  <1>4. tm \in G /\ (w \in s.qvwmList => tu \in G)
    BY <1>2, <1>3, AssignLife DEF Lives
  <1> HIDE DEF tm, tu
  <1>5. rm \in G /\ (w \in s.qvwmList => ru \in G)
    <2>1. \A t \in G : t.mapList \in Seq(Window) /\ t.unmapList \in Seq(Window)
      BY <1>3 DEF State
    <2>2. \A t \in G :
            /\ Remove(t.unmapList, w) \in Seq(Window) /\ InsertHead(t.mapList, w) \in Seq(Window)
            /\ Remove(t.mapList, w) \in Seq(Window) /\ InsertTail(t.unmapList, w) \in Seq(Window)
      BY <2>1, ListTypes
    <2> QED
      BY <1>3, <1>4, <2>2, AssignLife DEF Lives
  <1> QED
    BY <1>1, <1>4, <1>5

\* So RestoreWindow, MaximizeWindow and ExpandWindow leave no such set.
LEMMA ShowLives ==
    ASSUME NEW G \in SUBSET State, Lives(G), NEW s \in G, NEW w \in Qvwm, NEW b \in BOOLEAN
    PROVE  /\ SetFocus(s, w) \in G /\ ChangeFocusToCursor(s, w) \in G
           /\ RestoreWindow(s, w, b) \in G /\ MaximizeWindow(s, w, b) \in G
           /\ ExpandWindow(s, w) \in G
  <1>1. \A t \in G, x \in Qvwm : SetFocus(t, x) \in G
    BY SetFocusLife DEF Lives
  <1>2. ChangeFocusToCursor(s, w) \in G
    BY <1>1, PointerType DEF ChangeFocusToCursor
  <1>3. CASE w = Root
    BY <1>1, <1>2, <1>3 DEF RestoreWindow, MaximizeWindow, ExpandWindow
  <1>4. CASE w # Root
    <2> DEFINE t1 == [s EXCEPT !.status[w] = {"MAXIMIZE_WINDOW"}]
               t2 == [s EXCEPT !.status[w] = {}, !.flags[w] = s.flagsBak[w]]
               u == [s EXCEPT !.status[w] = {"MAXIMIZE_WINDOW"},
                              !.flagsBak[w] = IF Minimized(s, w) THEN @ ELSE s.flags[w]]
    <2>1. w \in Window /\ s \in State /\ s.flagsBak[w] \in SUBSET Flag /\ s.flags[w] \in SUBSET Flag
      BY <1>4 DEF Qvwm, State
    <2>2. t1 \in G /\ t2 \in G /\ u \in G
      <3>1. SameLife(s, t1) /\ SameLife(s, t2)
        BY <2>1, AssignLife DEF Status
      <3>2. \A f \in SUBSET Flag :
              SameLife(s, [s EXCEPT !.status[w] = {"MAXIMIZE_WINDOW"}, !.flagsBak[w] = f])
        BY <2>1, AssignLife DEF Status
      <3>3. SameLife(s, u)
        BY <2>1, <3>2
      <3> QED
        BY <3>1, <3>3 DEF Lives
    <2>3. RestoreWindow(s, w, b) \in {s, SetFocus(MapWindows(t1, w, b), w),
                                      SetFocus(MapWindows(t2, w, b), w)}
      BY Zenon DEF RestoreWindow
    <2>4. MaximizeWindow(s, w, b) \in {s, SetFocus(MapWindows(u, w, b), w)}
      BY Zenon DEF MaximizeWindow
    <2>5. ExpandWindow(s, w) = SetFocus(MapWindows(s, w, TRUE), w)
      BY <1>4 DEF ExpandWindow
    <2> HIDE DEF t1, t2, u
    <2>6. \A t \in G, c \in BOOLEAN : SetFocus(MapWindows(t, w, c), w) \in G
      BY <1>1, <2>1, MappingLives
    <2> QED
      BY <1>1, <1>2, <2>2, <2>3, <2>4, <2>5, <2>6
  <1> QED
    BY <1>3, <1>4

\* Nor do YieldFocus, MinimizeWindow and a toggle.
LEMMA HideLives ==
    ASSUME NEW G \in SUBSET State, Lives(G), NEW s \in G, NEW w \in Window, NEW b \in BOOLEAN,
           NEW pointer \in Qvwm, w \in s.qvwmList
    PROVE  /\ YieldFocus(s, w) \in G
           /\ MinimizeWindow(s, w, b, pointer) \in G
           /\ Toggle(s, w, pointer) \in G
  <1>1. w \in Qvwm /\ Root \in Qvwm /\ s \in State
    BY PointerType
  <1>2. \A t \in G : YieldFocus(t, w) \in G
    <2> TAKE t \in G
    <2> DEFINE y == Yielded(t, w)
    <2>1. t \in State /\ YieldedList(t, w) \in Seq(Window) /\ NextOf(t, w) \in Qvwm
          /\ YieldFocus(t, w) \in {y, SetFocus(y, Root), SetFocus(y, NextOf(t, w)),
                                   RestoreWindow(y, NextOf(t, w), TRUE)}
      BY YieldFocusCases, Zenon
    <2>2. y \in G
      BY <1>1, <2>1, AssignLife DEF Yielded, Lives
    <2> HIDE DEF y
    <2> QED
      BY <1>1, <2>1, <2>2, ShowLives
  <1>3. \A c \in BOOLEAN : MinimizeWindow(s, w, c, pointer) \in G
    <2> TAKE c \in BOOLEAN
    <2> DEFINE t == [s EXCEPT !.status[w] = @ \cup {"MINIMIZE_WINDOW"},
                              !.flagsBak[w] = IF Maximized(s, w) THEN @ ELSE s.flags[w]]
               u == UnmapWindows(YieldFocus(t, w), w, c)
    <2>1. MinimizeWindow(s, w, c, pointer) \in {s, u, ChangeFocusToCursor(u, pointer)}
      BY Zenon DEF MinimizeWindow
    <2>2. t \in G
      <3>1. /\ s.flags[w] \in SUBSET Flag /\ s.flagsBak[w] \in SUBSET Flag
            /\ s.status[w] \cup {"MINIMIZE_WINDOW"} \in SUBSET Status
        BY <1>1 DEF State, Status
      <3>2. \A v \in SUBSET Status, f \in SUBSET Flag :
              [s EXCEPT !.status[w] = v, !.flagsBak[w] = f] \in G
        BY <1>1, AssignLife DEF Lives
      <3> QED
        BY <3>1, <3>2
    <2> HIDE DEF t
    <2>3. YieldFocus(t, w).qvwmList = s.qvwmList
      <3>1. t.qvwmList = s.qvwmList
        BY <1>1 DEF State, t
      <3> QED
        BY <2>2, <3>1, YieldFocusManaged
    <2>4. u \in G
      BY <1>2, <2>2, <2>3, MappingLives
    <2> HIDE DEF u
    <2> QED
      BY <2>1, <2>4, ShowLives
  <1>4. Toggle(s, w, pointer) \in G
    BY <1>1, <1>3, ShowLives DEF Toggle
  <1> QED
    BY <1>2, <1>3, <1>4

\* All that handlers do but birth, death and what the server does.
LEMMA LivesLead ==
    ASSUME NEW G \in SUBSET State, Lives(G)
    PROVE  /\ Shown(G) /\ Rolled(G) /\ Flagged(G) /\ Hidden(G, G)
           /\ \A s \in G : [s EXCEPT !.frames = {}] \in G
  <1>1. Window \subseteq Qvwm /\ Root \in Qvwm /\ \A s \in G : s \in State
    BY PointerType
  <1>2. Shown(G)
    BY ShowLives DEF Shown
  <1>3. Rolled(G)
    <2> SUFFICES ASSUME NEW s \in G, NEW q \in Turns(Window, s.mapList)
                 PROVE  /\ SetFocus([s EXCEPT !.mapList = q], Root) \in G
                        /\ q # <<>> => SetFocus([s EXCEPT !.mapList = q], q[1]) \in G
      BY Zenon DEF Rolled
    <2>1. q \in Seq(Window) /\ (q # <<>> => q[1] \in Qvwm)
      BY <1>1, EmptySeq, ElementOfSeq DEF Turns
    <2>2. [s EXCEPT !.mapList = q] \in G
      BY <1>1, <2>1, AssignLife DEF Lives
    <2> QED
      BY <1>1, <2>1, <2>2, ShowLives
  <1>4. Flagged(G)
    <2> SUFFICES ASSUME NEW s \in G, NEW w \in Window
                 PROVE  /\ [s EXCEPT !.flags[w] = @ \cup {"NO_TBUTTON"}] \in G
                        /\ Flip(s, w, "NO_TBUTTON") \in G
                        /\ Flip(s, w, "NO_FOCUS") \in G
                        /\ FocusOnce(s, w) \in G
      BY Zenon DEF Flagged
    <2>1. \A t \in G : \A f \in SUBSET Flag : [t EXCEPT !.flags[w] = f] \in G
      BY <1>1, AssignLife DEF Lives
    <2>2. s.flags[w] \in SUBSET Flag
      BY <1>1 DEF State
    <2>3. /\ s.flags[w] \cup {"NO_TBUTTON"} \in SUBSET Flag /\ s.flags[w] \ {"NO_FOCUS"} \in SUBSET Flag
          /\ \A flag \in Flag :
               (IF flag \in s.flags[w] THEN s.flags[w] \ {flag} ELSE s.flags[w] \cup {flag})
                 \in SUBSET Flag
      BY <2>2 DEF Flag
    <2>4. \A flag \in Flag : Flip(s, w, flag) \in G
      BY <2>1, <2>3 DEF Flip
    <2>5. FocusOnce(s, w) \in G
      <3> DEFINE t == [s EXCEPT !.flags[w] = @ \ {"NO_FOCUS"}]
                 u == SetFocus(t, w)
      <3>1. t \in G
        BY <2>1, <2>3
      <3>2. u \in G
        BY <1>1, <3>1, ShowLives
      <3>3. FocusOnce(s, w) = [u EXCEPT !.flags[w] = s.flags[w]]
        BY Zenon DEF FocusOnce
      <3> HIDE DEF t, u
      <3> QED
        BY <2>1, <2>2, <3>2, <3>3
    <2> QED
      BY <2>1, <2>3, <2>4, <2>5 DEF Flag
  <1>5. Hidden(G, G)
    <2>1. \A s \in G, b \in BOOLEAN, pointer \in Qvwm :
            MinimizeWindow(s, Root, b, pointer) = s /\ Toggle(s, Root, pointer) = s
      BY DEF MinimizeWindow, RestoreWindow, Toggle
    <2> QED
      BY <2>1, HideLives DEF Hidden, Qvwm
  <1>6. \A s \in G : [s EXCEPT !.frames = {}] \in G
    BY <1>1, AssignLife DEF Lives
  <1> QED
    BY <1>2, <1>3, <1>4, <1>5, <1>6

\* The handlers that make a Qvwm, and Event::DestroyQvwm.
LEMMA LivesBear ==
    ASSUME NEW G \in SUBSET State, Lives(G), NEW D, Begets(G, D), CloseSoon \subseteq D
    PROVE  /\ Born(G, G)
           /\ \A s \in G, w \in Window, pointer \in Qvwm :
                w \in s.qvwmList \cap D => DestroyQvwm(s, w, pointer) \in G
  <1>1. Window \subseteq Qvwm /\ \A s \in G : s \in State
    BY PointerType
  <1>2. ASSUME NEW t \in G, NEW w \in Window, w \in t.qvwmList
        PROVE  /\ [t EXCEPT !.unmapList = InsertTail(@, w)] \in G
               /\ w \in D => DeleteQvwm(t, w) \in G
    <2>1. InsertTail(t.unmapList, w) \in Seq(Window)
      BY <1>1, ListTypes DEF State
    <2> QED
      BY <1>1, <1>2, <2>1, AssignLife DEF Lives, Begets
  <1>3. ASSUME NEW s \in G, NEW w \in Window, NEW junk \in BOOLEAN, w \in alive \ s.qvwmList
        PROVE  NewQvwm(s, w, junk) \in G /\ w \in NewQvwm(s, w, junk).qvwmList
    <2>1. NewQvwm(s, w, junk).qvwmList = s.qvwmList \cup {w}
      BY <1>1 DEF NewQvwm, State
    <2> QED
      BY <1>3, <2>1 DEF Begets
  <1>4. ASSUME NEW t \in G, NEW w \in Window, w \in t.qvwmList, NEW b \in BOOLEAN,
               NEW pointer \in Qvwm, NEW r,
               NEW u \in {MinimizeWindow(t, w, b, pointer), MaximizeWindow(t, w, FALSE),
                          RestoreWindow(t, w, FALSE), MapWindows(t, w, TRUE)},
               \/ w \in D /\ r = DeleteQvwm(t, w)
               \/ r \in {[u EXCEPT !.unmapList = InsertTail(@, w)], SetFocus(u, w), u}
        PROVE  r \in G
    <2>1. u \in G /\ u.qvwmList = t.qvwmList
      <3>1. t \in State /\ w \in Qvwm
        BY <1>1
      <3>2. CASE u = MinimizeWindow(t, w, b, pointer)
        BY <1>4, <3>1, <3>2, HideLives, MinimizeManaged
      <3>3. CASE u = MaximizeWindow(t, w, FALSE)
        BY <3>1, <3>3, ShowLives, ShowManaged
      <3>4. CASE u = RestoreWindow(t, w, FALSE)
        BY <3>1, <3>4, ShowLives, ShowManaged
      <3>5. CASE u = MapWindows(t, w, TRUE)
        BY <3>1, <3>5, MappingLives, MappingManaged
      <3> QED
        BY <3>2, <3>3, <3>4, <3>5
    <2>2. w \in Qvwm
      BY <1>1
    <2>3. SetFocus(u, w) \in G
      BY <2>1, <2>2, ShowLives
    <2>4. [u EXCEPT !.unmapList = InsertTail(@, w)] \in G /\ (w \in D => DeleteQvwm(t, w) \in G)
      BY <1>2, <1>4, <2>1
    <2> QED
      BY <1>4, <2>1, <2>3, <2>4
  <1>5. ASSUME NEW s \in G, NEW w \in Window, NEW junk \in BOOLEAN, NEW pointer \in Qvwm,
               w \in alive
        PROVE  MapRequestResult(s, w, junk, pointer) \in G
    <2> DEFINE t == IF w \in s.qvwmList THEN s ELSE NewQvwm(s, w, junk)
               u == IF w \in InitIconic THEN MinimizeWindow(t, w, TRUE, pointer)
                    ELSE IF w \in InitMaximize THEN MaximizeWindow(t, w, FALSE)
                    ELSE IF Minimized(t, w) THEN RestoreWindow(t, w, FALSE)
                    ELSE MapWindows(t, w, TRUE)
    <2>1. t \in G /\ w \in t.qvwmList
      BY <1>3, <1>5
    <2>2. LET r == MapRequestResult(s, w, junk, pointer)
          IN  \/ w \in CloseSoon /\ r = DeleteQvwm(t, w)
              \/ r \in {[u EXCEPT !.unmapList = InsertTail(@, w)], SetFocus(u, w), u}
      BY Zenon DEF MapRequestResult
    <2>3. u \in {MinimizeWindow(t, w, TRUE, pointer), MaximizeWindow(t, w, FALSE),
                 RestoreWindow(t, w, FALSE), MapWindows(t, w, TRUE)}
      BY Zenon
    <2> HIDE DEF t, u
    <2> QED
      BY <1>4, <2>1, <2>2, <2>3
  <1>6. ASSUME NEW s \in G, NEW w \in Window, NEW junk \in BOOLEAN, NEW pointer \in Qvwm,
               w \in alive \ s.qvwmList
        PROVE  CaptureResult(s, w, junk, pointer) \in G
    <2> DEFINE t == NewQvwm(s, w, junk)
               u == IF w \in WasIconic \cup InitIconic THEN MinimizeWindow(t, w, FALSE, pointer)
                    ELSE IF w \in InitMaximize THEN MaximizeWindow(t, w, FALSE)
                    ELSE MapWindows(t, w, TRUE)
    <2>1. t \in G /\ w \in t.qvwmList
      BY <1>3, <1>6
    <2>2. LET r == CaptureResult(s, w, junk, pointer)
          IN  \/ w \in CloseSoon /\ r = DeleteQvwm(t, w)
              \/ r \in {[u EXCEPT !.unmapList = InsertTail(@, w)], SetFocus(u, w), u}
      BY Zenon DEF CaptureResult
    <2>3. u \in {MinimizeWindow(t, w, FALSE, pointer), MaximizeWindow(t, w, FALSE),
                 RestoreWindow(t, w, FALSE), MapWindows(t, w, TRUE)}
      BY Zenon
    <2> HIDE DEF t, u
    <2> QED
      BY <1>4, <2>1, <2>2, <2>3
  <1>7. ASSUME NEW s \in G, NEW w \in Window PROVE MapNotifyResult(s, w) \in G
    <2> DEFINE t == IF Minimized(s, w) THEN RestoreWindow(s, w, FALSE) ELSE MapWindows(s, w, TRUE)
    <2>1. MapNotifyResult(s, w) \in {s, SetFocus(t, w), t}
      BY Zenon DEF MapNotifyResult
    <2>2. t \in G
      BY <1>1, ShowLives, MappingLives
    <2> HIDE DEF t
    <2> QED
      BY <1>1, <2>1, <2>2, ShowLives
  <1>8. ASSUME NEW s \in G, NEW w \in Window, NEW pointer \in Qvwm, w \in s.qvwmList \cap D
        PROVE  DestroyQvwm(s, w, pointer) \in G
    <2> DEFINE t == IF w = s.focusQvwm THEN YieldFocus(s, w) ELSE s
               u == UnmapWindows(t, w, TRUE)
               v == [u EXCEPT !.unmapList = Remove(@, w), !.mapList = Remove(@, w)]
               d == DeleteQvwm(v, w)
    <2>1. DestroyQvwm(s, w, pointer) \in {ChangeFocusToCursor(d, pointer), d}
      BY Zenon DEF DestroyQvwm
    <2>2. t \in G /\ t.qvwmList = s.qvwmList
      BY <1>1, <1>8, HideLives, YieldFocusManaged
    <2> HIDE DEF t
    <2>3. u \in G /\ u.qvwmList = t.qvwmList
      BY <1>1, <1>8, <2>2, MappingLives, MappingManaged
    <2> HIDE DEF u
    <2>4. v \in G /\ v.qvwmList = u.qvwmList
      <3>1. u.unmapList \in Seq(Window) /\ u.mapList \in Seq(Window)
        BY <1>1, <2>3 DEF State
      <3>2. Remove(u.unmapList, w) \in Seq(Window) /\ Remove(u.mapList, w) \in Seq(Window)
        BY <3>1, ListTypes
      <3>3. SameLife(u, v)
        BY <1>1, <2>3, <3>2, AssignLife
      <3> QED
        BY <2>3, <3>3 DEF Lives, SameLife
    <2> HIDE DEF v
    <2>5. d \in G
      BY <1>8, <2>2, <2>3, <2>4 DEF Begets
    <2> HIDE DEF d
    <2> QED
      BY <2>1, <2>5, ShowLives
  <1> QED
    BY <1>5, <1>6, <1>7, <1>8 DEF Born
-----------------------------------------------------------------------------
(* Agreement with the server *)

\* The managed windows that qvwm has mapped and the server has not.
Odd(s) == {w \in s.qvwmList : s.mapped[w] /\ ~s.xmapped[w]}

\* No window is managed but those of L, and none is odd but those of D.
Agreed(L, D) == {s \in State : s.qvwmList \subseteq L /\ Odd(s) \subseteq D}

\* qvwm maps and unmaps a window at the server and in its books at once, and a new
\* window is unmapped: no function makes one odd.
LEMMA AgreedLives ==
    ASSUME NEW L \in SUBSET Window, NEW D, alive \subseteq L
    PROVE  Lives(Agreed(L, D)) /\ Begets(Agreed(L, D), Window)
  <1> DEFINE G == Agreed(L, D)
  <1>1. \A s \in G : s \in State /\ s.qvwmList \subseteq L /\ Odd(s) \subseteq D
    BY DEF Agreed
  <1>2. \A s \in G : \A t : SameLife(s, t) => t \in G
    BY DEF Agreed, SameLife, Odd
  <1>3. ASSUME NEW s \in G, NEW w \in Window, NEW b \in BOOLEAN
        PROVE  MapWindow(s, w, b) \in G /\ UnmapWindow(s, w, b) \in G
    <2> DEFINE m == MapWindow(s, w, b)
               u == UnmapWindow(s, w, b)
    <2>1. m \in State /\ u \in State
      BY <1>1, PointerType, MapWindowType, UnmapWindowType
    <2>2. PICK R : /\ m.qvwmList = s.qvwmList /\ u.qvwmList = s.qvwmList
                   /\ m.mapped = [x \in Qvwm |-> x \in R \/ s.mapped[x]]
                   /\ m.xmapped = [x \in Window |-> x \in R \/ s.xmapped[x]]
                   /\ u.mapped = [x \in Qvwm |-> x \notin R /\ s.mapped[x]]
                   /\ u.xmapped = [x \in Window |-> x \notin R /\ s.xmapped[x]]
      BY <1>1 DEF MapWindow, UnmapWindow, State
    <2>3. s.qvwmList \subseteq Window /\ Window \subseteq Qvwm
      BY <1>1, PointerType DEF State
    <2> HIDE DEF m, u
    <2>4. Odd(m) \subseteq Odd(s) /\ Odd(u) \subseteq Odd(s)
      BY <2>2, <2>3 DEF Odd
    <2> QED
      BY <1>1, <2>1, <2>2, <2>4 DEF Agreed, m, u
  <1>4. ASSUME NEW s \in G, NEW w \in Window, NEW junk \in BOOLEAN, w \in alive \ s.qvwmList
        PROVE  NewQvwm(s, w, junk) \in G
    <2> DEFINE t == NewQvwm(s, w, junk)
    <2>1. t \in State
      BY <1>1, NewQvwmType
    <2>2. /\ t.qvwmList = s.qvwmList \cup {w} /\ t.xmapped = s.xmapped
          /\ t.mapped = [s.mapped EXCEPT ![w] = FALSE]
      BY <1>1 DEF NewQvwm, State
    <2>3. s.mapped \in [Qvwm -> BOOLEAN] /\ Window \subseteq Qvwm
      BY <1>1, PointerType DEF State
    <2> HIDE DEF t
    <2>4. Odd(t) \subseteq Odd(s)
      BY <2>2, <2>3 DEF Odd
    <2>5. t \in G
      BY <1>1, <1>4, <2>1, <2>2, <2>4 DEF Agreed
    <2> QED
      BY <2>5 DEF t
  <1>5. ASSUME NEW s \in G, NEW w \in Window
        PROVE  DeleteQvwm(s, w) \in G
    <2> DEFINE t == DeleteQvwm(s, w)
    <2>1. t \in State
      BY <1>1, DeleteQvwmType
    <2>2. /\ t.qvwmList = s.qvwmList \ {w} /\ t.xmapped = s.xmapped
          /\ t.mapped = [s.mapped EXCEPT ![w] = FALSE]
      BY <1>1 DEF DeleteQvwm, State
    <2>3. s.mapped \in [Qvwm -> BOOLEAN] /\ Window \subseteq Qvwm
      BY <1>1, PointerType DEF State
    <2> HIDE DEF t
    <2>4. Odd(t) \subseteq Odd(s)
      BY <2>2, <2>3 DEF Odd
    <2>5. t \in G
      BY <1>1, <1>5, <2>1, <2>2, <2>4 DEF Agreed
    <2> QED
      BY <2>5 DEF t
  <1>6. Lives(G)
    BY <1>2, <1>3 DEF Lives
  <1>7. Begets(G, Window)
    BY <1>4, <1>5 DEF Begets
  <1> QED
    BY <1>6, <1>7

\* DestroyQvwm unmanages its window, and no other.
LEMMA DestroyManaged ==
    ASSUME NEW s \in State, NEW w \in Window, NEW pointer \in Qvwm
    PROVE  DestroyQvwm(s, w, pointer).qvwmList = s.qvwmList \ {w}
  <1> DEFINE t == IF w = s.focusQvwm THEN YieldFocus(s, w) ELSE s
             u == UnmapWindows(t, w, TRUE)
             v == [u EXCEPT !.unmapList = Remove(@, w), !.mapList = Remove(@, w)]
             d == DeleteQvwm(v, w)
  <1>1. DestroyQvwm(s, w, pointer) \in {ChangeFocusToCursor(d, pointer), d}
    BY Zenon DEF DestroyQvwm
  <1>2. t \in State /\ t.qvwmList = s.qvwmList
    BY YieldFocusManaged
  <1> HIDE DEF t
  <1>3. u \in State /\ u.qvwmList = t.qvwmList
    BY <1>2, UnmapWindowsType, MappingManaged
  <1> HIDE DEF u
  <1>4. v \in State /\ v.qvwmList = u.qvwmList
    <2>1. u.unmapList \in Seq(Window) /\ u.mapList \in Seq(Window)
      BY <1>3 DEF State
    <2>2. Remove(u.unmapList, w) \in Seq(Window) /\ Remove(u.mapList, w) \in Seq(Window)
      BY <2>1, ListTypes
    <2>3. SameLife(u, v)
      BY <1>3, <2>2, PointerType, AssignLife
    <2> QED
      BY <2>3 DEF SameLife
  <1> HIDE DEF v
  <1>5. d \in State /\ d.qvwmList = v.qvwmList \ {w}
    <2>1. d.qvwmList = v.qvwmList \ {w}
      BY <1>4 DEF DeleteQvwm, State
    <2> QED
      BY <1>4, <2>1, DeleteQvwmType
  <1> HIDE DEF d
  <1>6. ChangeFocusToCursor(d, pointer).qvwmList = d.qvwmList
    BY <1>5, PointerType, SetFocusManaged DEF ChangeFocusToCursor
  <1> QED
    BY <1>1, <1>2, <1>3, <1>4, <1>5, <1>6

\* No handler makes a window odd, or manages one that is gone.
LEMMA AgreedLead ==
    ASSUME NEW L \in SUBSET Window, NEW D, alive \subseteq L
    PROVE  Leads(Agreed(L, D), Agreed(L, D))
  <1> DEFINE G == Agreed(L, D)
  <1>1. \A E : /\ Agreed(L, E) \in SUBSET State
              /\ Lives(Agreed(L, E)) /\ Begets(Agreed(L, E), Window)
    BY AgreedLives DEF Agreed
  <1>4. CloseSoon \subseteq Window
    BY SettingsType
  <1>2. /\ Shown(G) /\ Rolled(G) /\ Flagged(G) /\ Hidden(G, G) /\ Born(G, G)
        /\ \A s \in G : [s EXCEPT !.frames = {}] \in G
    BY <1>1, <1>4, LivesLead, LivesBear
  <1>3. Dead(G, G)
    <2> SUFFICES ASSUME NEW s \in G, NEW w \in Window, NEW pointer \in Qvwm, w \in s.qvwmList
                 PROVE  /\ DestroyQvwm(s, w, pointer) \in G
                        /\ DestroyQvwm([s EXCEPT !.xmapped[w] = FALSE], w, pointer) \in G
                        /\ DeleteQvwm(s, w) \in G
      BY Zenon DEF Dead
    <2>1. DestroyQvwm(s, w, pointer) \in G
      BY <1>1, <1>4, LivesBear
    <2>2. DeleteQvwm(s, w) \in G
      BY <1>1 DEF Begets
    <2> DEFINE t == [s EXCEPT !.xmapped[w] = FALSE]
               d == DestroyQvwm(t, w, pointer)
               E == D \cup {w}
    <2>3. s \in State /\ s.qvwmList \subseteq L /\ Odd(s) \subseteq D
      BY DEF Agreed
    <2>4. t \in State /\ t.qvwmList = s.qvwmList /\ t.mapped = s.mapped
          /\ t.xmapped = [s.xmapped EXCEPT ![w] = FALSE]
      BY <2>3 DEF State
    <2> HIDE DEF t
    <2>5. Odd(t) \subseteq E
      BY <2>3, <2>4 DEF Odd, State
    <2>6. t \in Agreed(L, E)
      BY <2>3, <2>4, <2>5 DEF Agreed
    <2>7. d \in Agreed(L, E)
      BY <1>1, <1>4, <2>4, <2>6, LivesBear
    <2>8. d.qvwmList = s.qvwmList \ {w}
      BY <2>4, DestroyManaged
    <2> HIDE DEF d
    <2>9. d \in State /\ d.qvwmList \subseteq L /\ Odd(d) \subseteq D
      BY <2>7, <2>8 DEF Agreed, Odd
    <2>10. d \in G
      BY <2>9 DEF Agreed
    <2> QED
      BY <2>1, <2>2, <2>10 DEF t, d
  <1> QED
    BY <1>2, <1>3 DEF Leads

\* A handler leaves every event in the queue but the one it handles.
LEMMA PendingKept ==
    ASSUME TypeInv, NEW type, NEW w, Pending(type, w),
           (DispatchStep /\ Added(Tail(queue))) \/ (~DispatchStep /\ Added(queue))
    PROVE  Pending(type, w)' \/ (DispatchStep /\ Head(queue) = XEvent(type, w))
  <1>1. queue \in Seq(Event)
    BY DEF TypeInv
  <1>2. PICK i \in DOMAIN queue : queue[i] = XEvent(type, w)
    BY DEF Pending
  <1>3. ASSUME NEW q \in Seq(Event), Added(q), NEW j \in DOMAIN q, q[j] = XEvent(type, w)
        PROVE  Pending(type, w)'
    <2>1. PICK r \in Seq(Event) : queue' = q \o r
      BY <1>3 DEF Added, Echo
    <2>2. j \in DOMAIN (q \o r) /\ (q \o r)[j] = q[j]
      BY ConcatItems
    <2> QED
      BY <1>3, <2>1, <2>2 DEF Pending, XEvent
  <1>4. CASE ~DispatchStep
    BY <1>1, <1>2, <1>3, <1>4
  <1>5. CASE DispatchStep
    <2>1. queue # <<>>
      BY <1>1, <1>2, LenProperties, EmptySeq
    <2>2. /\ Tail(queue) \in Seq(Event) /\ Head(queue) = queue[1]
          /\ Len(Tail(queue)) = Len(queue) - 1
          /\ \A k \in 1..Len(Tail(queue)) : Tail(queue)[k] = queue[k + 1]
      BY <1>1, <2>1, HeadTailProperties
    <2>3. Len(queue) \in Nat /\ DOMAIN queue = 1..Len(queue)
          /\ DOMAIN Tail(queue) = 1..Len(Tail(queue))
      BY <1>1, <2>2, LenProperties
    <2>4. CASE i = 1
      BY <1>2, <1>5, <2>2, <2>4
    <2>5. CASE i # 1
      <3>1. i - 1 \in DOMAIN Tail(queue) /\ Tail(queue)[i - 1] = queue[i]
        BY <2>2, <2>3, <2>5
      <3> QED
        BY <1>2, <1>3, <1>5, <2>2, <3>1
    <2> QED
      BY <2>4, <2>5
  <1> QED
    BY <1>4, <1>5

\* UnmapNotifyProc and DestroyNotifyProc leave the window unmanaged.
LEMMA WithdrawnWindow ==
    ASSUME TypeInv, DispatchStep, NEW w \in Window,
           Head(queue) \in {XEvent("UnmapNotify", w), XEvent("DestroyNotify", w)}
    PROVE  w \notin wm'.qvwmList
  <1>1. wm \in State /\ Pointer \subseteq Qvwm /\ EventWindow = w
        /\ Head(queue).type \in {"UnmapNotify", "DestroyNotify"}
    BY PointerType DEF TypeInv, EventWindow, XEvent
  <1>2. ASSUME NEW s \in State, NEW q, Leave(s, q), w \notin s.qvwmList
        PROVE  w \notin wm'.qvwmList
    <2>1. wm'.qvwmList = s.qvwmList
      BY <1>2 DEF Leave, State
    <2> QED
      BY <1>2, <2>1
  <1>3. ASSUME NEW s \in State, NEW p \in Pointer
        PROVE  DestroyQvwm(s, w, p) \in State /\ w \notin DestroyQvwm(s, w, p).qvwmList
    BY <1>1, DestroyQvwmType, DestroyManaged
  <1>4. CASE UnmapNotifyProc
    <2> DEFINE t == [wm EXCEPT !.xmapped[w] = FALSE]
               r(p) == IF w \in wm.qvwmList THEN DestroyQvwm(t, w, p) ELSE wm
    <2>1. PICK p \in Pointer : \E q : Leave(r(p), q)
      BY <1>1, <1>4 DEF UnmapNotifyProc
    <2>2. t \in State
      BY <1>1 DEF State
    <2>3. r(p) \in State /\ w \notin r(p).qvwmList
      BY <1>1, <1>3, <2>2
    <2> HIDE DEF r
    <2> QED
      BY <1>2, <2>1, <2>3
  <1>5. CASE DestroyNotifyProc
    <2> DEFINE r(p) == IF w \in wm.qvwmList THEN DestroyQvwm(wm, w, p) ELSE wm
    <2>1. PICK p \in Pointer : \E q : Leave(r(p), q)
      BY <1>1, <1>5 DEF DestroyNotifyProc
    <2>2. r(p) \in State /\ w \notin r(p).qvwmList
      BY <1>1, <1>3
    <2> HIDE DEF r
    <2> QED
      BY <1>2, <2>1, <2>2
  <1> QED
    BY <1>1, <1>4, <1>5 DEF DispatchStep, MapRequestProc, MapNotifyOverrideProc, MapNotifyProc,
       ClientMessageProc, ClientMessage, Dispatch

\* A handler settles what it finds, and unsettles nothing.
LEMMA AgreementHandled ==
    ASSUME TypeInv, LoopInv, ServerAgreement, Next, ~ClientStep
    PROVE  ServerAgreement'
  <1> DEFINE L == wm.qvwmList \cup alive
             D == Odd(wm)
  <1>1. wm \in State /\ alive \subseteq Window /\ wm.qvwmList \subseteq Window
    BY DEF TypeInv, State
  <1>2. /\ wm' \in Agreed(L, D) /\ alive' = alive
        /\ (DispatchStep /\ Added(Tail(queue))) \/ (~DispatchStep /\ Added(queue))
    <2>1. Leads(Agreed(L, D), Agreed(L, D))
      BY <1>1, AgreedLead
    <2>2. wm \in Agreed(L, D) /\ Agreed(L, D) \in SUBSET State
      BY <1>1 DEF Agreed
    <2> HIDE DEF L, D
    <2> QED
      BY <2>1, <2>2, HandlersLead, LoopKept
  <1>3. \A type \in {"UnmapNotify", "DestroyNotify"}, w \in Window :
          Pending(type, w) /\ w \in wm'.qvwmList => Pending(type, w)'
    BY <1>2, PendingKept, WithdrawnWindow
  <1>4. wm'.qvwmList \subseteq L /\ Odd(wm') \subseteq D
    BY <1>2 DEF Agreed
  <1> SUFFICES ASSUME NEW w \in wm'.qvwmList
               PROVE  /\ w \notin alive => Pending("DestroyNotify", w)'
                      /\ w \in alive /\ wm'.mapped[w] /\ ~wm'.xmapped[w]
                           => Pending("UnmapNotify", w)'
    BY <1>2, Zenon DEF ServerAgreement, CheckMapped
  <1>5. w \in Window
    BY <1>1, <1>4
  <1>6. w \notin alive => Pending("DestroyNotify", w)'
    BY <1>3, <1>4, <1>5 DEF ServerAgreement
  <1>7. w \in alive /\ wm'.mapped[w] /\ ~wm'.xmapped[w] => Pending("UnmapNotify", w)'
    <2> HAVE w \in alive /\ wm'.mapped[w] /\ ~wm'.xmapped[w]
    <2>1. w \in Odd(wm)
      BY <1>4 DEF Odd
    <2> QED
      BY <1>3, <1>5, <2>1 DEF ServerAgreement, Odd, CheckMapped
  <1> QED
    BY <1>6, <1>7

\* What a client unmaps or destroys is reported.
LEMMA AgreementOfClients ==
    ASSUME TypeInv, ServerAgreement, ClientStep
    PROVE  ServerAgreement'
  <1> PICK w \in Window :
        \/ ClientMap(w) \/ ClientMapOverride(w) \/ ClientUnmap(w) \/ ClientDestroy(w)
        \/ \E message \in ClientMessage : ClientSendsMessage(w, message)
    BY DEF ClientStep
  <1>1. wm \in State /\ queue \in Seq(Event) /\ wm.qvwmList \subseteq Window
    BY DEF TypeInv, State
  <1>2. \A type \in EventType : XEvent(type, w) \in Event
    BY DEF XEvent, Event
  <1>3. ASSUME NEW r \in Seq(Event), queue' = queue \o r
        PROVE  /\ \A type, x : Pending(type, x) => Pending(type, x)'
               /\ \A type : \A j \in DOMAIN r : r[j] = XEvent(type, w) => Pending(type, w)'
    <2>1. /\ \A i \in DOMAIN queue : i \in DOMAIN (queue \o r) /\ (queue \o r)[i] = queue[i]
          /\ Len(queue \o r) = Len(queue) + Len(r)
          /\ \A i \in 1..(Len(queue) + Len(r)) :
               (queue \o r)[i] = IF i <= Len(queue) THEN queue[i] ELSE r[i - Len(queue)]
      BY <1>1, ConcatItems, ConcatProperties
    <2>2. Len(queue) \in Nat /\ Len(r) \in Nat /\ DOMAIN r = 1..Len(r)
          /\ DOMAIN (queue \o r) = 1..(Len(queue) + Len(r))
      <3>1. queue \o r \in Seq(Event)
        BY <1>1, ConcatProperties
      <3> QED
        BY <1>1, <2>1, <3>1, LenProperties
    <2>3. ASSUME NEW type, NEW x, Pending(type, x) PROVE Pending(type, x)'
      BY <1>3, <2>1, <2>3 DEF Pending, XEvent
    <2>4. ASSUME NEW type, NEW j \in DOMAIN r, r[j] = XEvent(type, w) PROVE Pending(type, w)'
      <3>1. j + Len(queue) \in DOMAIN (queue \o r) /\ (queue \o r)[j + Len(queue)] = r[j]
        BY <2>1, <2>2
      <3> QED
        BY <1>3, <2>4, <3>1 DEF Pending, XEvent
    <2> QED
      BY <2>3, <2>4
  <1>4. ASSUME NEW r \in Seq(Event), queue' = queue \o r, alive' = alive \ {w} \/ alive' = alive,
               wm' = wm \/ \E b \in BOOLEAN : wm' = [wm EXCEPT !.xmapped[w] = b],
               w \in wm.qvwmList /\ w \notin alive' /\ w \in alive =>
                 \E j \in DOMAIN r : r[j] = XEvent("DestroyNotify", w),
               w \in wm.qvwmList /\ w \in alive' /\ ~wm'.xmapped[w] /\ wm.xmapped[w] =>
                 \E j \in DOMAIN r : r[j] = XEvent("UnmapNotify", w)
        PROVE  ServerAgreement'
    <2>1. /\ wm'.qvwmList = wm.qvwmList /\ wm'.mapped = wm.mapped
          /\ \A x \in Window \ {w} : wm'.xmapped[x] = wm.xmapped[x]
      BY <1>1, <1>4 DEF State
    <2> SUFFICES ASSUME NEW x \in wm.qvwmList
                 PROVE  /\ x \notin alive' => Pending("DestroyNotify", x)'
                        /\ x \in alive' /\ wm'.mapped[x] /\ ~wm'.xmapped[x]
                             => Pending("UnmapNotify", x)'
      BY <2>1, Zenon DEF ServerAgreement, CheckMapped
    <2>2. x \in Window
      BY <1>1
    <2>3. x \notin alive' => Pending("DestroyNotify", x)'
      BY <1>3, <1>4 DEF ServerAgreement
    <2>4. ASSUME x \in alive', wm'.mapped[x], ~wm'.xmapped[x] PROVE Pending("UnmapNotify", x)'
      <3>1. CASE wm.xmapped[x]
        BY <1>3, <1>4, <2>1, <2>2, <2>4, <3>1
      <3>2. CASE ~wm.xmapped[x]
        BY <1>3, <1>4, <2>1, <2>4, <3>2 DEF ServerAgreement, CheckMapped
      <3> QED
        BY <3>1, <3>2
    <2> QED
      BY <2>3, <2>4
  <1>5. \A e \in Event : <<e>> \in Seq(Event) /\ Append(queue, e) = queue \o <<e>>
                         /\ 1 \in DOMAIN <<e>> /\ <<e>>[1] = e
    BY <1>1
  <1>6. <<>> \in Seq(Event) /\ queue \o <<>> = queue
    BY <1>1, EmptySeq, ConcatEmptySeq
  <1>7. CASE ClientMap(w)
    <2>1. XEvent("MapRequest", w) \in Event
      BY <1>2 DEF EventType
    <2>2. queue' = queue \o <<XEvent("MapRequest", w)>> /\ wm' = wm /\ alive' = alive
      BY <1>5, <1>7, <2>1 DEF ClientMap
    <2> QED
      BY <1>4, <1>5, <2>1, <2>2
  <1>8. CASE ClientMapOverride(w)
    <2>1. XEvent("MapNotifyOverride", w) \in Event
      BY <1>2 DEF EventType
    <2>2. /\ queue' = queue \o <<XEvent("MapNotifyOverride", w)>> /\ alive' = alive
          /\ wm' = [wm EXCEPT !.xmapped[w] = TRUE]
      BY <1>5, <1>8, <2>1 DEF ClientMapOverride
    <2>3. wm'.xmapped[w]
      BY <1>1, <2>2 DEF State
    <2> QED
      BY <1>4, <1>5, <2>1, <2>2, <2>3
  <1>9. CASE ClientUnmap(w)
    <2>1. XEvent("UnmapNotify", w) \in Event
      BY <1>2 DEF EventType
    <2>2. /\ w \in wm.qvwmList => queue' = queue \o <<XEvent("UnmapNotify", w)>>
          /\ w \notin wm.qvwmList => queue' = queue \o <<>>
          /\ alive' = alive /\ wm' = [wm EXCEPT !.xmapped[w] = FALSE]
      BY <1>5, <1>6, <1>9, <2>1 DEF ClientUnmap
    <2> QED
      BY <1>4, <1>5, <1>6, <2>1, <2>2
  <1>10. CASE ClientDestroy(w)
    <2> DEFINE unmap == IF wm.xmapped[w] THEN <<XEvent("UnmapNotify", w)>> ELSE <<>>
               sent == IF w \in wm.qvwmList THEN Append(unmap, XEvent("DestroyNotify", w))
                       ELSE <<>>
    <2>1. XEvent("UnmapNotify", w) \in Event /\ XEvent("DestroyNotify", w) \in Event
      BY <1>2 DEF EventType
    <2>2. unmap \in Seq(Event)
      BY <2>1
    <2> HIDE DEF unmap
    <2>3. /\ sent \in Seq(Event)
          /\ w \in wm.qvwmList => \E j \in DOMAIN sent : sent[j] = XEvent("DestroyNotify", w)
      <3>1. LET q == Append(unmap, XEvent("DestroyNotify", w))
            IN  q \in Seq(Event) /\ Len(unmap) + 1 \in DOMAIN q
                /\ q[Len(unmap) + 1] = XEvent("DestroyNotify", w)
        BY <2>1, <2>2
      <3> QED
        BY <1>6, <3>1
    <2>4. /\ queue' = queue \o sent /\ wm' = [wm EXCEPT !.xmapped[w] = FALSE]
          /\ alive' = alive \ {w}
      BY <1>10, Zenon DEF ClientDestroy, unmap
    <2> HIDE DEF sent
    <2> QED
      BY <1>4, <2>3, <2>4
  <1>11. ASSUME NEW message \in ClientMessage, ClientSendsMessage(w, message)
         PROVE  ServerAgreement'
    <2>1. XEvent(message, w) \in Event
      BY <1>2 DEF EventType, ClientMessage
    <2>2. queue' = queue \o <<XEvent(message, w)>> /\ wm' = wm /\ alive' = alive
      BY <1>5, <1>11, <2>1 DEF ClientSendsMessage
    <2> QED
      BY <1>4, <1>5, <2>1, <2>2
  <1> QED
    BY <1>7, <1>8, <1>9, <1>10, <1>11

\* Whatever clients do behind its back, and however late qvwm reads of it: a window
\* it still keeps is alive, and mapped at the server if qvwm has it mapped, or the
\* notice that will withdraw it is in the queue.
THEOREM AgreementCorrect == Spec => []ServerAgreement
  <1>1. Init => ServerAgreement
    BY DEF Init, InitState, ServerAgreement
  <1>2. ASSUME TypeInv, LoopInv, ServerAgreement, [Next]_vars PROVE ServerAgreement'
    <2>1. CASE UNCHANGED vars
      BY <1>2, <2>1 DEF vars, ServerAgreement, Pending, CheckMapped
    <2> QED
      BY <1>2, <2>1, AgreementHandled, AgreementOfClients
  <1> QED
    BY <1>1, <1>2, TypeCorrect, PTL DEF Spec
-----------------------------------------------------------------------------
(* The windows MapWindow and UnmapWindow reach *)

\* trList leads to managed transients of its window.
Tidy == {s \in State : \A x \in Qvwm :
            s.trList[x] \subseteq {y \in s.qvwmList : IsTransient(y) /\ s.qvMain[y] = x}}

\* Birth and death keep the lists of transients true.
LEMMA TidyBegets == Lives(Tidy) /\ Begets(Tidy, Window)
  <1>1. \A s \in Tidy : s \in State
    BY DEF Tidy
  <1>2. \A s \in Tidy : \A t : SameLife(s, t) => t \in Tidy
    BY DEF Tidy, SameLife
  <1>3. ASSUME NEW s \in Tidy, NEW w \in Window, NEW b \in BOOLEAN
        PROVE  MapWindow(s, w, b) \in Tidy /\ UnmapWindow(s, w, b) \in Tidy
    <2> DEFINE m == MapWindow(s, w, b)
               u == UnmapWindow(s, w, b)
    <2>1. m \in State /\ u \in State
      BY <1>1, PointerType, MapWindowType, UnmapWindowType
    <2>2. /\ m.qvwmList = s.qvwmList /\ m.qvMain = s.qvMain /\ m.trList = s.trList
          /\ u.qvwmList = s.qvwmList /\ u.qvMain = s.qvMain /\ u.trList = s.trList
      BY <1>1 DEF MapWindow, UnmapWindow, State
    <2> HIDE DEF m, u
    <2>3. m \in Tidy /\ u \in Tidy
      BY <2>1, <2>2 DEF Tidy
    <2> QED
      BY <2>3 DEF m, u
  <1>4. ASSUME NEW s \in Tidy, NEW w \in Window, NEW junk \in BOOLEAN, w \notin s.qvwmList
        PROVE  NewQvwm(s, w, junk) \in Tidy
    <2> DEFINE t == NewQvwm(s, w, junk)
               leader == IF TransientFor[w] \in s.qvwmList \cup {Root} THEN TransientFor[w] ELSE NULL
               orphans == {x \in s.qvwmList :
                              IsTransient(x) /\ s.qvMain[x] = NULL /\ TransientFor[x] = w}
    <2>1. t \in State
      BY <1>1, NewQvwmType
    <2>2. /\ t.qvwmList = s.qvwmList \cup {w}
          /\ t.qvMain = [x \in Qvwm |-> IF x = w THEN leader
                                        ELSE IF x \in orphans THEN w ELSE s.qvMain[x]]
          /\ t.trList = [x \in Qvwm |-> (IF x = w THEN orphans ELSE s.trList[x])
                                        \cup (IF x = leader THEN {w} ELSE {})]
      BY <1>1 DEF NewQvwm, State
    <2>3. /\ leader # NULL => leader = TransientFor[w] /\ leader \in s.qvwmList \cup {Root}
          /\ w \in Qvwm /\ w # Root /\ NULL \notin Qvwm
      BY RootIsNoWindow DEF Qvwm
    <2>4. /\ s.qvwmList \subseteq Qvwm
          /\ \A x \in Qvwm : \A y \in s.trList[x] :
               y \in s.qvwmList /\ IsTransient(y) /\ s.qvMain[y] = x
      BY <1>1, PointerType DEF Tidy, State
    <2>5. leader # w /\ (leader \in Qvwm => IsTransient(w))
      BY <1>4, <2>3 DEF IsTransient
    <2>6. \A y \in orphans : y \in s.qvwmList /\ IsTransient(y) /\ s.qvMain[y] = NULL
      OBVIOUS
    <2> HIDE DEF t, leader, orphans
    <2>7. ASSUME NEW x \in Qvwm, NEW y \in t.trList[x]
          PROVE  y \in t.qvwmList /\ IsTransient(y) /\ t.qvMain[y] = x
      <3>1. y \in (IF x = w THEN orphans ELSE s.trList[x]) \/ (x = leader /\ y = w)
        BY <2>2, <2>7
      <3>2. CASE x = leader /\ y = w
        BY <2>2, <2>3, <2>5, <3>2
      <3>3. CASE x = w /\ y \in orphans
        BY <1>4, <2>2, <2>4, <2>6, <3>3
      <3>4. CASE x # w /\ y \in s.trList[x]
        <4>1. y # w /\ y \notin orphans
          BY <1>4, <2>3, <2>4, <2>6, <3>4
        <4> QED
          BY <2>2, <2>4, <3>4, <4>1
      <3> QED
        BY <3>1, <3>2, <3>3, <3>4
    <2>8. t \in Tidy
      BY <2>1, <2>7 DEF Tidy
    <2> QED
      BY <2>8 DEF t
  <1>5. ASSUME NEW s \in Tidy, NEW w \in Window
        PROVE  DeleteQvwm(s, w) \in Tidy
    <2> DEFINE t == DeleteQvwm(s, w)
               leader == s.qvMain[w]
               linked == IsTransient(w) /\ leader # NULL
    <2>1. t \in State
      BY <1>1, DeleteQvwmType
    <2>2. /\ t.qvwmList = s.qvwmList \ {w}
          /\ t.qvMain = [x \in Qvwm |->
                           IF x = w \/ (~linked /\ x \in s.trList[w]) THEN NULL ELSE s.qvMain[x]]
          /\ t.trList = [x \in Qvwm |->
                           IF x = w THEN {} ELSE IF linked /\ x = leader THEN s.trList[x] \ {w}
                           ELSE s.trList[x]]
      BY <1>1 DEF DeleteQvwm, State
    <2>3. w \in Qvwm /\ NULL \notin Qvwm /\ s.qvwmList \subseteq Qvwm
      BY <1>1, RootIsNoWindow DEF Qvwm, State
    <2>4. \A x \in Qvwm : \A y \in s.trList[x] :
            y \in s.qvwmList /\ IsTransient(y) /\ s.qvMain[y] = x
      BY <1>1 DEF Tidy
    <2> HIDE DEF t
    <2>5. ASSUME NEW x \in Qvwm, NEW y \in t.trList[x]
          PROVE  y \in t.qvwmList /\ IsTransient(y) /\ t.qvMain[y] = x
      <3>1. x # w /\ y \in s.trList[x]
        BY <2>2, <2>5
      <3>2. y # w
        BY <2>2, <2>3, <2>4, <2>5, <3>1
      <3>3. y \notin s.trList[w]
        BY <2>3, <2>4, <3>1
      <3> QED
        BY <2>2, <2>3, <2>4, <3>1, <3>2, <3>3
    <2>6. t \in Tidy
      BY <2>1, <2>5 DEF Tidy
    <2> QED
      BY <2>6 DEF t
  <1> QED
    BY <1>2, <1>3, <1>4, <1>5 DEF Lives, Begets

\* MapWindow and UnmapWindow reach managed windows alone.
LEMMA ReachedManaged ==
    ASSUME NEW s \in Tidy, NEW w \in s.qvwmList, NEW b \in BOOLEAN
    PROVE  Reached(s, w, b) \subseteq s.qvwmList
  <1> DEFINE C == s.qvwmList \cap Transients
  <1>1. s.qvwmList \subseteq Window /\ Window \subseteq Qvwm
    BY PointerType DEF Tidy, State
  <1>2. \A y \in {w} \cup C : \A t \in s.trList[y] : t \in C
    BY <1>1 DEF Tidy, Transients
  <1>3. C \in SUBSET Transients
    OBVIOUS
  <1>4. \A x \in Cascade(s, w) : x = w \/ x \in C
    BY <1>2, <1>3 DEF Cascade
  <1> QED
    BY <1>4 DEF Reached
-----------------------------------------------------------------------------
(* Transients and their main windows *)

\* What qvMain of a managed window is to be.
MainOf(s, w) ==
    IF IsTransient(w) /\ TransientFor[w] \in s.qvwmList \cup {Root} THEN TransientFor[w] ELSE NULL

\* The states whose links are true.
Linked == {s \in State : \A w \in s.qvwmList :
              s.qvMain[w] = MainOf(s, w) /\ s.trList[w] = {x \in s.qvwmList : s.qvMain[x] = w}}

\* No window is transient for a transient: the destructor of Qvwm forgets either
\* the main window of the Qvwm or its transients.
NoNested == \A w \in Window : TransientFor[w] \in Window => TransientFor[TransientFor[w]] = NULL

\* A new window finds its main window and is found by its transients.
LEMMA NewQvwmLinked ==
    ASSUME NEW s \in Linked, NEW w \in Window \ s.qvwmList, NEW junk \in BOOLEAN
    PROVE  NewQvwm(s, w, junk) \in Linked
  <1> DEFINE leader == IF TransientFor[w] \in s.qvwmList \cup {Root} THEN TransientFor[w] ELSE NULL
             orphans == {x \in s.qvwmList :
                            IsTransient(x) /\ s.qvMain[x] = NULL /\ TransientFor[x] = w}
             t == NewQvwm(s, w, junk)
  <1>1. s \in State /\ s.qvwmList \subseteq Window /\ Window \subseteq Qvwm
        /\ \A x \in s.qvwmList : /\ s.qvMain[x] = MainOf(s, x)
                                 /\ s.trList[x] = {y \in s.qvwmList : s.qvMain[y] = x}
    BY PointerType DEF Linked, State
  <1>2. t \in State
    BY <1>1, NewQvwmType
  <1>3. /\ t.qvwmList = s.qvwmList \cup {w}
        /\ t.qvMain = [x \in Qvwm |-> IF x = w THEN leader
                                      ELSE IF x \in orphans THEN w ELSE s.qvMain[x]]
        /\ t.trList = [x \in Qvwm |-> (IF x = w THEN orphans ELSE s.trList[x])
                                      \cup (IF x = leader THEN {w} ELSE {})]
    BY <1>1 DEF NewQvwm, State
  <1> HIDE DEF t
  <1>4. Root \notin Window /\ NULL \notin Window /\ NULL # Root /\ w \in Window /\ w \notin s.qvwmList
    BY RootIsNoWindow
  <1>5. leader = MainOf(t, w) /\ leader = MainOf(s, w) /\ leader # w
    <2>1. TransientFor[w] # w
      <3>1. {w} \in SUBSET Window /\ {w} # {}
        OBVIOUS
      <3>2. \E x \in {w} : TransientFor[x] \notin {w}
        BY <3>1, TransientForest, Zenon
      <3> QED
        BY <3>2
    <2> QED
      BY <1>3, <1>4, <2>1 DEF MainOf, IsTransient
  <1>6. ASSUME NEW x \in s.qvwmList
        PROVE  /\ x \in orphans <=> IsTransient(x) /\ TransientFor[x] = w
               /\ x \in orphans => s.qvMain[x] = NULL
               /\ s.qvMain[x] # w
    BY <1>1, <1>4 DEF MainOf
  <1>7. \A x \in s.qvwmList : t.qvMain[x] = MainOf(t, x)
    BY <1>1, <1>3, <1>4, <1>6 DEF MainOf
  <1>8. t.qvMain[w] = MainOf(t, w)
    BY <1>1, <1>3, <1>5
  <1>9. t.trList[w] = {x \in t.qvwmList : t.qvMain[x] = w}
    BY <1>1, <1>3, <1>4, <1>5, <1>6
  <1>10. ASSUME NEW y \in s.qvwmList PROVE t.trList[y] = {x \in t.qvwmList : t.qvMain[x] = y}
    <2>1. t.trList[y] = {x \in s.qvwmList : s.qvMain[x] = y} \cup (IF y = leader THEN {w} ELSE {})
      BY <1>1, <1>3, <1>4
    <2>2. \A x \in s.qvwmList : t.qvMain[x] = y <=> s.qvMain[x] = y
      BY <1>1, <1>3, <1>4, <1>6
    <2>3. t.qvMain[w] = leader
      BY <1>1, <1>3
    <2> QED
      BY <1>3, <1>4, <2>1, <2>2, <2>3
  <1>11. ASSUME NEW y \in t.qvwmList
         PROVE  t.qvMain[y] = MainOf(t, y) /\ t.trList[y] = {x \in t.qvwmList : t.qvMain[x] = y}
    <2>1. y = w \/ y \in s.qvwmList
      BY <1>3
    <2> QED
      BY <1>7, <1>8, <1>9, <1>10, <2>1
  <1>12. t \in Linked
    BY <1>2, <1>11 DEF Linked
  <1> QED
    BY <1>12 DEF t

\* The destructor takes a transient off its main window's list, and the main window
\* from its transients.
LEMMA DeleteQvwmLinked ==
    ASSUME NoNested, NEW s \in Linked, NEW w \in s.qvwmList
    PROVE  DeleteQvwm(s, w) \in Linked
  <1> DEFINE leader == s.qvMain[w]
             linked == IsTransient(w) /\ leader # NULL
             t == DeleteQvwm(s, w)
  <1>1. s \in State /\ s.qvwmList \subseteq Window /\ Window \subseteq Qvwm
        /\ \A x \in s.qvwmList : /\ s.qvMain[x] = MainOf(s, x)
                                 /\ s.trList[x] = {y \in s.qvwmList : s.qvMain[y] = x}
    BY PointerType DEF Linked, State
  <1>2. t \in State
    BY <1>1, DeleteQvwmType
  <1>3. /\ t.qvwmList = s.qvwmList \ {w}
        /\ t.qvMain = [x \in Qvwm |-> IF x = w \/ (~linked /\ x \in s.trList[w]) THEN NULL
                                      ELSE s.qvMain[x]]
        /\ t.trList = [x \in Qvwm |-> IF x = w THEN {}
                                      ELSE IF linked /\ x = leader THEN s.trList[x] \ {w}
                                      ELSE s.trList[x]]
    BY <1>1 DEF DeleteQvwm, State
  <1> HIDE DEF t
  <1>4. Root \notin Window /\ NULL \notin Window /\ NULL # Root /\ w \in Window
    BY <1>1, RootIsNoWindow
  <1>5. ASSUME NEW x \in t.qvwmList
        PROVE  /\ x \in s.trList[w] <=> IsTransient(x) /\ TransientFor[x] = w
               /\ x \in s.trList[w] => ~linked
               /\ x \in s.trList[w] <=> s.qvMain[x] = w
    <2>1. x \in s.qvwmList /\ x \in Window /\ x # w
      BY <1>1, <1>3
    <2>2. x \in s.trList[w] <=> IsTransient(x) /\ TransientFor[x] = w
      BY <1>1, <1>4, <2>1 DEF MainOf
    <2>3. TransientFor[x] = w => ~IsTransient(w)
      BY <1>4, <2>1 DEF NoNested, IsTransient
    <2> QED
      BY <1>1, <2>1, <2>2, <2>3
  <1>6. \A x \in t.qvwmList : t.qvMain[x] = MainOf(t, x)
    <2> TAKE x \in t.qvwmList
    <2>1. x \in s.qvwmList /\ x \in Qvwm /\ x # w
      BY <1>1, <1>3
    <2>2. t.qvMain[x] = IF IsTransient(x) /\ TransientFor[x] = w THEN NULL ELSE MainOf(s, x)
      BY <1>1, <1>3, <1>5, <2>1
    <2> QED
      BY <1>3, <1>4, <2>1, <2>2 DEF MainOf
  <1>7. ASSUME NEW y \in t.qvwmList PROVE t.trList[y] = {x \in t.qvwmList : t.qvMain[x] = y}
    <2>1. y \in s.qvwmList /\ y \in Qvwm /\ y # w /\ y # NULL
      BY <1>1, <1>3, <1>4
    <2>2. \A x \in t.qvwmList : t.qvMain[x] = y <=> s.qvMain[x] = y
      BY <1>1, <1>3, <1>5, <2>1
    <2>3. s.trList[y] = {x \in s.qvwmList : s.qvMain[x] = y}
      BY <1>1, <2>1
    <2>4. s.qvMain[w] = y => linked /\ y = leader
      BY <1>1, <2>1 DEF MainOf
    <2>5. t.trList[y] = s.trList[y] \ {w}
      BY <1>3, <2>1, <2>3, <2>4
    <2> QED
      BY <1>3, <2>2, <2>3, <2>5
  <1>8. t \in Linked
    BY <1>2, <1>6, <1>7 DEF Linked
  <1> QED
    BY <1>8 DEF t

\* Mapping windows, the server and the other functions do not touch the links.
LEMMA LinkedLives ==
    ASSUME NEW s \in Linked
    PROVE  /\ \A t : SameLife(s, t) => t \in Linked
           /\ \A w \in Window, b \in BOOLEAN :
                /\ MapWindow(s, w, b) \in Linked /\ UnmapWindow(s, w, b) \in Linked
                /\ [s EXCEPT !.xmapped[w] = b] \in Linked
  <1>1. s \in State
    BY DEF Linked
  <1>2. ASSUME NEW t \in State, t.qvwmList = s.qvwmList, t.qvMain = s.qvMain, t.trList = s.trList
        PROVE  t \in Linked
    BY <1>2 DEF Linked, MainOf
  <1>3. ASSUME NEW w \in Window, NEW b \in BOOLEAN
        PROVE  /\ MapWindow(s, w, b) \in Linked /\ UnmapWindow(s, w, b) \in Linked
               /\ [s EXCEPT !.xmapped[w] = b] \in Linked
    <2>1. MapWindow(s, w, b) \in State /\ UnmapWindow(s, w, b) \in State
      BY <1>1, PointerType, MapWindowType, UnmapWindowType
    <2>2. [s EXCEPT !.xmapped[w] = b] \in State
      BY <1>1 DEF State
    <2> DEFINE Same(t) == t.qvwmList = s.qvwmList /\ t.qvMain = s.qvMain /\ t.trList = s.trList
    <2>3. Same(MapWindow(s, w, b)) /\ Same(UnmapWindow(s, w, b))
      BY <1>1 DEF MapWindow, UnmapWindow, State
    <2>4. Same([s EXCEPT !.xmapped[w] = b])
      BY <1>1 DEF State
    <2> QED
      BY <1>2, <2>1, <2>2, <2>3, <2>4
  <1> QED
    BY <1>2, <1>3 DEF SameLife

\* A managed transient knows its main window while that is managed, and is on its
\* trList, in whatever order the two are mapped and destroyed, as long as no window
\* is transient for a transient.
THEOREM LinksCorrect ==
    ASSUME NoNested
    PROVE  Spec => []TransientLinks
  <1>1. /\ Lives(Linked) /\ Begets(Linked, Window) /\ Linked \in SUBSET State
        /\ CloseSoon \subseteq Window
    <2>1. Lives(Linked)
      BY LinkedLives DEF Lives
    <2>2. Begets(Linked, Window)
      BY NewQvwmLinked, DeleteQvwmLinked DEF Begets
    <2> QED
      BY <2>1, <2>2, SettingsType DEF Linked
  <1>2. Leads(Linked, Linked)
    <2>1. \A s \in Linked, w \in Window : [s EXCEPT !.xmapped[w] = FALSE] \in Linked
      BY LinkedLives
    <2>2. \A s \in Linked, w \in Window : [s EXCEPT !.xmapped[w] = FALSE].qvwmList = s.qvwmList
      BY DEF Linked, State
    <2>3. Dead(Linked, Linked)
      BY <1>1, <2>1, <2>2, LivesBear DEF Dead, Begets
    <2> QED
      BY <1>1, <2>3, LivesLead, LivesBear DEF Leads
  <1>3. TypeInv => (TransientLinks <=> wm \in Linked)
    BY DEF TypeInv, TransientLinks, Linked, MainOf, Managed
  <1>4. Init => TransientLinks
    BY DEF Init, InitState, TransientLinks
  <1>5. ASSUME TypeInv, LoopInv, TransientLinks, [Next]_vars PROVE TransientLinks'
    <2>1. wm' \in Linked
      BY <1>1, <1>2, <1>3, <1>5, LinkedLives, StatesKept
    <2> QED
      BY <2>1 DEF TransientLinks, Linked, MainOf, Managed
  <1> QED
    BY <1>4, <1>5, TypeCorrect, PTL DEF Spec
-----------------------------------------------------------------------------
\* A main window that is unmapped is minimized.
Unlost(s, w) ==
    w \in s.qvwmList /\ ~IsTransient(w) /\ ~CheckMapped(s, w) => Minimized(s, w)
NoneLost(s) == \A w \in Window : Unlost(s, w)
NoneLostBut(s, x) == \A w \in Window \ {x} : Unlost(s, w)

\* From s to t at most w changes its status, and w is mapped if it does; no
\* window is unmapped.
Shows(s, t, w) ==
    /\ t \in State /\ t.qvwmList = s.qvwmList
    /\ \A x \in Window \ {w} : t.status[x] = s.status[x]
    /\ \A x \in Window : s.mapped[x] => t.mapped[x]
    /\ w \in Window => t.status[w] = s.status[w] \/ t.mapped[w]

\* What only shows windows keeps Restorable.
LEMMA ShowsKeeps ==
    ASSUME NEW s, NEW t, NEW w, Shows(s, t, w)
    PROVE  /\ t \in State
           /\ NoneLost(s) => NoneLost(t)
           /\ \A x \in Window : NoneLostBut(s, x) => NoneLostBut(t, x)
           /\ w \in Window /\ NoneLostBut(s, w) /\ t.mapped[w] => NoneLost(t)
  <1>1. \A x \in Window : Unlost(s, x) => Unlost(t, x)
    BY DEF Shows, Unlost, CheckMapped, Minimized
  <1>2. w \in Window /\ t.mapped[w] => Unlost(t, w)
    BY DEF Unlost, CheckMapped
  <1> QED
    BY <1>1, <1>2 DEF NoneLost, NoneLostBut, Shows

\* Two operations that only show windows do so one after the other.
LEMMA ShowsTransitive ==
    ASSUME NEW s, NEW t, NEW u, NEW w, Shows(s, t, w), Shows(t, u, w)
    PROVE  Shows(s, u, w)
  BY DEF Shows

\* Qvwm::SetFocus moves the focus and mapList only.
LEMMA SetFocusShows ==
    ASSUME NEW s \in State, NEW w \in Qvwm, NEW x
    PROVE  /\ Shows(s, SetFocus(s, w), x)
           /\ SetFocus(s, w).mapped = s.mapped /\ SetFocus(s, w).status = s.status
  <1>1. SetFocus(s, w) \in State
    BY SetFocusType
  <1>2. LET t == SetFocus(s, w)
        IN  t.qvwmList = s.qvwmList /\ t.mapped = s.mapped /\ t.status = s.status
    BY DEF SetFocus, FocusMgrSetFocus, State
  <1> QED
    BY <1>1, <1>2 DEF Shows

\* MapWindows shows its window and hides none.
LEMMA MapWindowsShows ==
    ASSUME NEW s \in State, NEW w \in Window, NEW mapTransient \in BOOLEAN
    PROVE  /\ Shows(s, MapWindows(s, w, mapTransient), w)
           /\ MapWindows(s, w, mapTransient).mapped[w]
           /\ MapWindows(s, w, mapTransient).status = s.status
  <1> DEFINE R == Reached(s, w, mapTransient)
             v == MapWindow(s, w, mapTransient)
             t == [v EXCEPT !.trMapped[w] = TRUE]
             u == [t EXCEPT !.unmapList = Remove(@, w), !.mapList = InsertHead(@, w)]
             r == MapWindows(s, w, mapTransient)
  <1>1. w \in Qvwm /\ w \in R
    BY ReachedProperties DEF Qvwm
  <1>2. v \in State /\ r \in State
    BY <1>1, MapWindowType, MapWindowsType
  <1>3. /\ v.mapped = [x \in Qvwm |-> x \in R \/ s.mapped[x]]
        /\ v.status = s.status /\ v.qvwmList = s.qvwmList
    BY DEF MapWindow, State
  <1>4. (r = s /\ s.mapped[w]) \/ r = t \/ r = u
    BY Zenon DEF MapWindows, CheckMapped
  <1> HIDE DEF R, v, r
  <1>5. t.mapped = v.mapped /\ t.status = v.status /\ t.qvwmList = v.qvwmList
        /\ u.mapped = v.mapped /\ u.status = v.status /\ u.qvwmList = v.qvwmList
    BY <1>2 DEF State
  <1> HIDE DEF t, u
  <1>6. CASE r = s /\ s.mapped[w]
    BY <1>2, <1>6 DEF Shows, r
  <1>7. CASE r = t \/ r = u
    <2>1. r.mapped = v.mapped /\ r.status = s.status /\ r.qvwmList = s.qvwmList
      BY <1>3, <1>5, <1>7
    <2>2. r.mapped[w] /\ \A x \in Window : s.mapped[x] => r.mapped[x]
      BY <1>1, <1>3, <2>1 DEF Qvwm
    <2> QED
      BY <1>2, <2>1, <2>2 DEF Shows, r
  <1> QED
    BY <1>4, <1>6, <1>7

\* UnmapWindows unmaps the window and transients.
LEMMA UnmapWindowsEffect ==
    ASSUME NEW s \in State, NEW w \in Window, NEW unmapTransient \in BOOLEAN
    PROVE  LET t == UnmapWindows(s, w, unmapTransient)
           IN  /\ t \in State /\ t.qvwmList = s.qvwmList /\ t.status = s.status
               /\ \A x \in Window \ {w} : ~IsTransient(x) => t.mapped[x] = s.mapped[x]
  <1> DEFINE R == Reached(s, w, unmapTransient)
             v == UnmapWindow(s, w, unmapTransient)
             t == [v EXCEPT !.trMapped[w] = FALSE]
             u == [t EXCEPT !.mapList = Remove(@, w), !.unmapList = InsertTail(@, w)]
             r == UnmapWindows(s, w, unmapTransient)
  <1>1. w \in Qvwm /\ \A x \in R : x = w \/ IsTransient(x)
    BY ReachedProperties DEF Qvwm
  <1>2. v \in State /\ r \in State
    BY <1>1, UnmapWindowType, UnmapWindowsType
  <1>3. /\ v.mapped = [x \in Qvwm |-> x \notin R /\ s.mapped[x]]
        /\ v.status = s.status /\ v.qvwmList = s.qvwmList
    BY DEF UnmapWindow, State
  <1>4. r = s \/ r = t \/ r = u
    BY Zenon DEF UnmapWindows
  <1>5. s.mapped \in [Qvwm -> BOOLEAN]
    BY DEF State
  <1> HIDE DEF R, v, r
  <1>6. t.mapped = v.mapped /\ t.status = v.status /\ t.qvwmList = v.qvwmList
        /\ u.mapped = v.mapped /\ u.status = v.status /\ u.qvwmList = v.qvwmList
    BY <1>2 DEF State
  <1> HIDE DEF t, u
  <1>7. CASE r = s
    BY <1>2, <1>7 DEF r
  <1>8. CASE r = t \/ r = u
    <2>1. r.mapped = v.mapped /\ r.status = s.status /\ r.qvwmList = s.qvwmList
      BY <1>3, <1>6, <1>8
    <2>2. \A x \in Window \ {w} : ~IsTransient(x) => r.mapped[x] = s.mapped[x]
      BY <1>1, <1>3, <1>5, <2>1 DEF Qvwm
    <2> QED
      BY <1>2, <2>1, <2>2 DEF r
  <1> QED
    BY <1>4, <1>7, <1>8

\* What changes status[w] of a window and then maps it.
LEMMA MapsAfterStatus ==
    ASSUME NEW s \in State, NEW t \in State, NEW w \in Window, NEW mapTransient \in BOOLEAN,
           t.qvwmList = s.qvwmList, t.mapped = s.mapped,
           \A x \in Window \ {w} : t.status[x] = s.status[x]
    PROVE  LET u == SetFocus(MapWindows(t, w, mapTransient), w)
           IN  Shows(s, u, w) /\ u.mapped[w] /\ u.status = t.status
  <1> DEFINE m == MapWindows(t, w, mapTransient)
             u == SetFocus(m, w)
  <1>1. w \in Qvwm
    BY DEF Qvwm
  <1>2. Shows(t, m, w) /\ m.mapped[w] /\ m.status = t.status
    BY MapWindowsShows
  <1>3. m \in State
    BY <1>2 DEF Shows
  <1> HIDE DEF m
  <1>4. Shows(m, u, w) /\ u.mapped = m.mapped /\ u.status = m.status
    BY <1>1, <1>3, SetFocusShows
  <1> HIDE DEF u
  <1>5. Shows(t, u, w) /\ u.mapped[w] /\ u.status = t.status
    BY <1>2, <1>4, ShowsTransitive
  <1>6. Shows(s, u, w)
    BY <1>5 DEF Shows
  <1> QED
    BY <1>5, <1>6, Zenon DEF u, m

\* RestoreWindow and MaximizeWindow show the window when they change its status.
LEMMA RestoreWindowShows ==
    ASSUME NEW s \in State, NEW w \in Qvwm, NEW mapTransient \in BOOLEAN
    PROVE  /\ Shows(s, RestoreWindow(s, w, mapTransient), w)
           /\ w \in Window /\ s.status[w] # {} => RestoreWindow(s, w, mapTransient).mapped[w]
  <1> DEFINE r == RestoreWindow(s, w, mapTransient)
             t == IF Minimized(s, w) /\ Maximized(s, w)
                  THEN [s EXCEPT !.status[w] = {"MAXIMIZE_WINDOW"}]
                  ELSE [s EXCEPT !.status[w] = {}, !.flags[w] = s.flagsBak[w]]
             u == SetFocus(MapWindows(t, w, mapTransient), w)
  <1>1. Shows(s, s, w)
    BY DEF Shows
  <1>2. CASE w = Root \/ s.status[w] = {}
    <2>1. r = s /\ ~(w \in Window /\ s.status[w] # {})
      BY <1>2, RootIsNoWindow DEF RestoreWindow
    <2> QED
      BY <1>1, <2>1
  <1>3. CASE w # Root /\ s.status[w] # {}
    <2>1. w \in Window /\ s.flagsBak[w] \in SUBSET Flag
      BY <1>3 DEF Qvwm, State
    <2>2. [s EXCEPT !.status[w] = {"MAXIMIZE_WINDOW"}] \in State
      BY AssignTypes DEF Status
    <2>3. [s EXCEPT !.status[w] = {}, !.flags[w] = s.flagsBak[w]] \in State
      BY <2>1 DEF State
    <2>4. t \in State
      BY <2>2, <2>3
    <2>5. /\ t.qvwmList = s.qvwmList /\ t.mapped = s.mapped
          /\ \A x \in Window \ {w} : t.status[x] = s.status[x]
      BY DEF State, Qvwm
    <2>6. r = u
      BY <1>3, Zenon DEF RestoreWindow
    <2> HIDE DEF t
    <2>7. Shows(s, u, w) /\ u.mapped[w]
      BY <2>1, <2>4, <2>5, MapsAfterStatus
    <2> QED
      BY <2>6, <2>7
  <1> QED
    BY <1>2, <1>3

\* MaximizeWindow maps what it finds unmapped and hides none.
LEMMA MaximizeWindowShows ==
    ASSUME NEW s \in State, NEW w \in Qvwm, NEW mapTransient \in BOOLEAN
    PROVE  /\ Shows(s, MaximizeWindow(s, w, mapTransient), w)
           /\ w \in Window /\ ~Maximized(s, w) => MaximizeWindow(s, w, mapTransient).mapped[w]
  <1> DEFINE r == MaximizeWindow(s, w, mapTransient)
             t == [s EXCEPT !.status[w] = {"MAXIMIZE_WINDOW"},
                            !.flagsBak[w] = IF Minimized(s, w) THEN @ ELSE s.flags[w]]
             u == SetFocus(MapWindows(t, w, mapTransient), w)
  <1>1. Shows(s, s, w)
    BY DEF Shows
  <1>2. CASE w = Root \/ Maximized(s, w)
    <2>1. r = s /\ ~(w \in Window /\ ~Maximized(s, w))
      BY <1>2, RootIsNoWindow DEF MaximizeWindow
    <2> QED
      BY <1>1, <2>1
  <1>3. CASE w # Root /\ ~Maximized(s, w)
    <2>1. w \in Window /\ s.flags[w] \in SUBSET Flag /\ s.flagsBak[w] \in SUBSET Flag
      BY <1>3 DEF Qvwm, State
    <2>2. \A flags \in SUBSET Flag :
            [s EXCEPT !.status[w] = {"MAXIMIZE_WINDOW"}, !.flagsBak[w] = flags] \in State
      BY DEF State, Status
    <2>3. t \in State
      BY <2>1, <2>2
    <2>4. /\ t.qvwmList = s.qvwmList /\ t.mapped = s.mapped
          /\ \A x \in Window \ {w} : t.status[x] = s.status[x]
      BY DEF State, Qvwm
    <2>5. r = u
      BY <1>3, Zenon DEF MaximizeWindow
    <2> HIDE DEF t
    <2>6. Shows(s, u, w) /\ u.mapped[w]
      BY <2>1, <2>3, <2>4, MapsAfterStatus
    <2> QED
      BY <2>5, <2>6
  <1> QED
    BY <1>2, <1>3

\* ExpandWindow maps what it finds unmapped and hides none.
LEMMA ExpandWindowShows ==
    ASSUME NEW s \in State, NEW w \in Qvwm
    PROVE  Shows(s, ExpandWindow(s, w), w)
  <1>1. CASE w = Root
    BY <1>1 DEF ExpandWindow, Shows
  <1>2. CASE w # Root
    <2>1. w \in Window
      BY <1>2 DEF Qvwm
    <2>2. Shows(s, SetFocus(MapWindows(s, w, TRUE), w), w)
      BY <2>1, MapsAfterStatus
    <2> QED
      BY <1>2, <2>2, Zenon DEF ExpandWindow
  <1> QED
    BY <1>1, <1>2

\* YieldFocus may restore another window, never the one that yields.
LEMMA YieldFocusShows ==
    ASSUME NEW s \in State, NEW w \in Window
    PROVE  \E next \in Qvwm \ {w} : Shows(s, YieldFocus(s, w), next)
  <1> DEFINE q == IF Has(s.mapList, w) THEN InsertTail(Remove(s.mapList, w), w)
                  ELSE s.mapList
             t == [s EXCEPT !.mapList = q]
             next == IF t.mapList = <<>> \/ Head(t.mapList) = w THEN Root ELSE Head(t.mapList)
             r == YieldFocus(s, w)
  <1>1. s.mapList \in Seq(Window) /\ Root \in Qvwm \ {w}
    BY RootIsNoWindow DEF State, Qvwm
  <1>2. q \in Seq(Window)
    <2>1. Remove(s.mapList, w) \in Seq(Window)
      BY <1>1, ListTypes
    <2>2. InsertTail(Remove(s.mapList, w), w) \in Seq(Window)
      BY <2>1, ListTypes
    <2> QED
      BY <1>1, <2>2
  <1>3. t \in State
    BY <1>1, <1>2, AssignTypes
  <1>4. t.qvwmList = s.qvwmList /\ t.status = s.status /\ t.mapped = s.mapped
    BY DEF State
  <1>5. r = IF w # s.focusQvwm THEN t
            ELSE IF ~ClickToFocus THEN SetFocus(t, Root)
            ELSE IF CheckMapped(t, next) THEN SetFocus(t, next)
            ELSE RestoreWindow(t, next, TRUE)
    BY Zenon DEF YieldFocus
  <1>6. t.mapList \in Seq(Window)
    BY <1>3 DEF State
  <1> HIDE DEF t, r
  <1>7. next \in Qvwm \ {w}
    <2>1. t.mapList # <<>> => Head(t.mapList) \in Window
      BY <1>6, HeadTailProperties
    <2> QED
      BY <1>1, <2>1 DEF Qvwm
  <1> HIDE DEF next
  <1>8. \A x \in Qvwm \ {w} : Shows(s, t, x)
    BY <1>3, <1>4 DEF Shows
  <1>9. \E x \in Qvwm \ {w} : Shows(t, r, x)
    <2>1. Shows(t, t, Root)
      BY <1>3 DEF Shows
    <2>2. Shows(t, SetFocus(t, Root), Root) /\ Shows(t, SetFocus(t, next), next)
      BY <1>1, <1>3, <1>7, SetFocusShows
    <2>3. Shows(t, RestoreWindow(t, next, TRUE), next)
      BY <1>3, <1>7, RestoreWindowShows
    <2> QED
      BY <1>1, <1>5, <1>7, <2>1, <2>2, <2>3
  <1> QED
    BY <1>8, <1>9, ShowsTransitive DEF r

\* The focus that follows the pointer hides no window.
LEMMA ChangeFocusToCursorShows ==
    ASSUME NEW s \in State, NEW pointer \in Qvwm, NEW w
    PROVE  Shows(s, ChangeFocusToCursor(s, pointer), w)
  BY SetFocusShows, PointerType DEF ChangeFocusToCursor

\* MinimizeWindow: the window it unmaps is minimized, and is not the one that
\* YieldFocus restores.  A window not yet mapped (NoneLostBut) is minimized
\* unless it has no taskbar button.
LEMMA MinimizeWindowRestorable ==
    ASSUME NEW s \in State, NEW w \in Window, NEW unmapTransient \in BOOLEAN,
           NEW pointer \in Qvwm, NoneLostBut(s, w),
           Unlost(s, w) \/ "NO_TBUTTON" \notin s.flags[w]
    PROVE  NoneLost(MinimizeWindow(s, w, unmapTransient, pointer))
  <1> DEFINE t == [s EXCEPT !.status[w] = @ \cup {"MINIMIZE_WINDOW"},
                            !.flagsBak[w] = IF Maximized(s, w) THEN @ ELSE s.flags[w]]
             y == YieldFocus(t, w)
             u == UnmapWindows(y, w, unmapTransient)
             r == MinimizeWindow(s, w, unmapTransient, pointer)
  <1>1. w \in Qvwm /\ w # Root
    BY RootIsNoWindow DEF Qvwm
  <1>2. CASE Minimized(s, w) \/ "NO_TBUTTON" \in s.flags[w]
    <2>1. r = s /\ Unlost(s, w)
      BY <1>1, <1>2 DEF MinimizeWindow, Unlost
    <2> QED
      BY <2>1 DEF NoneLost, NoneLostBut
  <1>3. CASE ~Minimized(s, w) /\ "NO_TBUTTON" \notin s.flags[w]
    <2>1. t \in State
      <3>1. \A v \in SUBSET Status, flags \in SUBSET Flag :
              [s EXCEPT !.status[w] = v, !.flagsBak[w] = flags] \in State
        BY DEF State
      <3>2. /\ s.flags[w] \in SUBSET Flag /\ s.flagsBak[w] \in SUBSET Flag
            /\ s.status[w] \cup {"MINIMIZE_WINDOW"} \in SUBSET Status
        BY <1>1 DEF State, Status
      <3> QED
        BY <3>1, <3>2
    <2>2. /\ t.qvwmList = s.qvwmList /\ t.mapped = s.mapped
          /\ \A x \in Window \ {w} : t.status[x] = s.status[x]
          /\ "MINIMIZE_WINDOW" \in t.status[w]
      BY <1>1 DEF State, Qvwm
    <2>3. r = IF ClickToFocus THEN u ELSE ChangeFocusToCursor(u, pointer)
      BY <1>1, <1>3, Zenon DEF MinimizeWindow
    <2> HIDE DEF t
    <2>4. NoneLostBut(t, w)
      BY <2>2 DEF NoneLostBut, Unlost, CheckMapped, Minimized
    <2>5. PICK next \in Qvwm \ {w} : Shows(t, y, next)
      BY <2>1, YieldFocusShows
    <2>6. NoneLostBut(y, w) /\ y \in State /\ y.status[w] = t.status[w]
      BY <2>4, <2>5, ShowsKeeps DEF Shows
    <2> HIDE DEF y
    <2>7. /\ u \in State /\ u.qvwmList = y.qvwmList /\ u.status = y.status
          /\ \A x \in Window \ {w} : ~IsTransient(x) => u.mapped[x] = y.mapped[x]
      BY <2>6, UnmapWindowsEffect
    <2> HIDE DEF u
    <2>8. NoneLost(u)
      BY <2>2, <2>6, <2>7 DEF NoneLost, NoneLostBut, Unlost, CheckMapped, Minimized
    <2>9. NoneLost(ChangeFocusToCursor(u, pointer))
      BY <2>7, <2>8, ChangeFocusToCursorShows, ShowsKeeps
    <2> QED
      BY <2>3, <2>8, <2>9
  <1> QED
    BY <1>2, <1>3

\* A new Qvwm is unmapped and not minimized: the handler that makes it must act.
LEMMA NewQvwmRestorable ==
    ASSUME NEW s \in State, NEW w \in Window, NEW junk \in BOOLEAN, NoneLost(s)
    PROVE  LET t == NewQvwm(s, w, junk)
           IN  /\ t \in State /\ NoneLostBut(t, w)
               /\ t.status[w] = {} /\ t.flags[w] = InitFlags[w]
  <1> DEFINE t == NewQvwm(s, w, junk)
  <1>1. w \in Qvwm
    BY DEF Qvwm
  <1>2. t \in State
    BY NewQvwmType
  <1>3. /\ t.qvwmList = s.qvwmList \cup {w}
        /\ t.mapped = [s.mapped EXCEPT ![w] = FALSE]
        /\ t.status = [s.status EXCEPT ![w] = {}]
        /\ t.flags = [s.flags EXCEPT ![w] = InitFlags[w]]
    BY DEF NewQvwm, State
  <1> HIDE DEF t
  <1>4. /\ s.mapped \in [Qvwm -> BOOLEAN] /\ s.status \in [Qvwm -> SUBSET Status]
        /\ s.flags \in [Qvwm -> SUBSET Flag]
    BY DEF State
  <1>5. t.status[w] = {} /\ t.flags[w] = InitFlags[w]
    BY <1>1, <1>3, <1>4
  <1>6. NoneLostBut(t, w)
    BY <1>3, <1>4 DEF NoneLost, NoneLostBut, Unlost, CheckMapped, Minimized, Qvwm
  <1> QED
    BY <1>2, <1>5, <1>6, Zenon DEF t

\* The destructor forgets the window.
LEMMA DeleteQvwmRestorable ==
    ASSUME NEW s \in State, NEW w \in Window, NoneLostBut(s, w)
    PROVE  NoneLost(DeleteQvwm(s, w))
  <1> DEFINE t == DeleteQvwm(s, w)
  <1>1. /\ t.qvwmList = s.qvwmList \ {w}
        /\ t.mapped = [s.mapped EXCEPT ![w] = FALSE]
        /\ t.status = [s.status EXCEPT ![w] = {}]
    BY DEF DeleteQvwm, State
  <1> HIDE DEF t
  <1>2. s.mapped \in [Qvwm -> BOOLEAN] /\ s.status \in [Qvwm -> SUBSET Status]
    BY DEF State
  <1>3. NoneLost(t)
    BY <1>1, <1>2 DEF NoneLost, NoneLostBut, Unlost, CheckMapped, Minimized, Qvwm
  <1> QED
    BY <1>3 DEF t

\* A window destroyed is managed no more, and its transients are not hidden by that.
LEMMA DestroyQvwmRestorable ==
    ASSUME NEW s \in State, NEW w \in Window, NEW pointer \in Qvwm, NoneLost(s)
    PROVE  NoneLost(DestroyQvwm(s, w, pointer))
  <1> DEFINE t == IF w = s.focusQvwm THEN YieldFocus(s, w) ELSE s
             u == UnmapWindows(t, w, TRUE)
             v == [u EXCEPT !.unmapList = Remove(@, w), !.mapList = Remove(@, w)]
             d == DeleteQvwm(v, w)
  <1>1. DestroyQvwm(s, w, pointer) =
          IF w = s.focusQvwm /\ ~ClickToFocus THEN ChangeFocusToCursor(d, pointer) ELSE d
    BY Zenon DEF DestroyQvwm
  <1>2. t \in State /\ NoneLost(t)
    <2>1. PICK next \in Qvwm \ {w} : Shows(s, YieldFocus(s, w), next)
      BY YieldFocusShows
    <2> QED
      BY <2>1, ShowsKeeps, YieldFocusType
  <1> HIDE DEF t
  <1>3. /\ u \in State /\ u.qvwmList = t.qvwmList /\ u.status = t.status
        /\ \A x \in Window \ {w} : ~IsTransient(x) => u.mapped[x] = t.mapped[x]
    BY <1>2, UnmapWindowsEffect
  <1> HIDE DEF u
  <1>4. NoneLostBut(u, w)
    BY <1>2, <1>3 DEF NoneLost, NoneLostBut, Unlost, CheckMapped, Minimized
  <1>5. v \in State
    <2>1. u.unmapList \in Seq(Window) /\ u.mapList \in Seq(Window)
      BY <1>3 DEF State
    <2>2. Remove(u.unmapList, w) \in Seq(Window) /\ Remove(u.mapList, w) \in Seq(Window)
      BY <2>1, ListTypes
    <2> QED
      BY <1>3, <2>2 DEF State
  <1>6. v.qvwmList = u.qvwmList /\ v.mapped = u.mapped /\ v.status = u.status
    BY <1>3 DEF State
  <1> HIDE DEF v
  <1>7. NoneLostBut(v, w)
    BY <1>4, <1>6 DEF NoneLostBut, Unlost, CheckMapped, Minimized
  <1>8. d \in State /\ NoneLost(d)
    BY <1>5, <1>7, DeleteQvwmType, DeleteQvwmRestorable
  <1> HIDE DEF d
  <1>9. NoneLost(ChangeFocusToCursor(d, pointer))
    BY <1>8, ChangeFocusToCursorShows, ShowsKeeps
  <1> QED
    BY <1>1, <1>8, <1>9
-----------------------------------------------------------------------------
\* What an operator that only shows a window leaves of a state where none is lost.
LEMMA ShownStates ==
    ASSUME NEW s \in State, NEW w \in Qvwm, NEW b \in BOOLEAN, NoneLost(s)
    PROVE  /\ NoneLost(SetFocus(s, w)) /\ NoneLost(Refocus(s, w))
           /\ NoneLost(RestoreWindow(s, w, b)) /\ NoneLost(MaximizeWindow(s, w, b))
           /\ NoneLost(ExpandWindow(s, w))
           /\ w \in Window => NoneLost(MapWindows(s, w, b))
           /\ NoneLost(ChangeFocusToCursor(s, w))
  <1>1. \A x \in Qvwm : Shows(s, SetFocus(s, x), x)
    BY SetFocusShows
  <1>2. \A x \in Qvwm : SetFocus(s, x) \in State /\ NoneLost(SetFocus(s, x))
    BY <1>1, ShowsKeeps
  <1>3. NoneLost(Refocus(s, w))
    <2>1. SetFocus(s, Root) \in State /\ NoneLost(SetFocus(s, Root))
      BY <1>2, PointerType
    <2>2. Shows(SetFocus(s, Root), Refocus(s, w), w)
      BY <2>1, SetFocusShows DEF Refocus
    <2> QED
      BY <2>1, <2>2, ShowsKeeps
  <1>4. NoneLost(RestoreWindow(s, w, b)) /\ NoneLost(MaximizeWindow(s, w, b))
        /\ NoneLost(ExpandWindow(s, w))
    BY RestoreWindowShows, MaximizeWindowShows, ExpandWindowShows, ShowsKeeps
  <1>5. w \in Window => NoneLost(MapWindows(s, w, b))
    BY MapWindowsShows, ShowsKeeps
  <1>6. NoneLost(ChangeFocusToCursor(s, w))
    BY ChangeFocusToCursorShows, ShowsKeeps
  <1> QED
    BY <1>2, <1>3, <1>4, <1>5, <1>6

\* MinimizeWindow leaves what it unmaps marked as minimized.
LEMMA MinimizeKeepsRestorable ==
    ASSUME NEW s \in State, NEW w \in Qvwm, NEW b \in BOOLEAN, NEW pointer \in Qvwm, NoneLost(s)
    PROVE  NoneLost(MinimizeWindow(s, w, b, pointer))
  <1>1. CASE w = Root
    BY <1>1 DEF MinimizeWindow
  <1>2. CASE w \in Window
    <2>1. NoneLostBut(s, w) /\ Unlost(s, w)
      BY <1>2 DEF NoneLost, NoneLostBut
    <2> QED
      BY <1>2, <2>1, MinimizeWindowRestorable
  <1> QED
    BY <1>1, <1>2 DEF Qvwm

\* No property of a window that a change of flags touches.
LEMMA FlagsKeepRestorable ==
    ASSUME NEW s \in State, NEW w \in Qvwm, NEW flags \in SUBSET Flag, NoneLost(s)
    PROVE  NoneLost([s EXCEPT !.flags[w] = flags])
  <1> DEFINE t == [s EXCEPT !.flags[w] = flags]
  <1>1. t.qvwmList = s.qvwmList /\ t.mapped = s.mapped /\ t.status = s.status
    BY DEF State
  <1> HIDE DEF t
  <1>2. NoneLost(t)
    BY <1>1 DEF NoneLost, Unlost, CheckMapped, Minimized
  <1> QED
    BY <1>2 DEF t

\* unmapList is no concern of Restorable.
LEMMA UnmapListKeepsRestorable ==
    ASSUME NEW s \in State, NEW q \in Seq(Window), NoneLost(s)
    PROVE  NoneLost([s EXCEPT !.unmapList = q])
  <1> DEFINE t == [s EXCEPT !.unmapList = q]
  <1>1. t.qvwmList = s.qvwmList /\ t.mapped = s.mapped /\ t.status = s.status
    BY DEF State
  <1> HIDE DEF t
  <1>2. NoneLost(t)
    BY <1>1 DEF NoneLost, Unlost, CheckMapped, Minimized
  <1> QED
    BY <1>2 DEF t

\* mapList is no concern of Restorable.
LEMMA MapListKeepsRestorable ==
    ASSUME NEW s \in State, NEW q \in Seq(Window), NoneLost(s)
    PROVE  NoneLost([s EXCEPT !.mapList = q])
  <1> DEFINE t == [s EXCEPT !.mapList = q]
  <1>1. t.qvwmList = s.qvwmList /\ t.mapped = s.mapped /\ t.status = s.status
    BY DEF State
  <1> HIDE DEF t
  <1>2. NoneLost(t)
    BY <1>1 DEF NoneLost, Unlost, CheckMapped, Minimized
  <1> QED
    BY <1>2 DEF t

\* A window that starts iconic can be minimized.
IconicHasButton == \A w \in InitIconic \cup WasIconic : "NO_TBUTTON" \notin InitFlags[w]

\* MapRequestProc and CaptureAllWindows map or minimize the window they manage.
LEMMA MapRequestRestorable ==
    ASSUME NEW s \in State, NEW w \in Window, NEW junk \in BOOLEAN, NEW pointer \in Qvwm,
           NoneLost(s), IconicHasButton
    PROVE  NoneLost(MapRequestResult(s, w, junk, pointer))
  <1> DEFINE t == IF w \in s.qvwmList THEN s ELSE NewQvwm(s, w, junk)
             u == IF w \in InitIconic THEN MinimizeWindow(t, w, TRUE, pointer)
                  ELSE IF w \in InitMaximize THEN MaximizeWindow(t, w, FALSE)
                  ELSE IF Minimized(t, w) THEN RestoreWindow(t, w, FALSE)
                  ELSE MapWindows(t, w, TRUE)
  <1>1. w \in Qvwm
    BY DEF Qvwm
  <1>2. /\ t \in State /\ NoneLostBut(t, w)
        /\ \/ NoneLost(t)
           \/ t.status[w] = {} /\ t.flags[w] = InitFlags[w]
    BY NewQvwmRestorable DEF NoneLost, NoneLostBut
  <1>3. MapRequestResult(s, w, junk, pointer) =
          IF w \in CloseSoon THEN DeleteQvwm(t, w)
          ELSE IF Minimized(u, w) THEN [u EXCEPT !.unmapList = InsertTail(@, w)]
          ELSE IF ClickToFocus \/ FocusOnMap THEN SetFocus(u, w) ELSE u
    BY Zenon DEF MapRequestResult
  <1> HIDE DEF t
  <1>4. u \in State /\ NoneLost(u)
    <2>1. CASE w \in InitIconic
      <3>1. Unlost(t, w) \/ "NO_TBUTTON" \notin t.flags[w]
        BY <1>2, <2>1 DEF IconicHasButton, NoneLost
      <3> QED
        BY <1>1, <1>2, <2>1, <3>1, MinimizeWindowRestorable, MinimizeWindowType
    <2>2. CASE w \notin InitIconic /\ w \in InitMaximize
      <3>1. Shows(t, u, w)
        BY <1>1, <1>2, <2>2, MaximizeWindowShows
      <3>2. NoneLost(t) \/ u.mapped[w]
        BY <1>1, <1>2, <2>2, MaximizeWindowShows DEF Maximized
      <3> QED
        BY <1>2, <3>1, <3>2, ShowsKeeps
    <2>3. CASE w \notin InitIconic \cup InitMaximize /\ Minimized(t, w)
      <3>1. NoneLost(t)
        BY <1>2, <2>3 DEF Minimized
      <3> QED
        BY <1>1, <1>2, <2>3, <3>1, ShownStates, RestoreWindowType
    <2>4. CASE w \notin InitIconic \cup InitMaximize /\ ~Minimized(t, w)
      <3>1. Shows(t, u, w) /\ u.mapped[w]
        BY <1>2, <2>4, MapWindowsShows
      <3> QED
        BY <1>2, <3>1, ShowsKeeps
    <2> QED
      BY <2>1, <2>2, <2>3, <2>4
  <1> HIDE DEF u
  <1>5. NoneLost([u EXCEPT !.unmapList = InsertTail(@, w)])
    <2>1. u.unmapList \in Seq(Window)
      BY <1>4 DEF State
    <2> QED
      BY <1>4, <2>1, ListTypes, UnmapListKeepsRestorable
  <1>6. NoneLost(SetFocus(u, w)) /\ NoneLost(DeleteQvwm(t, w))
    BY <1>1, <1>2, <1>4, ShownStates, DeleteQvwmRestorable
  <1> QED
    BY <1>3, <1>4, <1>5, <1>6, Zenon

\* A window captured at startup is mapped or minimized in the same step.
LEMMA CaptureRestorable ==
    ASSUME NEW s \in State, NEW w \in Window, NEW junk \in BOOLEAN, NEW pointer \in Qvwm,
           NoneLost(s), IconicHasButton
    PROVE  NoneLost(CaptureResult(s, w, junk, pointer))
  <1> DEFINE t == NewQvwm(s, w, junk)
             u == IF w \in WasIconic \cup InitIconic THEN MinimizeWindow(t, w, FALSE, pointer)
                  ELSE IF w \in InitMaximize THEN MaximizeWindow(t, w, FALSE)
                  ELSE MapWindows(t, w, TRUE)
  <1>1. w \in Qvwm
    BY DEF Qvwm
  <1>2. /\ t \in State /\ NoneLostBut(t, w)
        /\ t.status[w] = {} /\ t.flags[w] = InitFlags[w]
    BY NewQvwmRestorable
  <1>3. CaptureResult(s, w, junk, pointer) =
          IF w \in CloseSoon THEN DeleteQvwm(t, w)
          ELSE IF Minimized(u, w) THEN [u EXCEPT !.unmapList = InsertTail(@, w)]
          ELSE IF ClickToFocus THEN SetFocus(u, w) ELSE u
    BY Zenon DEF CaptureResult
  <1> HIDE DEF t
  <1>4. u \in State /\ NoneLost(u)
    <2>1. CASE w \in WasIconic \cup InitIconic
      <3>1. "NO_TBUTTON" \notin t.flags[w]
        BY <1>2, <2>1 DEF IconicHasButton
      <3> QED
        BY <1>1, <1>2, <2>1, <3>1, MinimizeWindowRestorable, MinimizeWindowType
    <2>2. CASE w \notin WasIconic \cup InitIconic /\ w \in InitMaximize
      <3>1. Shows(t, u, w) /\ u.mapped[w]
        BY <1>1, <1>2, <2>2, MaximizeWindowShows DEF Maximized
      <3> QED
        BY <1>2, <3>1, ShowsKeeps
    <2>3. CASE w \notin WasIconic \cup InitIconic \cup InitMaximize
      <3>1. Shows(t, u, w) /\ u.mapped[w]
        BY <1>2, <2>3, MapWindowsShows
      <3> QED
        BY <1>2, <3>1, ShowsKeeps
    <2> QED
      BY <2>1, <2>2, <2>3
  <1> HIDE DEF u
  <1>5. NoneLost([u EXCEPT !.unmapList = InsertTail(@, w)])
    <2>1. u.unmapList \in Seq(Window)
      BY <1>4 DEF State
    <2> QED
      BY <1>4, <2>1, ListTypes, UnmapListKeepsRestorable
  <1>6. NoneLost(SetFocus(u, w)) /\ NoneLost(DeleteQvwm(t, w))
    BY <1>1, <1>2, <1>4, ShownStates, DeleteQvwmRestorable
  <1> QED
    BY <1>3, <1>4, <1>5, <1>6, Zenon

\* The restoring branch of MapNotifyProc only shows windows.
LEMMA MapNotifyRestorable ==
    ASSUME NEW s \in State, NEW w \in Window, NoneLost(s)
    PROVE  NoneLost(MapNotifyResult(s, w))
  <1> DEFINE t == IF Minimized(s, w) THEN RestoreWindow(s, w, FALSE) ELSE MapWindows(s, w, TRUE)
  <1>1. w \in Qvwm
    BY DEF Qvwm
  <1>2. t \in State /\ NoneLost(t)
    BY <1>1, ShownStates, RestoreWindowType, MapWindowsType
  <1>3. MapNotifyResult(s, w) = IF CheckMapped(s, w) THEN s
                                ELSE IF ClickToFocus \/ FocusOnMap THEN SetFocus(t, w) ELSE t
    BY Zenon DEF MapNotifyResult
  <1> HIDE DEF t
  <1>4. NoneLost(SetFocus(t, w))
    BY <1>1, <1>2, ShownStates
  <1> QED
    BY <1>2, <1>3, <1>4

\* A toggled attribute is no concern of Restorable.
LEMMA ToggleRestorable ==
    ASSUME NEW s \in State, NEW w \in Qvwm, NEW pointer \in Qvwm, NoneLost(s)
    PROVE  NoneLost(Toggle(s, w, pointer))
  <1>1. MinimizeWindow(s, w, TRUE, pointer) \in State
        /\ NoneLost(MinimizeWindow(s, w, TRUE, pointer))
    BY MinimizeKeepsRestorable, MinimizeWindowType
  <1> QED
    BY <1>1, ShownStates DEF Toggle

\* Nor is one toggled with a side effect.
LEMMA FlipRestorable ==
    ASSUME NEW s \in State, NEW w \in Qvwm, NEW flag \in Flag, NoneLost(s)
    PROVE  NoneLost(Flip(s, w, flag))
  <1>1. s.flags[w] \in SUBSET Flag
    BY DEF State
  <1>2. (IF flag \in s.flags[w] THEN s.flags[w] \ {flag} ELSE s.flags[w] \cup {flag})
          \in SUBSET Flag
    BY <1>1
  <1> QED
    BY <1>2, FlagsKeepRestorable DEF Flip

\* Nor is one set for a moment.
LEMMA FocusOnceRestorable ==
    ASSUME NEW s \in State, NEW w \in Qvwm, NoneLost(s)
    PROVE  NoneLost(FocusOnce(s, w))
  <1> DEFINE t == [s EXCEPT !.flags[w] = @ \ {"NO_FOCUS"}]
             u == SetFocus(t, w)
  <1>1. s.flags[w] \in SUBSET Flag /\ s.flags[w] \ {"NO_FOCUS"} \in SUBSET Flag
    BY DEF State
  <1>2. t \in State /\ NoneLost(t)
    BY <1>1, AssignTypes, FlagsKeepRestorable
  <1> HIDE DEF t
  <1>3. u \in State /\ NoneLost(u)
    BY <1>2, SetFocusType, ShownStates
  <1> HIDE DEF u
  <1>4. NoneLost([u EXCEPT !.flags[w] = s.flags[w]])
    BY <1>1, <1>3, FlagsKeepRestorable
  <1>5. FocusOnce(s, w) = [u EXCEPT !.flags[w] = s.flags[w]]
    BY Zenon DEF FocusOnce, t, u
  <1> QED
    BY <1>4, <1>5

\* What has the members of s that Restorable reads has none lost either.
LEMMA SameRestorable ==
    ASSUME NEW s, NoneLost(s), NEW t,
           t.qvwmList = s.qvwmList, t.mapped = s.mapped, t.status = s.status
    PROVE  NoneLost(t)
  BY DEF NoneLost, Unlost, CheckMapped, Minimized
-----------------------------------------------------------------------------
\* The legal states with no main window lost.
Kept == {s \in State : NoneLost(s)}

\* The functions that show a window, turn mapList or change an attribute keep it so.
LEMMA ShownKept == Shown(Kept) /\ Rolled(Kept) /\ Flagged(Kept)
  <1>1. Window \subseteq Qvwm /\ Root \in Qvwm
    BY PointerType
  <1>2. Shown(State) /\ Rolled(State) /\ Flagged(State)
    BY StateLeads DEF Leads
  <1>3. Shown(Kept)
    <2> SUFFICES ASSUME NEW s \in Kept, NEW w \in Qvwm, NEW b \in BOOLEAN
                 PROVE  /\ SetFocus(s, w) \in Kept /\ RestoreWindow(s, w, b) \in Kept
                        /\ MaximizeWindow(s, w, b) \in Kept /\ ExpandWindow(s, w) \in Kept
                        /\ ChangeFocusToCursor(s, w) \in Kept
      BY Zenon DEF Shown
    <2>1. s \in State /\ NoneLost(s)
      BY DEF Kept
    <2> QED
      BY <2>1, ShownStates, SetFocusType, RestoreWindowType, MaximizeWindowType,
         ExpandWindowType, ChangeFocusToCursorType DEF Kept
  <1>4. Rolled(Kept)
    <2> SUFFICES ASSUME NEW s \in Kept, NEW q \in Turns(Window, s.mapList), NEW w \in Qvwm
                 PROVE  SetFocus([s EXCEPT !.mapList = q], w) \in Kept
      <3>1. \A s \in Kept : \A q \in Turns(Window, s.mapList) : q # <<>> => q[1] \in Qvwm
        BY <1>1, EmptySeq, ElementOfSeq DEF Turns
      <3> QED
        BY <1>1, <3>1, Zenon DEF Rolled
    <2> DEFINE t == [s EXCEPT !.mapList = q]
    <2>1. s \in State /\ NoneLost(s) /\ q \in Seq(Window)
      BY DEF Kept, Turns
    <2>2. t \in State /\ NoneLost(t)
      BY <1>1, <2>1, AssignTypes, MapListKeepsRestorable
    <2> HIDE DEF t
    <2>3. SetFocus(t, w) \in State /\ NoneLost(SetFocus(t, w))
      BY <2>2, SetFocusType, ShownStates
    <2> QED
      BY <2>3 DEF Kept, t
  <1>5. Flagged(Kept)
    <2> SUFFICES ASSUME NEW s \in Kept, NEW w \in Window
                 PROVE  /\ [s EXCEPT !.flags[w] = @ \cup {"NO_TBUTTON"}] \in Kept
                        /\ Flip(s, w, "NO_TBUTTON") \in Kept
                        /\ Flip(s, w, "NO_FOCUS") \in Kept
                        /\ FocusOnce(s, w) \in Kept
      BY Zenon DEF Flagged
    <2>1. s \in State /\ NoneLost(s) /\ w \in Qvwm
      BY <1>1 DEF Kept
    <2>2. s.flags[w] \cup {"NO_TBUTTON"} \in SUBSET Flag
      BY <2>1 DEF State, Flag
    <2>3. /\ [s EXCEPT !.flags[w] = @ \cup {"NO_TBUTTON"}] \in State
          /\ NoneLost([s EXCEPT !.flags[w] = @ \cup {"NO_TBUTTON"}])
      BY <2>1, <2>2, AssignTypes, FlagsKeepRestorable
    <2> QED
      BY <2>1, <2>3, FlipType, FlipRestorable, FocusOnceType, FocusOnceRestorable
         DEF Kept, Flag
  <1> QED
    BY <1>3, <1>4, <1>5

\* So do those that hide, make or delete one, and what the server does.
LEMMA KeptLeads ==
    ASSUME IconicHasButton
    PROVE  Leads(Kept, Kept)
  <1>1. Window \subseteq Qvwm /\ \A s \in Kept : s \in State /\ NoneLost(s)
    BY PointerType DEF Kept
  <1>2. Hidden(State, State) /\ Born(State, State) /\ Dead(State, State)
    BY StateLeads DEF Leads
  <1>3. Hidden(Kept, Kept)
    BY <1>1, MinimizeWindowType, MinimizeKeepsRestorable, ToggleType, ToggleRestorable
       DEF Hidden, Kept
  <1>4. Born(Kept, Kept)
    BY <1>1, MapRequestResultType, MapRequestRestorable, CaptureResultType, CaptureRestorable,
       MapNotifyResultType, MapNotifyRestorable DEF Born, Kept
  <1>5. Dead(Kept, Kept)
    <2>1. ASSUME NEW s \in Kept, NEW w \in Window PROVE [s EXCEPT !.xmapped[w] = FALSE] \in Kept
      <3>1. [s EXCEPT !.xmapped[w] = FALSE] \in State
        BY ZenonT(60), <1>1 DEF State
      <3>2. LET t == [s EXCEPT !.xmapped[w] = FALSE]
            IN  t.qvwmList = s.qvwmList /\ t.mapped = s.mapped /\ t.status = s.status
        BY <1>1 DEF State
      <3> QED
        BY <1>1, <3>1, <3>2, SameRestorable DEF Kept
    <2>2. \A s \in Kept, w \in Window : DeleteQvwm(s, w) \in Kept
      BY <1>1, DeleteQvwmType, DeleteQvwmRestorable DEF Kept, NoneLost, NoneLostBut
    <2>3. \A s \in Kept, w \in Window, pointer \in Qvwm : DestroyQvwm(s, w, pointer) \in Kept
      BY <1>1, DestroyQvwmType, DestroyQvwmRestorable DEF Kept
    <2> QED
      BY <2>1, <2>2, <2>3 DEF Dead
  <1>6. ASSUME NEW s \in Kept PROVE [s EXCEPT !.frames = {}] \in Kept
    <2>1. [s EXCEPT !.frames = {}] \in State
      BY ZenonT(60), <1>1 DEF State
    <2>2. LET t == [s EXCEPT !.frames = {}]
          IN  t.qvwmList = s.qvwmList /\ t.mapped = s.mapped /\ t.status = s.status
      BY <1>1 DEF State
    <2> QED
      BY <1>1, <2>1, <2>2, SameRestorable DEF Kept
  <1> QED
    BY <1>3, <1>4, <1>5, <1>6, ShownKept DEF Leads

\* Restorable says NoneLost(wm) of a typed state.
LEMMA RestorableIsNoneLost ==
    ASSUME TypeInv
    PROVE  Restorable <=> wm \in Kept
  <1>1. wm \in State /\ wm.qvwmList \subseteq Window
    BY DEF TypeInv, State
  <1> QED
    BY <1>1 DEF Restorable, NoneLost, Unlost, Kept

\* A main window that qvwm keeps unmapped is minimized, so that RestoreWindow, which
\* returns early on any other, can bring it back: for any windows, hints and
\* settings in which a window that starts iconic has a taskbar button.
THEOREM RestorableCorrect ==
    ASSUME IconicHasButton
    PROVE  Spec => []Restorable
  <1>1. Init => Restorable
    BY DEF Init, InitState, Restorable
  <1>2. ASSUME TypeInv, LoopInv, TypeInv', Restorable, [Next]_vars PROVE Restorable'
    <2>1. ASSUME NEW s \in Kept, NEW w \in Window, NEW b \in BOOLEAN
          PROVE  [s EXCEPT !.xmapped[w] = b] \in Kept
      <3>1. s \in State /\ NoneLost(s)
        BY DEF Kept
      <3>2. [s EXCEPT !.xmapped[w] = b] \in State
        BY <3>1 DEF State
      <3>3. LET t == [s EXCEPT !.xmapped[w] = b]
            IN  t.qvwmList = s.qvwmList /\ t.mapped = s.mapped /\ t.status = s.status
        BY <3>1 DEF State
      <3> QED
        BY <3>1, <3>2, <3>3, SameRestorable DEF Kept
    <2>2. wm' \in Kept
      <3>1. wm \in Kept /\ Kept \in SUBSET State
        BY <1>2, RestorableIsNoneLost DEF Kept
      <3> QED
        BY <1>2, <2>1, <3>1, KeptLeads, StatesKept
    <2>3. wm'.qvwmList \subseteq Window
      BY <1>2 DEF TypeInv, State
    <2> QED
      BY <2>2, <2>3 DEF Restorable, Kept, NoneLost, Unlost, CheckMapped, Minimized
  <1> QED
    BY <1>1, <1>2, TypeCorrect, PTL DEF Spec
-----------------------------------------------------------------------------
(* What clients are owed *)

\* The last request for w comes after every notice that would withdraw it.
AskedIn(q, w) ==
    \E i \in DOMAIN q : /\ q[i] = XEvent("MapRequest", w)
                        /\ \A j \in DOMAIN q : q[j] = XEvent("UnmapNotify", w) => j < i

\* No notice is to withdraw w.
QuietIn(q, w) == \A i \in DOMAIN q : q[i] # XEvent("UnmapNotify", w)

\* w is to be managed, is, or is to be captured.
Coming(w) ==
    \/ AskedIn(queue, w)
    \/ QuietIn(queue, w) /\ w \in wm.qvwmList
    \/ QuietIn(queue, w) /\ pass = "capture" /\ w \in todo /\ (wm.xmapped[w] \/ w \in WasIconic)

OwedInv ==
    /\ wanted \subseteq alive
    /\ \A w \in alive : ~Pending("DestroyNotify", w)
    /\ wm \in Tidy
    /\ \A w \in Owed : Coming(w)

\* The states that keep w, and those that keep it or let the server show it.
Holding(w) == {s \in State : w \in s.qvwmList}
InSight(w) == {s \in Tidy : w \in s.qvwmList \/ s.xmapped[w]}

\* Events that do not withdraw w, added to the queue, do not matter to it.
LEMMA QueueGrows ==
    ASSUME NEW q \in Seq(Event), NEW r \in Seq(Event), NEW w, QuietIn(r, w)
    PROVE  /\ AskedIn(q, w) => AskedIn(q \o r, w)
           /\ QuietIn(q, w) => QuietIn(q \o r, w)
  <1>1. /\ \A i \in DOMAIN q : i \in DOMAIN (q \o r) /\ (q \o r)[i] = q[i]
        /\ \A i \in DOMAIN (q \o r) :
             (i \in DOMAIN q /\ (q \o r)[i] = q[i]) \/ \E j \in DOMAIN r : (q \o r)[i] = r[j]
    BY ConcatItems
  <1>2. \A i \in DOMAIN (q \o r) :
          (q \o r)[i] = XEvent("UnmapNotify", w) => i \in DOMAIN q /\ (q \o r)[i] = q[i]
    BY <1>1 DEF QuietIn
  <1>3. AskedIn(q, w) => AskedIn(q \o r, w)
    <2> HAVE AskedIn(q, w)
    <2>1. PICK i \in DOMAIN q : /\ q[i] = XEvent("MapRequest", w)
                                /\ \A j \in DOMAIN q : q[j] = XEvent("UnmapNotify", w) => j < i
      BY DEF AskedIn
    <2>2. \A j \in DOMAIN (q \o r) : (q \o r)[j] = XEvent("UnmapNotify", w) => j < i
      BY <1>2, <2>1
    <2> QED
      BY <1>1, <2>1, <2>2 DEF AskedIn
  <1>4. QuietIn(q, w) => QuietIn(q \o r, w)
    BY <1>2 DEF QuietIn
  <1> QED
    BY <1>3, <1>4

\* Nor does the event at the head, unless it is the request itself.
LEMMA QueueShrinks ==
    ASSUME NEW q \in Seq(Event), q # <<>>, NEW w
    PROVE  /\ AskedIn(q, w) => \/ AskedIn(Tail(q), w)
                               \/ Head(q) = XEvent("MapRequest", w) /\ QuietIn(Tail(q), w)
           /\ QuietIn(q, w) => QuietIn(Tail(q), w) /\ Head(q) # XEvent("UnmapNotify", w)
  <1>1. /\ Head(q) = q[1] /\ Tail(q) \in Seq(Event) /\ Len(Tail(q)) = Len(q) - 1
        /\ \A k \in 1..Len(Tail(q)) : Tail(q)[k] = q[k + 1]
    BY HeadTailProperties
  <1>2. /\ Len(q) \in Nat /\ DOMAIN q = 1..Len(q) /\ DOMAIN Tail(q) = 1..Len(Tail(q))
        /\ 1 \in DOMAIN q
    <2>1. Len(q) \in Nat /\ DOMAIN q = 1..Len(q) /\ DOMAIN Tail(q) = 1..Len(Tail(q))
      BY <1>1, LenProperties
    <2>2. Len(q) # 0
      BY EmptySeq
    <2> QED
      BY <2>1, <2>2
  <1>3. \A k \in DOMAIN Tail(q) : k + 1 \in DOMAIN q /\ Tail(q)[k] = q[k + 1] /\ k \in Nat
    BY <1>1, <1>2
  <1>4. QuietIn(q, w) => QuietIn(Tail(q), w) /\ Head(q) # XEvent("UnmapNotify", w)
    BY <1>1, <1>2, <1>3 DEF QuietIn
  <1>5. ASSUME AskedIn(q, w)
        PROVE  AskedIn(Tail(q), w) \/ (Head(q) = XEvent("MapRequest", w) /\ QuietIn(Tail(q), w))
    <2>1. PICK i \in DOMAIN q : /\ q[i] = XEvent("MapRequest", w)
                                /\ \A j \in DOMAIN q : q[j] = XEvent("UnmapNotify", w) => j < i
      BY <1>5 DEF AskedIn
    <2>2. CASE i = 1
      <3>1. \A j \in DOMAIN q : q[j] # XEvent("UnmapNotify", w)
        BY <1>2, <2>1, <2>2
      <3> QED
        BY <1>1, <1>3, <2>1, <2>2, <3>1 DEF QuietIn
    <2>3. CASE i # 1
      <3>1. i - 1 \in DOMAIN Tail(q) /\ Tail(q)[i - 1] = q[i] /\ i \in Nat
        BY <1>1, <1>2, <2>3
      <3>2. \A j \in DOMAIN Tail(q) : Tail(q)[j] = XEvent("UnmapNotify", w) => j < i - 1
        BY <1>3, <2>1, <3>1
      <3> QED
        BY <2>1, <3>1, <3>2 DEF AskedIn
    <2> QED
      BY <2>2, <2>3
  <1> QED
    BY <1>4, <1>5

\* A request just made comes after everything.
LEMMA RequestLast ==
    ASSUME NEW q \in Seq(Event), NEW w \in Window
    PROVE  AskedIn(Append(q, XEvent("MapRequest", w)), w)
  <1> DEFINE e == XEvent("MapRequest", w)
             p == Append(q, e)
  <1>1. e \in Event /\ e # XEvent("UnmapNotify", w)
    BY DEF XEvent, Event, EventType
  <1>2. /\ Len(q) \in Nat /\ DOMAIN p = 1..(Len(q) + 1) /\ p[Len(q) + 1] = e
    BY <1>1
  <1> HIDE DEF e, p
  <1>3. Len(q) + 1 \in DOMAIN p /\ \A j \in DOMAIN p : p[j] # e => j < Len(q) + 1
    BY <1>2
  <1>4. \A j \in DOMAIN p : p[j] = XEvent("UnmapNotify", w) => j < Len(q) + 1
    BY <1>1, <1>3
  <1>5. AskedIn(p, w)
    BY <1>2, <1>3, <1>4 DEF AskedIn, e
  <1> QED
    BY <1>5 DEF p, e

\* A window that no handler may delete now is deleted by none.
LEMMA SparedLead ==
    ASSUME NEW G \in SUBSET State, Lives(G), Begets(G, CloseSoon \cup Leaving),
           \A s \in G, w \in Leaving : [s EXCEPT !.xmapped[w] = FALSE] \in G
    PROVE  Leads(G, G)
  <1>1. /\ Born(G, G)
        /\ \A s \in G, w \in Window, pointer \in Qvwm :
             w \in s.qvwmList \cap (CloseSoon \cup Leaving) => DestroyQvwm(s, w, pointer) \in G
    BY LivesBear
  <1>2. \A s \in G, w \in Window : [s EXCEPT !.xmapped[w] = FALSE].qvwmList = s.qvwmList
    BY DEF State
  <1>3. Dead(G, G)
    BY <1>1, <1>2 DEF Dead, Begets
  <1> QED
    BY <1>1, <1>3, LivesLead DEF Leads

LEMMA HoldingLeads ==
    ASSUME NEW w \in Window, w \notin CloseSoon \cup Leaving
    PROVE  Leads(Holding(w), Holding(w)) /\ Holding(w) \in SUBSET State
  <1> DEFINE G == Holding(w)
  <1>1. G \in SUBSET State /\ CloseSoon \cup Leaving \subseteq Window
    BY SettingsType DEF Holding, Leaving
  <1>2. Lives(G)
    <2>1. \A s \in G : \A t : SameLife(s, t) => t \in G
      BY DEF Holding, SameLife
    <2>2. ASSUME NEW s \in G, NEW x \in Window, NEW b \in BOOLEAN
          PROVE  MapWindow(s, x, b) \in G /\ UnmapWindow(s, x, b) \in G
      <3>1. MapWindow(s, x, b) \in State /\ UnmapWindow(s, x, b) \in State
        BY PointerType, MapWindowType, UnmapWindowType DEF Holding
      <3>2. MapWindow(s, x, b).qvwmList = s.qvwmList /\ UnmapWindow(s, x, b).qvwmList = s.qvwmList
        BY DEF Holding, MapWindow, UnmapWindow, State
      <3> QED
        BY <3>1, <3>2 DEF Holding
    <2> QED
      BY <2>1, <2>2 DEF Lives
  <1>3. Begets(G, CloseSoon \cup Leaving)
    <2>1. ASSUME NEW s \in G, NEW x \in Window, NEW junk \in BOOLEAN
          PROVE  NewQvwm(s, x, junk) \in G /\ (x # w => DeleteQvwm(s, x) \in G)
      <3>1. NewQvwm(s, x, junk) \in State /\ DeleteQvwm(s, x) \in State
        BY NewQvwmType, DeleteQvwmType DEF Holding
      <3>2. /\ NewQvwm(s, x, junk).qvwmList = s.qvwmList \cup {x}
            /\ DeleteQvwm(s, x).qvwmList = s.qvwmList \ {x}
        BY DEF Holding, NewQvwm, DeleteQvwm, State
      <3> QED
        BY <3>1, <3>2 DEF Holding
    <2> QED
      BY <2>1 DEF Begets
  <1>4. ASSUME NEW s \in G, NEW x \in Window PROVE [s EXCEPT !.xmapped[x] = FALSE] \in G
    BY DEF Holding, State
  <1> QED
    BY <1>1, <1>2, <1>3, <1>4, SparedLead

LEMMA InSightLeads ==
    ASSUME NEW w \in Window, w \notin CloseSoon \cup Leaving
    PROVE  Leads(InSight(w), InSight(w)) /\ InSight(w) \in SUBSET State
  <1> DEFINE G == InSight(w)
  <1>1. G \in SUBSET State /\ CloseSoon \cup Leaving \subseteq Window /\ Lives(Tidy)
        /\ Begets(Tidy, Window) /\ \A s \in G : s \in Tidy /\ s \in State
    BY SettingsType, TidyBegets DEF InSight, Leaving, Tidy
  <1>2. Lives(G)
    <2>1. \A s \in G : \A t : SameLife(s, t) => t \in G
      BY <1>1 DEF InSight, SameLife, Lives
    <2>2. ASSUME NEW s \in G, NEW x \in Window, NEW b \in BOOLEAN
          PROVE  /\ MapWindow(s, x, b) \in G
                 /\ x \in s.qvwmList => UnmapWindow(s, x, b) \in G
      <3> DEFINE m == MapWindow(s, x, b)
                 u == UnmapWindow(s, x, b)
                 R == Reached(s, x, b)
      <3>1. m \in Tidy /\ (x \in s.qvwmList => u \in Tidy)
        BY <1>1 DEF Lives
      <3>2. /\ m.qvwmList = s.qvwmList /\ u.qvwmList = s.qvwmList
            /\ m.xmapped[w] = (w \in R \/ s.xmapped[w])
            /\ u.xmapped[w] = (w \notin R /\ s.xmapped[w])
        BY <1>1 DEF MapWindow, UnmapWindow, State
      <3>3. x \in s.qvwmList => R \subseteq s.qvwmList
        BY <1>1, ReachedManaged
      <3> HIDE DEF m, u, R
      <3>4. m \in G /\ (x \in s.qvwmList => u \in G)
        BY <3>1, <3>2, <3>3 DEF InSight
      <3> QED
        BY <3>4 DEF m, u
    <2> QED
      BY <2>1, <2>2 DEF Lives
  <1>3. Begets(G, CloseSoon \cup Leaving)
    <2>1. ASSUME NEW s \in G, NEW x \in Window, NEW junk \in BOOLEAN
          PROVE  /\ x \in alive \ s.qvwmList => NewQvwm(s, x, junk) \in G
                 /\ x \in s.qvwmList /\ x # w => DeleteQvwm(s, x) \in G
      <3>1. /\ x \in alive \ s.qvwmList => NewQvwm(s, x, junk) \in Tidy
            /\ x \in s.qvwmList => DeleteQvwm(s, x) \in Tidy
        BY <1>1 DEF Begets
      <3>2. /\ NewQvwm(s, x, junk).qvwmList = s.qvwmList \cup {x}
            /\ DeleteQvwm(s, x).qvwmList = s.qvwmList \ {x}
            /\ NewQvwm(s, x, junk).xmapped = s.xmapped /\ DeleteQvwm(s, x).xmapped = s.xmapped
        BY <1>1 DEF NewQvwm, DeleteQvwm, State
      <3> QED
        BY <3>1, <3>2 DEF InSight
    <2> QED
      BY <2>1 DEF Begets
  <1>4. ASSUME NEW s \in G, NEW x \in Leaving PROVE [s EXCEPT !.xmapped[x] = FALSE] \in G
    <2> DEFINE t == [s EXCEPT !.xmapped[x] = FALSE]
    <2>1. /\ t \in State /\ t.qvwmList = s.qvwmList /\ t.qvMain = s.qvMain /\ t.trList = s.trList
          /\ t.xmapped[w] = s.xmapped[w]
      BY <1>1 DEF State
    <2> HIDE DEF t
    <2>2. t \in G
      BY <1>1, <2>1 DEF InSight, Tidy
    <2> QED
      BY <2>2 DEF t
  <1> QED
    BY <1>1, <1>2, <1>3, <1>4, SparedLead

\* No step makes trList lead astray.
LEMMA TidyKept ==
    ASSUME TypeInv, LoopInv, [Next]_vars, wm \in Tidy
    PROVE  wm' \in Tidy
  <1>1. Lives(Tidy) /\ Begets(Tidy, Window) /\ CloseSoon \subseteq Window
        /\ Tidy \in SUBSET State
    BY TidyBegets, SettingsType DEF Tidy
  <1>2. ASSUME NEW s \in Tidy, NEW w \in Window, NEW b \in BOOLEAN
        PROVE  /\ [s EXCEPT !.xmapped[w] = b] \in Tidy
               /\ [s EXCEPT !.xmapped[w] = b].qvwmList = s.qvwmList
    <2> DEFINE t == [s EXCEPT !.xmapped[w] = b]
    <2>1. t \in State /\ t.qvwmList = s.qvwmList /\ t.qvMain = s.qvMain /\ t.trList = s.trList
      BY DEF Tidy, State
    <2> HIDE DEF t
    <2>2. t \in Tidy
      BY <2>1 DEF Tidy
    <2> QED
      BY <2>1, <2>2 DEF t
  <1>3. \A s \in Tidy, w \in Window :
          /\ [s EXCEPT !.xmapped[w] = FALSE] \in Tidy
          /\ [s EXCEPT !.xmapped[w] = FALSE].qvwmList = s.qvwmList
    BY <1>2
  <1>4. Dead(Tidy, Tidy)
    BY <1>1, <1>3, LivesBear DEF Dead, Begets
  <1>5. Leads(Tidy, Tidy)
    BY <1>1, <1>4, LivesLead, LivesBear DEF Leads
  <1> QED
    BY <1>1, <1>2, <1>5, StatesKept

\* A request for a window that is there ends with the window managed.
LEMMA MapRequestManaged ==
    ASSUME NEW s \in State, NEW w \in Window \ CloseSoon, NEW junk \in BOOLEAN,
           NEW pointer \in Qvwm
    PROVE  w \in MapRequestResult(s, w, junk, pointer).qvwmList
  <1> DEFINE t == IF w \in s.qvwmList THEN s ELSE NewQvwm(s, w, junk)
             u == IF w \in InitIconic THEN MinimizeWindow(t, w, TRUE, pointer)
                  ELSE IF w \in InitMaximize THEN MaximizeWindow(t, w, FALSE)
                  ELSE IF Minimized(t, w) THEN RestoreWindow(t, w, FALSE)
                  ELSE MapWindows(t, w, TRUE)
  <1>1. w \in Qvwm
    BY DEF Qvwm
  <1>2. t \in State /\ w \in t.qvwmList
    <2>1. NewQvwm(s, w, junk).qvwmList = s.qvwmList \cup {w}
      BY DEF NewQvwm, State
    <2> QED
      BY <2>1, NewQvwmType
  <1>3. MapRequestResult(s, w, junk, pointer) \in
          {[u EXCEPT !.unmapList = InsertTail(@, w)], SetFocus(u, w), u}
    BY Zenon DEF MapRequestResult
  <1>0. u \in {MinimizeWindow(t, w, TRUE, pointer), MaximizeWindow(t, w, FALSE),
              RestoreWindow(t, w, FALSE), MapWindows(t, w, TRUE)}
    BY Zenon
  <1> HIDE DEF t, u
  <1>4. u \in State /\ u.qvwmList = t.qvwmList
    <2>1. CASE u = MinimizeWindow(t, w, TRUE, pointer)
      BY <1>1, <1>2, <2>1, MinimizeWindowType, MinimizeManaged
    <2>2. CASE u = MaximizeWindow(t, w, FALSE)
      BY <1>1, <1>2, <2>2, MaximizeWindowType, ShowManaged
    <2>3. CASE u = RestoreWindow(t, w, FALSE)
      BY <1>1, <1>2, <2>3, RestoreWindowType, ShowManaged
    <2>4. CASE u = MapWindows(t, w, TRUE)
      BY <1>2, <2>4, MapWindowsType, MappingManaged
    <2> QED
      BY <1>0, <2>1, <2>2, <2>3, <2>4
  <1>5. [u EXCEPT !.unmapList = InsertTail(@, w)].qvwmList = u.qvwmList
    BY <1>4 DEF State
  <1>6. SetFocus(u, w).qvwmList = u.qvwmList
    BY <1>1, <1>4, SetFocusManaged
  <1> QED
    BY <1>2, <1>3, <1>4, <1>5, <1>6

\* A window that is owed a map is not about to be deleted while no notice of its
\* client's unmap is in the queue.
LEMMA QuietSpared ==
    ASSUME TypeInv, LoopInv, OwedInv, NEW w \in Owed, QuietIn(queue, w)
    PROVE  w \in Window /\ w \in alive /\ w \notin CloseSoon \cup Leaving
  <1>1. w \in alive /\ w \in Window /\ w \notin CloseSoon \cup Override
    BY DEF OwedInv, Owed, TypeInv
  <1>2. ASSUME w \in Leaving PROVE FALSE
    <2>1. queue # <<>> /\ queue \in Seq(Event) /\ queue \in Seq(SentEvent)
      BY <1>2 DEF Leaving, TypeInv, LoopInv
    <2>2. Head(queue) \in Event /\ Head(queue) \in SentEvent /\ Head(queue) = queue[1]
      BY <2>1, HeadTailProperties
    <2>3. 1 \in DOMAIN queue
      BY <2>1, LenProperties, EmptySeq
    <2>4. Head(queue) = XEvent(Head(queue).type, w)
      BY <1>2, <2>2 DEF Event, XEvent, Leaving, EventWindow
    <2>5. Head(queue).type # "UnmapNotify"
      BY <2>2, <2>3, <2>4 DEF QuietIn
    <2>6. Head(queue).type # "DestroyNotify"
      BY <1>1, <2>2, <2>3, <2>4 DEF OwedInv, Pending
    <2>7. Head(queue).type # "MapNotifyOverride"
      BY <1>1, <1>2, <2>2 DEF SentEvent, Leaving, EventWindow
    <2> QED
      BY <1>2, <2>5, <2>6, <2>7 DEF Leaving
  <1> QED
    BY <1>1, <1>2

\* A window a handler lets go although the server had it mapped is remembered, and
\* no other is withdrawn by what the handler causes.
LEMMA EchoQuiet ==
    ASSUME TypeInv, NEW r, Echo(r), NEW w \in Window, w \notin LetGo
    PROVE  QuietIn(r, w) /\ \A i \in DOMAIN r : r[i] # XEvent("DestroyNotify", w)
  <1>1. w \notin Remapped
    BY WithdrawnWindow DEF Remapped, LetGo
  <1> QED
    BY <1>1 DEF Echo, QuietIn, XEvent

\* The head of the queue, if it is a request for w, ends with w managed.
LEMMA RequestHandled ==
    ASSUME TypeInv, DispatchStep, NEW w \in alive \ CloseSoon, Head(queue) = XEvent("MapRequest", w)
    PROVE  w \in wm'.qvwmList
  <1>1. wm \in State /\ Pointer \subseteq Qvwm /\ EventWindow = w /\ w \in Window
        /\ Head(queue).type = "MapRequest"
    BY PointerType DEF TypeInv, EventWindow, XEvent
  <1>2. MapRequestProc
    BY <1>1 DEF DispatchStep, MapRequestProc, MapNotifyOverrideProc, MapNotifyProc,
       UnmapNotifyProc, DestroyNotifyProc, ClientMessageProc, ClientMessage, Dispatch
  <1>3. PICK junk \in BOOLEAN, pointer \in Pointer :
          Leave(MapRequestResult(wm, w, junk, pointer), Tail(queue))
    BY <1>1, <1>2 DEF MapRequestProc
  <1> DEFINE s == MapRequestResult(wm, w, junk, pointer)
  <1>4. s \in State /\ w \in s.qvwmList
    BY <1>1, MapRequestResultType, MapRequestManaged
  <1> HIDE DEF s
  <1>5. Leave(s, Tail(queue))
    BY <1>3 DEF s
  <1> QED
    BY <1>4, <1>5 DEF Leave, State

\* During the capture a window still to be visited stays so, or is managed.
LEMMA CaptureKeeps ==
    ASSUME TypeInv, LoopInv, OwedInv, Next, ~ClientStep, pass = "capture",
           NEW w \in Owed, QuietIn(queue, w), w \in todo, wm.xmapped[w] \/ w \in WasIconic
    PROVE  \/ w \in wm'.qvwmList
           \/ pass' = "capture" /\ w \in todo' /\ (wm'.xmapped[w] \/ w \in WasIconic)
  <1>1. w \in Window /\ w \in alive /\ w \notin CloseSoon \cup Leaving /\ wm \in State /\ wm \in Tidy
    BY QuietSpared DEF TypeInv, OwedInv
  <1>2. PassStep
    BY DEF Next, DispatchStep, MapRequestProc, MapNotifyOverrideProc, MapNotifyProc,
       UnmapNotifyProc, DestroyNotifyProc, ClientMessageProc, Dispatch,
       InputStep, Button1Press, Button3Release, Enter, FrameButton1, FrameButton2,
       MiniatureButton1Press, TaskbarButtonPush, TaskbarButton3Release, DesktopFocus, SwitchPage,
       FunctionStep, Q_RESTORE, Q_FOCUS, Q_RAISE_FOCUS, Q_MINIMIZE, Q_MAXIMIZE,
       Q_MAXIMIZE_ONEWAY, Q_EXPAND, Q_TOGGLE_TITLE, Q_TOGGLE_FOCUS, Q_TOGGLE_TBUTTON,
       Q_CHANGE_WINDOW, Q_CHANGE_WINDOW_BACK, Q_CHANGE_WINDOW_INSCR, Q_CHANGE_WINDOW_BACK_INSCR,
       RollFocusOnEmptyList, MinimizeAll, RestoreAll, StartPass, Handle
  <1>3. PICK x \in Window : CaptureWindow(x)
    BY <1>2 DEF PassStep, MinimizeNext, RestoreNext, Visit, CaptureDone, PassDone
  <1>4. CASE x = w
    <2>1. PICK junk \in BOOLEAN, pointer \in Pointer :
            Visit("capture", w, CaptureResult(wm, w, junk, pointer))
      BY <1>1, <1>3, <1>4 DEF CaptureWindow
    <2> DEFINE s == CaptureResult(wm, w, junk, pointer)
    <2>2. s \in State /\ w \in s.qvwmList
      BY <1>1, PointerType, CaptureResultType, CaptureManaged
    <2> HIDE DEF s
    <2>3. Visit("capture", w, s)
      BY <2>1 DEF s
    <2> QED
      BY <2>2, <2>3 DEF Visit, Leave, State
  <1>5. CASE x # w
    <2>1. pass' = "capture" /\ w \in todo'
      BY <1>3, <1>5 DEF CaptureWindow, Visit
    <2>2. wm.xmapped[w] => wm' \in InSight(w)
      <3> HAVE wm.xmapped[w]
      <3>1. wm \in InSight(w)
        BY <1>1 DEF InSight
      <3> QED
        BY <1>1, <3>1, InSightLeads, HandlersLead
    <2> QED
      BY <2>1, <2>2 DEF InSight
  <1> QED
    BY <1>4, <1>5

\* A handler does not forget a window that is owed a map.
LEMMA OwedHandled ==
    ASSUME TypeInv, LoopInv, OwedInv, Next, ~ClientStep,
           NEW w \in Owed, w \notin LetGo
    PROVE  Coming(w)'
  <1>1. /\ (DispatchStep /\ Added(Tail(queue))) \/ (~DispatchStep /\ Added(queue))
        /\ queue \in Seq(Event) /\ wm \in State
    BY StateLeads, HandlersLead DEF TypeInv
  <1>2. w \in alive /\ w \in Window /\ w \notin CloseSoon
    BY DEF OwedInv, Owed, TypeInv
  <1>3. \A q \in Seq(Event) : Added(q) =>
          /\ AskedIn(q, w) => AskedIn(queue', w)
          /\ QuietIn(q, w) => QuietIn(queue', w)
    <2> SUFFICES ASSUME NEW q \in Seq(Event), NEW r, Echo(r), queue' = q \o r
                 PROVE  /\ AskedIn(q, w) => AskedIn(queue', w)
                        /\ QuietIn(q, w) => QuietIn(queue', w)
      BY DEF Added
    <2>1. r \in Seq(Event) /\ QuietIn(r, w)
      BY <1>2, EchoQuiet DEF Echo
    <2> QED
      BY <2>1, QueueGrows
  <1>4. DispatchStep => queue # <<>> /\ pass = "none" /\ Tail(queue) \in Seq(Event)
    <2>1. DispatchStep => queue # <<>> /\ pass = "none"
      BY DEF DispatchStep, MapRequestProc, MapNotifyOverrideProc, MapNotifyProc,
         UnmapNotifyProc, DestroyNotifyProc, ClientMessageProc, Dispatch
    <2> QED
      BY <1>1, <2>1, HeadTailProperties
  <1>5. QuietIn(queue, w) => QuietIn(queue', w)
    BY <1>1, <1>3, <1>4, QueueShrinks
  <1>6. CASE AskedIn(queue, w)
    <2>1. CASE ~DispatchStep \/ AskedIn(Tail(queue), w)
      BY <1>1, <1>3, <1>4, <1>6, <2>1, QueueShrinks DEF Coming
    <2>2. CASE DispatchStep /\ ~AskedIn(Tail(queue), w)
      <3>1. Head(queue) = XEvent("MapRequest", w) /\ QuietIn(Tail(queue), w)
        BY <1>1, <1>4, <1>6, <2>2, QueueShrinks
      <3>2. w \in wm'.qvwmList
        BY <1>2, <2>2, <3>1, RequestHandled
      <3> QED
        BY <1>1, <1>3, <1>4, <2>2, <3>1, <3>2 DEF Coming
    <2> QED
      BY <2>1, <2>2
  <1>7. CASE QuietIn(queue, w) /\ w \in wm.qvwmList
    <2>1. w \notin CloseSoon \cup Leaving
      BY <1>7, QuietSpared
    <2>2. wm \in Holding(w)
      BY <1>1, <1>7 DEF Holding
    <2>3. wm' \in Holding(w)
      BY <1>2, <2>1, <2>2, HoldingLeads, HandlersLead
    <2> QED
      BY <1>5, <1>7, <2>3 DEF Coming, Holding
  <1>8. CASE QuietIn(queue, w) /\ pass = "capture" /\ w \in todo /\ (wm.xmapped[w] \/ w \in WasIconic)
    BY <1>5, <1>8, CaptureKeeps DEF Coming
  <1> QED
    BY <1>6, <1>7, <1>8 DEF OwedInv, Coming

\* Nor does another client, or its own but by an unmap.
LEMMA OwedOfClients ==
    ASSUME TypeInv, OwedInv, NEW x \in Window,
           \/ ClientMap(x) \/ ClientMapOverride(x) \/ ClientUnmap(x) \/ ClientDestroy(x)
           \/ \E message \in ClientMessage : ClientSendsMessage(x, message)
    PROVE  /\ wanted' \subseteq alive'
           /\ \A w \in alive' : ~Pending("DestroyNotify", w)'
           /\ \A w \in Owed : w \in wanted' => Coming(w)'
           /\ \A w \in wanted' : w \in wanted \/ queue' = Append(queue, XEvent("MapRequest", w))
  <1>1. wm \in State /\ queue \in Seq(Event) /\ x \notin (Owed \cap Override)
        /\ wanted \subseteq alive
    BY DEF TypeInv, Owed, OwedInv
  <1>2. \A type \in EventType : XEvent(type, x) \in Event
    BY DEF XEvent, Event
  <1>3. ASSUME NEW r \in Seq(Event), queue' = queue \o r,
               \A i \in DOMAIN r : r[i].window = x,
               x \in Owed /\ x \in wanted' => QuietIn(r, x) /\ wm' = wm,
               x \in alive' => \A i \in DOMAIN r : r[i] # XEvent("DestroyNotify", x),
               alive' \subseteq alive, UNCHANGED <<pass, todo>>,
               wm' = wm \/ \E b \in BOOLEAN : wm' = [wm EXCEPT !.xmapped[x] = b]
        PROVE  /\ \A w \in alive' : ~Pending("DestroyNotify", w)'
               /\ \A w \in Owed : w \in wanted' => Coming(w)'
    <2>1. /\ wm'.qvwmList = wm.qvwmList
          /\ \A w \in Window \ {x} : wm'.xmapped[w] = wm.xmapped[w]
      BY <1>1, <1>3 DEF State
    <2>2. ASSUME NEW w \in alive' PROVE ~Pending("DestroyNotify", w)'
      <3>1. \A i \in DOMAIN r : r[i] # XEvent("DestroyNotify", w)
        BY <1>3, <2>2 DEF XEvent
      <3>2. \A i \in DOMAIN queue : queue[i] # XEvent("DestroyNotify", w)
        BY <1>3, <2>2 DEF OwedInv, Pending
      <3>3. \A i \in DOMAIN (queue \o r) : (queue \o r)[i] # XEvent("DestroyNotify", w)
        BY <1>1, <3>1, <3>2, ConcatItems
      <3> QED
        BY <1>3, <3>3 DEF Pending, XEvent
    <2>3. ASSUME NEW w \in Owed, w \in wanted' PROVE Coming(w)'
      <3>1. QuietIn(r, w)
        BY <1>3, <2>3 DEF QuietIn, XEvent
      <3>2. /\ AskedIn(queue, w) => AskedIn(queue', w)
            /\ QuietIn(queue, w) => QuietIn(queue', w)
        BY <1>1, <1>3, <3>1, QueueGrows
      <3>3. w \in Window /\ wm'.xmapped[w] = wm.xmapped[w]
        BY <1>3, <2>1, <2>3 DEF Owed, TypeInv
      <3> QED
        BY <1>3, <2>1, <3>2, <3>3 DEF OwedInv, Coming
    <2> QED
      BY <2>2, <2>3
  <1>4. \A e \in Event : /\ <<e>> \in Seq(Event) /\ Append(queue, e) = queue \o <<e>>
                         /\ DOMAIN <<e>> = {1} /\ <<e>>[1] = e
    BY <1>1
  <1>5. <<>> \in Seq(Event) /\ queue \o <<>> = queue /\ DOMAIN <<>> = {}
    BY <1>1, EmptySeq, ConcatEmptySeq
  <1>6. ASSUME NEW type \in EventType \ {"DestroyNotify"}, queue' = Append(queue, XEvent(type, x)),
               x \in Owed /\ x \in wanted' => type # "UnmapNotify" /\ wm' = wm,
               alive' = alive, UNCHANGED <<pass, todo>>,
               wm' = wm \/ \E b \in BOOLEAN : wm' = [wm EXCEPT !.xmapped[x] = b]
        PROVE  /\ \A w \in alive' : ~Pending("DestroyNotify", w)'
               /\ \A w \in Owed : w \in wanted' => Coming(w)'
    <2> DEFINE e == XEvent(type, x)
    <2>1. e \in Event /\ e.window = x /\ e.type = type
      BY <1>2 DEF XEvent
    <2>2. /\ type # "UnmapNotify" => QuietIn(<<e>>, x)
          /\ \A i \in DOMAIN <<e>> : <<e>>[i] # XEvent("DestroyNotify", x) /\ <<e>>[i].window = x
      BY <1>4, <2>1 DEF QuietIn, XEvent
    <2> HIDE DEF e
    <2>3. <<e>> \in Seq(Event) /\ queue' = queue \o <<e>>
      BY <1>4, <1>6, <2>1 DEF e
    <2> QED
      BY <1>3, <1>6, <2>2, <2>3
  <1>7. CASE ClientMap(x)
    <2>1. /\ queue' = Append(queue, XEvent("MapRequest", x)) /\ wanted' = wanted \cup {x}
          /\ x \in alive /\ UNCHANGED <<wm, alive, pass, todo>>
          /\ "MapRequest" \in EventType \ {"DestroyNotify"}
      BY <1>7 DEF ClientMap, EventType
    <2> QED
      BY <1>1, <1>6, <2>1
  <1>8. CASE ClientMapOverride(x)
    <2>1. /\ queue' = Append(queue, XEvent("MapNotifyOverride", x)) /\ x \notin Owed
          /\ UNCHANGED <<alive, pass, todo, wanted>> /\ wm' = [wm EXCEPT !.xmapped[x] = TRUE]
          /\ "MapNotifyOverride" \in EventType \ {"DestroyNotify"}
      BY <1>1, <1>8 DEF ClientMapOverride, EventType
    <2> QED
      BY <1>1, <1>6, <2>1
  <1>9. CASE ClientUnmap(x)
    <2>1. /\ wanted' = wanted \ {x} /\ UNCHANGED <<alive, pass, todo>>
          /\ wm' = [wm EXCEPT !.xmapped[x] = FALSE]
          /\ "UnmapNotify" \in EventType \ {"DestroyNotify"}
      BY <1>9 DEF ClientUnmap, EventType
    <2>2. CASE x \in wm.qvwmList
      <3>1. queue' = Append(queue, XEvent("UnmapNotify", x))
        BY <1>9, <2>2 DEF ClientUnmap
      <3> QED
        BY <1>1, <1>6, <2>1, <3>1
    <2>3. CASE x \notin wm.qvwmList
      <3>1. queue' = queue \o <<>>
        BY <1>5, <1>9, <2>3 DEF ClientUnmap
      <3> QED
        BY <1>1, <1>3, <1>5, <2>1, <3>1
    <2> QED
      BY <2>2, <2>3
  <1>10. CASE ClientDestroy(x)
    <2> DEFINE unmap == IF wm.xmapped[x] THEN <<XEvent("UnmapNotify", x)>> ELSE <<>>
               sent == IF x \in wm.qvwmList THEN Append(unmap, XEvent("DestroyNotify", x))
                       ELSE <<>>
    <2>1. /\ queue' = queue \o sent /\ wm' = [wm EXCEPT !.xmapped[x] = FALSE]
          /\ alive' = alive \ {x} /\ wanted' = wanted \ {x} /\ UNCHANGED <<pass, todo>>
      BY <1>10, Zenon DEF ClientDestroy
    <2>2. sent \in Seq(Event) /\ \A i \in DOMAIN sent : sent[i].window = x
      <3> DEFINE u == XEvent("UnmapNotify", x)
                 d == XEvent("DestroyNotify", x)
      <3>1. u \in Event /\ d \in Event /\ u.window = x /\ d.window = x
        BY <1>2 DEF EventType, XEvent
      <3>2. unmap \in {<<>>, <<u>>}
        BY Zenon
      <3> HIDE DEF unmap, u, d
      <3>3. sent \in {<<>>, Append(unmap, d)}
        BY Zenon DEF d
      <3> HIDE DEF sent
      <3>4. <<>> \in Seq(Event) /\ \A i \in DOMAIN <<>> : <<>>[i].window = x
        BY EmptySeq
      <3>5. CASE sent = Append(unmap, d)
        <4>1. unmap \in Seq(Event) /\ \A i \in DOMAIN unmap : unmap[i].window = x
          <5>1. CASE unmap = <<>>
            BY <3>4, <5>1
          <5>2. CASE unmap = <<u>>
            BY <3>1, <5>2
          <5> QED
            BY <3>2, <5>1, <5>2
        <4>2. <<d>> \in Seq(Event) /\ \A i \in DOMAIN <<d>> : <<d>>[i].window = x
          BY <3>1
        <4>3. sent = unmap \o <<d>>
          BY <3>1, <3>5, <4>1, AppendIsConcat
        <4> QED
          BY <4>1, <4>2, <4>3, ConcatItems
      <3>6. CASE sent = <<>>
        BY <3>4, <3>6
      <3> QED
        BY <3>3, <3>5, <3>6
    <2> HIDE DEF sent
    <2> QED
      BY <1>1, <1>3, <2>1, <2>2
  <1>11. ASSUME NEW message \in ClientMessage, ClientSendsMessage(x, message)
         PROVE  /\ UNCHANGED <<alive, wanted>>
                /\ \A w \in alive' : ~Pending("DestroyNotify", w)'
                /\ \A w \in Owed : w \in wanted' => Coming(w)'
    <2>1. /\ queue' = Append(queue, XEvent(message, x)) /\ UNCHANGED <<wm, alive, pass, todo, wanted>>
          /\ message \in EventType \ {"DestroyNotify", "UnmapNotify"}
      BY <1>11 DEF ClientSendsMessage, ClientMessage, EventType
    <2> QED
      BY <1>6, <2>1
  <1> QED
    BY <1>1, <1>7, <1>8, <1>9, <1>10, <1>11

\* Every step keeps what is owed.
LEMMA OwedKept ==
    ASSUME TypeInv, LoopInv, OwedInv, [HistoryNext]_hvars
    PROVE  OwedInv'
  <1>1. CASE UNCHANGED hvars
    BY <1>1 DEF hvars, vars, OwedInv, Owed, Coming, AskedIn, QuietIn, Pending, XEvent
  <1>2. ASSUME HistoryNext PROVE OwedInv'
    <2>1. Next /\ withdrawn' = (withdrawn \cup LetGo) \ Asking
      BY <1>2 DEF HistoryNext
    <2>2. wm' \in Tidy
      BY <2>1, TidyKept DEF OwedInv
    <2>3. TypeInv'
      BY <2>1, TypeKept
    <2>4. ASSUME NEW w \in Window, queue' = Append(queue, XEvent("MapRequest", w))
          PROVE  Coming(w)'
      BY <2>4, RequestLast DEF TypeInv, Coming
    <2>5. ASSUME NEW w \in Owed', ~(queue' = Append(queue, XEvent("MapRequest", w))), w \in wanted
          PROVE  w \in Owed /\ w \notin LetGo
      BY <2>1, <2>5 DEF Owed, Asking
    <2>6. CASE ClientStep
      <3>1. PICK x \in Window :
              \/ ClientMap(x) \/ ClientMapOverride(x) \/ ClientUnmap(x) \/ ClientDestroy(x)
              \/ \E message \in ClientMessage : ClientSendsMessage(x, message)
        BY <2>6 DEF ClientStep
      <3>2. /\ wanted' \subseteq alive'
            /\ \A w \in alive' : ~Pending("DestroyNotify", w)'
            /\ \A w \in Owed : w \in wanted' => Coming(w)'
            /\ \A w \in wanted' :
                 w \in wanted \/ queue' = Append(queue, XEvent("MapRequest", w))
        BY <3>1, OwedOfClients
      <3>3. ASSUME NEW w \in Owed' PROVE Coming(w)'
        <4>1. w \in wanted' /\ w \in Window
          BY <2>3 DEF Owed, TypeInv
        <4> QED
          BY <2>4, <2>5, <3>2, <4>1
      <3> QED
        BY <2>2, <3>2, <3>3 DEF OwedInv
    <2>7. CASE ~ClientStep
      <3>1. alive' = alive /\ wanted' = wanted
        BY <2>1, <2>7, LoopKept
      <3>2. ASSUME NEW w \in Owed' PROVE Coming(w)'
        <4>1. w \in wanted /\ w \in Window
          BY <2>3, <3>1 DEF Owed, TypeInv
        <4> QED
          BY <2>1, <2>4, <2>5, <2>7, <4>1, OwedHandled
      <3>3. ASSUME NEW w \in alive PROVE ~Pending("DestroyNotify", w)'
        <4>1. queue \in Seq(Event) /\ ~Pending("DestroyNotify", w)
          BY DEF TypeInv, OwedInv
        <4>2. \E q \in Seq(Event) : Added(q) /\ \A i \in DOMAIN q : q[i] # XEvent("DestroyNotify", w)
          <5>1. /\ (DispatchStep /\ Added(Tail(queue))) \/ (~DispatchStep /\ Added(queue))
            BY <2>1, <2>7, StateLeads, HandlersLead DEF TypeInv
          <5>2. DispatchStep => queue # <<>>
            BY DEF DispatchStep, MapRequestProc, MapNotifyOverrideProc, MapNotifyProc,
               UnmapNotifyProc, DestroyNotifyProc, ClientMessageProc, Dispatch
          <5>3. queue # <<>> => /\ Tail(queue) \in Seq(Event)
                                /\ \A k \in DOMAIN Tail(queue) :
                                     k + 1 \in DOMAIN queue /\ Tail(queue)[k] = queue[k + 1]
            <6> HAVE queue # <<>>
            <6>1. /\ Tail(queue) \in Seq(Event) /\ Len(Tail(queue)) = Len(queue) - 1
                  /\ \A k \in 1..Len(Tail(queue)) : Tail(queue)[k] = queue[k + 1]
              BY <4>1, HeadTailProperties
            <6> QED
              BY <4>1, <6>1, LenProperties
          <5> QED
            BY <4>1, <5>1, <5>2, <5>3 DEF Pending
        <4>3. PICK q \in Seq(Event) :
                /\ \A i \in DOMAIN q : q[i] # XEvent("DestroyNotify", w)
                /\ \E r : Echo(r) /\ queue' = q \o r
          BY <4>2 DEF Added
        <4>6. PICK r : Echo(r) /\ queue' = q \o r
          BY <4>3
        <4>4. r \in Seq(Event) /\ \A i \in DOMAIN r : r[i] # XEvent("DestroyNotify", w)
          BY <4>6 DEF Echo, XEvent
        <4>5. \A i \in DOMAIN (q \o r) : (q \o r)[i] # XEvent("DestroyNotify", w)
          BY <4>3, <4>4, ConcatItems
        <4> QED
          BY <4>6, <4>5 DEF Pending, XEvent
      <3> QED
        BY <2>2, <3>1, <3>2, <3>3 DEF OwedInv
    <2> QED
      BY <2>6, <2>7
  <1> QED
    BY <1>1, <1>2

\* Once every event is handled, each window whose client wants it mapped is managed,
\* whatever else clients, users and handlers did in whatever order; but for those
\* qvwm let go although the server had them mapped, since the client last asked.
THEOREM NoLostMapCorrect == HistorySpec => []NoLostMap
  <1>1. HistoryInit => OwedInv
    <2> SUFFICES ASSUME HistoryInit PROVE OwedInv
      OBVIOUS
    <2>1. wm = InitState(Existing \ WasIconic) /\ queue = <<>> /\ alive = Window
          /\ wanted = Existing /\ pass = "capture" /\ todo = Existing /\ Existing \subseteq Window
      BY SettingsType DEF HistoryInit, Init
    <2>2. wm \in Tidy
      BY <2>1, InitType DEF HistoryInit, TypeInv, Tidy, InitState
    <2>3. \A w \in Existing : wm.xmapped[w] \/ w \in WasIconic
      BY <2>1 DEF InitState
    <2>4. DOMAIN queue = {}
      BY <2>1, EmptySeq
    <2> QED
      BY <2>1, <2>2, <2>3, <2>4 DEF OwedInv, Owed, Coming, QuietIn, Pending
  <1>2. OwedInv /\ TypeInv => NoLostMap
    <2>1. queue = <<>> => \A w : ~AskedIn(queue, w)
      BY EmptySeq DEF AskedIn
    <2> QED
      BY <2>1 DEF OwedInv, NoLostMap, Coming
  <1>3. HistorySpec => Spec
    <2>1. HistoryInit => Init
      BY DEF HistoryInit
    <2>2. [HistoryNext]_hvars => [Next]_vars
      BY DEF HistoryNext, hvars
    <2> QED
      BY <2>1, <2>2, PTL DEF HistorySpec, Spec
  <1> QED
    BY <1>1, <1>2, <1>3, TypeCorrect, OwedKept, PTL DEF HistorySpec
=============================================================================
