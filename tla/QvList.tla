------------------------------- MODULE QvList -------------------------------
(***************************************************************************)
(* List<T> of list.h, the doubly linked list under every registry of the   *)
(* window manager, seen as the sequence of the objects it links.           *)
(* A list may hold one object twice: InsertHead and InsertTail do not      *)
(* look, and Remove unlinks only the first item that holds the object.     *)
(***************************************************************************)
EXTENDS Naturals, Sequences

Has(q, e) == \E i \in DOMAIN q : q[i] = e

InsertHead(q, e) == <<e>> \o q
InsertTail(q, e) == Append(q, e)

\* The item at which the scan of List::Remove(obj) stops.
FirstIndex(q, e) == CHOOSE k \in DOMAIN q : q[k] = e /\ \A i \in 1..(k - 1) : q[i] # e

RemoveAt(q, k) == [i \in 1..(Len(q) - 1) |-> IF i < k THEN q[i] ELSE q[i + 1]]

Remove(q, e) == IF Has(q, e) THEN RemoveAt(q, FirstIndex(q, e)) ELSE q

\* RemoveHead and RemoveTail dereference an empty list: their callers must not.
GetHead(q) == Head(q)
GetTail(q) == q[Len(q)]
RemoveHead(q) == Tail(q)
RemoveTail(q) == SubSeq(q, 1, Len(q) - 1)

\* How often an object is linked, as far as the invariants ask.
AtMostOnce(q, e) == \A i, j \in DOMAIN q : q[i] = e /\ q[j] = e => i = j
AtMostTwice(q, e) ==
    \A i, j, k \in DOMAIN q :
        q[i] = e /\ q[j] = e /\ q[k] = e => i = j \/ j = k \/ i = k
=============================================================================
