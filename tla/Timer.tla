-------------------------------- MODULE Timer --------------------------------
(***************************************************************************)
(* The callout list of class Timer (timer.cc): pending callbacks, the one  *)
(* due first at the head.  Time is a tick: "left" is what remains of a     *)
(* callout, 0 once MainLoop's next CheckTimeout would find it expired.     *)
(***************************************************************************)
EXTENDS Naturals, Sequences, FiniteSetsExt, SequencesExt

\* SetTimeout for a delay that is not 0: after the callouts due no later.
InsertCallout(coList, msec, cb) ==
    LET later == {i \in DOMAIN coList : coList[i].left > msec}
        co == [cb |-> cb, left |-> msec]
    IN  IF later = {} THEN Append(coList, co) ELSE InsertAt(coList, Min(later), co)

CalloutsOf(coList, cb) == {i \in DOMAIN coList : coList[i].cb = cb}

\* The callouts of cbs go, the others stay in their order.
Without(coList, cbs) ==
    LET kept == {i \in DOMAIN coList : coList[i].cb \notin cbs}
        Kept(n) == CHOOSE i \in kept : Cardinality(kept \cap (1..i)) = n
    IN  [n \in 1..Cardinality(kept) |-> coList[Kept(n)]]

\* Every callout of cb goes, there may be several.
ResetTimeout(coList, cb) == Without(coList, {cb})

Expired(coList) == {i \in DOMAIN coList : coList[i].left = 0}

Tick(coList) == [i \in DOMAIN coList |->
                    [coList[i] EXCEPT !.left = IF @ = 0 THEN 0 ELSE @ - 1]]
=============================================================================
