------------------------- MODULE TaskSwitcherProofs -------------------------
(***************************************************************************)
(* The item the task switcher lights names the task it switches to, for    *)
(* any windows, transients and hints, if the focus follows clicks.  The    *)
(* walk starts from the head of mapList and the count from whether some    *)
(* window has the focus, so the two agree because FocusMgr keeps the       *)
(* focused main window at the head of mapList (HeadHasFocus); and this is  *)
(* so because YieldFocus never fails to move the focus, which is what the  *)
(* rest of Settled is for.                                                 *)
(***************************************************************************)
EXTENDS TaskSwitcher, SequenceTheorems, WellFoundedInduction, TLAPS
-----------------------------------------------------------------------------
(* Lists *)

\* Less-than as the well-founded relation that the library calls by this name.
LEMMA LessIsRelated ==
    ASSUME NEW i \in Nat, NEW k \in Nat, i < k
    PROVE  <<i, k>> \in OpToRel(<, Nat)
  BY Zenon DEF OpToRel

\* The scan of List::Remove(obj) stops at the first item that holds obj.
LEMMA FirstIndexProperties ==
    ASSUME NEW S, NEW q \in Seq(S), NEW e, Has(q, e)
    PROVE  /\ FirstIndex(q, e) \in 1..Len(q)
           /\ q[FirstIndex(q, e)] = e
           /\ \A i \in 1..(FirstIndex(q, e) - 1) : q[i] # e
  <1> DEFINE less == OpToRel(<, Nat)
             holds == {k \in DOMAIN q : q[k] = e}
  <1>1. DOMAIN q = 1..Len(q) /\ Len(q) \in Nat
    BY LenProperties
  <1>2. holds \subseteq Nat /\ holds # {}
    BY <1>1 DEF Has
  <1>3. \E x \in holds : \A y \in holds : ~(<<y, x>> \in less)
    BY <1>2, NatLessThanWellFounded, WFMin
  <1>4. \A i, k \in Nat : i < k => <<i, k>> \in less
    BY LessIsRelated
  <1> HIDE DEF less
  <1>5. PICK k \in holds : \A y \in holds : ~(<<y, k>> \in less)
    BY <1>3
  <1>6. \A i \in 1..(k - 1) : q[i] # e
    <2> SUFFICES ASSUME NEW i \in 1..(k - 1), q[i] = e PROVE FALSE
      OBVIOUS
    <2>1. k \in 1..Len(q)
      BY <1>1, <1>5
    <2>2. i \in holds /\ i \in Nat /\ k \in Nat /\ i < k
      BY <1>1, <2>1
    <2>3. <<i, k>> \in less
      BY <1>4, <2>2
    <2> QED
      BY <1>5, <2>2, <2>3
  <1>7. k \in DOMAIN q /\ q[k] = e /\ \A i \in 1..(k - 1) : q[i] # e
    BY <1>5, <1>6
  <1>8. FirstIndex(q, e) \in DOMAIN q /\ q[FirstIndex(q, e)] = e
        /\ \A i \in 1..(FirstIndex(q, e) - 1) : q[i] # e
    BY <1>7 DEF FirstIndex
  <1> QED
    BY <1>1, <1>8

\* Where an object is linked once, the scan finds it there.
LEMMA FoundAt ==
    ASSUME NEW S, NEW q \in Seq(S), NEW i \in 1..Len(q), AtMostOnce(q, q[i])
    PROVE  FirstIndex(q, q[i]) = i
  <1>1. DOMAIN q = 1..Len(q)
    BY LenProperties
  <1>2. Has(q, q[i])
    BY <1>1 DEF Has
  <1>3. FirstIndex(q, q[i]) \in DOMAIN q /\ q[FirstIndex(q, q[i])] = q[i]
    BY <1>1, <1>2, FirstIndexProperties
  <1> QED
    BY <1>1, <1>3 DEF AtMostOnce

\* InsertHead links an object before all others.
LEMMA InsertedAtHead ==
    ASSUME NEW S, NEW q \in Seq(S), NEW e \in S
    PROVE  LET r == InsertHead(q, e)
           IN  /\ r \in Seq(S) /\ r # <<>> /\ Head(r) = e
               /\ \A x : Has(r, x) <=> x = e \/ Has(q, x)
  <1> DEFINE r == InsertHead(q, e)
  <1>1. <<e>> \in Seq(S) /\ Len(<<e>>) = 1 /\ <<e>>[1] = e
    OBVIOUS
  <1>2. Len(q) \in Nat /\ DOMAIN q = 1..Len(q)
    BY LenProperties
  <1>3. /\ r \in Seq(S) /\ Len(r) = 1 + Len(q)
        /\ \A i \in 1..1 + Len(q) : r[i] = IF i <= 1 THEN <<e>>[i] ELSE q[i - 1]
    BY <1>1, ConcatProperties DEF InsertHead
  <1> HIDE DEF r
  <1>4. DOMAIN r = 1..1 + Len(q)
    BY <1>3, LenProperties
  <1>5. r[1] = e /\ \A i \in 1..Len(q) : r[i + 1] = q[i] /\ i + 1 \in 1..1 + Len(q)
    BY <1>1, <1>2, <1>3
  <1>6. r # <<>> /\ Head(r) = e
    BY <1>2, <1>3, <1>5, EmptySeq
  <1>7. ASSUME NEW x PROVE Has(r, x) <=> x = e \/ Has(q, x)
    <2>1. ASSUME Has(r, x) PROVE x = e \/ Has(q, x)
      <3>1. PICK i \in 1..1 + Len(q) : r[i] = x
        BY <1>4, <2>1 DEF Has
      <3>2. CASE i = 1
        BY <1>5, <3>1, <3>2
      <3>3. CASE i # 1
        <4>1. i - 1 \in 1..Len(q) /\ q[i - 1] = x
          BY <1>2, <1>3, <3>1, <3>3
        <4> QED
          BY <1>2, <4>1 DEF Has
      <3> QED
        BY <3>2, <3>3
    <2>2. ASSUME x = e PROVE Has(r, x)
      <3>1. 1 \in 1..1 + Len(q)
        BY <1>2
      <3> QED
        BY <1>4, <1>5, <2>2, <3>1 DEF Has
    <2>3. ASSUME Has(q, x) PROVE Has(r, x)
      BY <1>2, <1>4, <1>5, <2>3 DEF Has
    <2> QED
      BY <2>1, <2>2, <2>3
  <1> QED
    BY <1>3, <1>6, <1>7 DEF r

\* InsertTail leaves the head where it is.
LEMMA InsertedAtTail ==
    ASSUME NEW S, NEW q \in Seq(S), NEW e \in S
    PROVE  LET r == InsertTail(q, e)
           IN  /\ r \in Seq(S) /\ r # <<>>
               /\ q # <<>> => Head(r) = Head(q)
               /\ q = <<>> => Head(r) = e
               /\ \A x : Has(r, x) <=> x = e \/ Has(q, x)
  <1> DEFINE r == InsertTail(q, e)
  <1>1. Len(q) \in Nat /\ DOMAIN q = 1..Len(q)
    BY LenProperties
  <1>2. /\ r \in Seq(S) /\ Len(r) = Len(q) + 1
        /\ \A i \in 1..Len(q) : r[i] = q[i]
        /\ r[Len(q) + 1] = e
    BY AppendProperties DEF InsertTail
  <1> HIDE DEF r
  <1>3. DOMAIN r = 1..Len(q) + 1
    BY <1>2, LenProperties
  <1>4. r # <<>>
    BY <1>1, <1>2, EmptySeq
  <1>5. ASSUME q # <<>> PROVE Head(r) = Head(q)
    <2>1. 1 \in 1..Len(q)
      BY <1>1, <1>5, EmptySeq
    <2> QED
      BY <1>2, <1>4, <1>5, <2>1
  <1>6. ASSUME q = <<>> PROVE Head(r) = e
    <2>1. Len(q) = 0
      BY <1>6
    <2> QED
      BY <1>2, <1>4, <2>1
  <1>7. ASSUME NEW x PROVE Has(r, x) <=> x = e \/ Has(q, x)
    <2>1. \A i \in 1..Len(q) + 1 : i \in 1..Len(q) \/ i = Len(q) + 1
      BY <1>1
    <2>2. Len(q) + 1 \in 1..Len(q) + 1 /\ \A i \in 1..Len(q) : i \in 1..Len(q) + 1
      BY <1>1
    <2> QED
      BY <1>1, <1>2, <1>3, <2>1, <2>2 DEF Has
  <1> QED
    BY <1>2, <1>4, <1>5, <1>6, <1>7 DEF r

\* Remove unlinks nothing but the object, and the head only if that is the object.
LEMMA Removed ==
    ASSUME NEW S, NEW q \in Seq(S), NEW e
    PROVE  LET r == Remove(q, e)
           IN  /\ r \in Seq(S)
               /\ \A x : Has(r, x) => Has(q, x)
               /\ q # <<>> /\ Head(q) # e => r # <<>> /\ Head(r) = Head(q)
  <1>1. CASE ~Has(q, e)
    BY <1>1 DEF Remove
  <1>2. CASE Has(q, e)
    <2> DEFINE k == FirstIndex(q, e)
               n == Len(q)
               r == RemoveAt(q, k)
    <2>1. n \in Nat /\ DOMAIN q = 1..n /\ q \in [1..n -> S]
      BY LenProperties
    <2>2. k \in 1..n /\ q[k] = e
      BY <1>2, FirstIndexProperties
    <2> HIDE DEF k, n
    <2>3. \A i \in 1..(n - 1) : i \in 1..n /\ i + 1 \in 1..n
      BY <2>1
    <2>4. r = [i \in 1..(n - 1) |-> IF i < k THEN q[i] ELSE q[i + 1]]
      BY DEF RemoveAt, n
    <2> HIDE DEF r
    <2>5. r \in [1..(n - 1) -> S] /\ DOMAIN r = 1..(n - 1)
      BY <2>1, <2>3, <2>4
    <2>6. n - 1 \in Nat
      BY <2>1, <2>2
    <2>7. r \in Seq(S)
      BY <2>5, <2>6, SeqDef
    <2>8. ASSUME NEW x, Has(r, x) PROVE Has(q, x)
      <3>1. PICK i \in 1..(n - 1) : r[i] = x
        BY <2>5, <2>8 DEF Has
      <3>2. i \in DOMAIN q /\ i + 1 \in DOMAIN q /\ (q[i] = x \/ q[i + 1] = x)
        BY <2>1, <2>3, <2>4, <3>1
      <3> QED
        BY <3>2 DEF Has
    <2>9. ASSUME q # <<>>, Head(q) # e PROVE r # <<>> /\ Head(r) = Head(q)
      <3>1. Head(q) = q[1]
        BY <2>9
      <3>2. k # 1 /\ 1 \in 1..(n - 1) /\ 1 < k
        BY <2>1, <2>2, <2>9, <3>1
      <3>3. r[1] = q[1]
        BY <2>4, <3>2
      <3>4. r # <<>>
        <4>1. Len(r) \in Nat /\ DOMAIN r = 1..Len(r)
          BY <2>7, LenProperties
        <4>2. 1 \in 1..Len(r)
          BY <2>5, <3>2, <4>1
        <4>3. Len(r) # 0
          BY <4>1, <4>2
        <4> QED
          BY <4>3, EmptySeq
      <3> QED
        BY <3>1, <3>3, <3>4, <2>7
    <2>10. Remove(q, e) = r
      BY <1>2 DEF Remove, k, r
    <2> QED
      BY <2>7, <2>8, <2>9, <2>10
  <1> QED
    BY <1>1, <1>2
-----------------------------------------------------------------------------
(* The windows between two events *)

Fields ==
    {"qvwmList", "mapped", "trMapped", "status", "flags", "flagsBak", "qvMain", "trList",
     "mapList", "unmapList", "focusQvwm", "xmapped", "frames",
     "zorder", "ontop", "ontopBak", "onTopList", "soon", "overrun"}

\* The members that the focus depends on.
Typed(t) ==
    /\ t = [f \in Fields |-> t[f]]
    /\ t.qvwmList \subseteq Window
    /\ t.mapped \in [Qvwm -> BOOLEAN]
    /\ t.status \in [Qvwm -> SUBSET Status]
    /\ t.flags \in [Qvwm -> SUBSET Flag]
    /\ t.flagsBak \in [Qvwm -> SUBSET Flag]
    /\ t.mapList \in Seq(Window)
    /\ t.unmapList \in Seq(Window)
    /\ t.focusQvwm \in Qvwm

Focusable(t, x) == "NO_FOCUS" \notin t.flags[x]

\* YieldFocus can go to any window of mapList: each may have the focus, and is mapped
\* or can be restored with the flags it has.  e is a window of which a function
\* in the middle of its work does not promise it.
Settled(t, e) ==
    /\ Typed(t)
    /\ t.mapped[Root] /\ Focusable(t, Root)
    /\ \A x \in Window : /\ t.status[x] = {} \/ t.status[x] = {"MINIMIZE_WINDOW"}
                         /\ t.status[x] # {} => t.flagsBak[x] = t.flags[x]
    /\ \A x \in t.qvwmList : Has(t.mapList, x) => Focusable(t, x) /\ ~IsTransient(x)
    /\ \A x \in t.qvwmList \ {e} : ~IsTransient(x) => t.mapped[x] \/ t.status[x] # {}

\* A transient may have the focus without being on a list.
HeadHasFocus(t) ==
    \/ t.focusQvwm = Root
    \/ IsTransient(t.focusQvwm)
    \/ t.mapList # <<>> /\ Head(t.mapList) = t.focusQvwm

\* u differs from t in members that none of this depends on.
Alike(t, u) ==
    /\ u = [f \in Fields |-> u[f]]
    /\ u.qvwmList = t.qvwmList /\ u.mapped = t.mapped /\ u.status = t.status
    /\ u.flags = t.flags /\ u.flagsBak = t.flagsBak
    /\ u.mapList = t.mapList /\ u.unmapList = t.unmapList /\ u.focusQvwm = t.focusQvwm

\* The windows and settings.
LEMMA RootIsApart ==
    /\ Root \in Qvwm /\ Root \notin Window /\ Window \subseteq Qvwm /\ NULL \notin Window
    /\ ~IsTransient(Root) /\ \A x \in Qvwm : x = Root \/ x \in Window
  BY RootIsNoWindow DEF Qvwm, IsTransient

\* States that are alike are as good as each other.
LEMMA AlikeSettled ==
    ASSUME NEW t, NEW u, Alike(t, u), NEW e
    PROVE  /\ Typed(t) => Typed(u)
           /\ Settled(t, e) => Settled(u, e)
           /\ HeadHasFocus(t) <=> HeadHasFocus(u)
           /\ TaskList(t) = TaskList(u)
           /\ Alike(u, u)
  BY ZenonT(60) DEF Alike, Typed, Settled, HeadHasFocus, TaskList, Focusable

\* A state is like itself, and like what it is like.
LEMMA AlikeTransitive ==
    ASSUME NEW t, NEW u, NEW v, Alike(t, u), Alike(u, v)
    PROVE  Alike(t, v)
  BY DEF Alike

\* A state with its members is like itself.
LEMMA AlikeItself ==
    ASSUME NEW t, Typed(t)
    PROVE  Alike(t, t)
  BY DEF Alike, Typed

\* Nothing that is only said of the stack changes this.
LEMMA StackAssigned ==
    ASSUME NEW t, Typed(t), NEW x, NEW y
    PROVE  /\ Alike(t, [t EXCEPT !.zorder = x]) /\ Alike(t, [t EXCEPT !.soon = x])
           /\ Alike(t, [t EXCEPT !.zorder = x, !.overrun = y])
           /\ Alike(t, [t EXCEPT !.ontop = x, !.onTopList = y])
           /\ Alike(t, [t EXCEPT !.ontop = x, !.ontopBak = y])
           /\ Alike(t, [t EXCEPT !.ontopBak = x])
           /\ Alike(t, [t EXCEPT !.zorder = x, !.ontopBak = y])
           /\ Alike(t, [t EXCEPT !.frames = x])
  BY DEF Alike, Typed, Fields

\* Raising, lowering and changing layers.
LEMMA StackSteps ==
    ASSUME NEW t, Typed(t), NEW w, NEW soon, NEW layer
    PROVE  /\ Alike(t, RaiseWindow(t, w, soon)) /\ Alike(t, LowerWindow(t, w))
           /\ Alike(t, RaiseSoon(t, w)) /\ Alike(t, SetOnTop(t, w)) /\ Alike(t, ResetOnTop(t, w))
           /\ Alike(t, SaveOnTop(t, w))
  <1>1. ASSUME NEW u, Typed(u), NEW early PROVE Alike(u, RaiseWindow(u, w, early))
    BY <1>1, AlikeItself, StackAssigned DEF RaiseWindow
  <1>2. Alike(t, LowerWindow(t, w))
    BY AlikeItself, StackAssigned DEF LowerWindow
  <1>3. Alike(t, RaiseSoon(t, w))
    <2> DEFINE u == [t EXCEPT !.soon = @ \ {w}]
    <2>1. Alike(t, u)
      BY StackAssigned
    <2>2. Typed(u)
      BY <2>1, AlikeSettled
    <2>3. Alike(u, RaiseWindow(u, w, TRUE))
      BY <1>1, <2>2
    <2> HIDE DEF u
    <2>4. Alike(t, RaiseWindow(u, w, TRUE))
      BY <2>1, <2>3, AlikeTransitive
    <2> QED
      BY <2>1, <2>4 DEF RaiseSoon, u
  <1>4. Alike(t, SetOnTop(t, w))
    BY AlikeItself, StackAssigned DEF SetOnTop
  <1>5. Alike(t, ResetOnTop(t, w))
    BY AlikeItself, StackAssigned DEF ResetOnTop
  <1>6. Alike(t, SaveOnTop(t, w))
    BY StackAssigned DEF SaveOnTop
  <1> QED
    BY <1>1, <1>2, <1>3, <1>4, <1>5, <1>6

\* Gnome::ProcessLayerChange.
LEMMA LayerChangeSteps ==
    ASSUME NEW t, Typed(t), NEW w,
           NEW layer \in {"WIN_LAYER_BELOW", "WIN_LAYER_NORMAL", "WIN_LAYER_ONTOP"}
    PROVE  Alike(t, ProcessLayerChange(t, w, layer))
  <1> DEFINE low == ResetOnTop(t, w)
             high == SetOnTop(t, w)
  <1>1. Alike(t, low) /\ Alike(t, high)
    BY StackSteps
  <1> HIDE DEF low, high
  <1>2. Typed(low) /\ Typed(high)
    BY <1>1, AlikeSettled
  <1>3. Alike(low, LowerWindow(low, w)) /\ Alike(high, RaiseWindow(high, w, TRUE))
    BY <1>2, StackSteps
  <1>4. Alike(t, LowerWindow(low, w)) /\ Alike(t, RaiseWindow(high, w, TRUE))
    BY <1>1, <1>3, AlikeTransitive
  <1>5. CASE layer = "WIN_LAYER_BELOW"
    BY <1>4, <1>5 DEF ProcessLayerChange, low
  <1>6. CASE layer = "WIN_LAYER_NORMAL"
    BY <1>1, <1>6 DEF ProcessLayerChange, low
  <1>7. CASE layer = "WIN_LAYER_ONTOP"
    BY <1>4, <1>7, AlikeItself DEF ProcessLayerChange, high
  <1> QED
    BY <1>5, <1>6, <1>7
-----------------------------------------------------------------------------
(* Focus, mapping and restoring *)

\* What is said of each window but its place on the lists and its mapping.
Kept(t, u) ==
    u.qvwmList = t.qvwmList /\ u.status = t.status /\ u.flags = t.flags /\ u.flagsBak = t.flagsBak

\* A window that may be anything is a weaker promise.
LEMMA SettledButOne ==
    ASSUME NEW t, Settled(t, Root), NEW e
    PROVE  Settled(t, e)
  <1>1. \A x \in t.qvwmList : x \in t.qvwmList \ {Root}
    BY RootIsApart DEF Settled, Typed
  <1>2. \A x \in t.qvwmList \ {e} : ~IsTransient(x) => t.mapped[x] \/ t.status[x] # {}
    BY <1>1 DEF Settled
  <1> QED
    BY <1>2 DEF Settled

\* The promise holds of all when it holds of the one.
LEMMA SettledWithOne ==
    ASSUME NEW t, NEW e, Settled(t, e), t.mapped[e] \/ t.status[e] # {}
    PROVE  Settled(t, Root)
  <1>1. ASSUME NEW x \in t.qvwmList \ {Root}, ~IsTransient(x)
        PROVE  t.mapped[x] \/ t.status[x] # {}
    <2>1. CASE x = e
      BY <2>1
    <2>2. CASE x # e
      BY <1>1, <2>2 DEF Settled
    <2> QED
      BY <2>1, <2>2
  <1> QED
    BY <1>1 DEF Settled

\* FocusMgr::SetFocus puts the window at the head of mapList.
LEMMA SetFocusSettled ==
    ASSUME NEW t, NEW e, Settled(t, e), NEW w \in Qvwm
    PROVE  LET u == SetFocus(t, w)
           IN  /\ Settled(u, e) /\ Kept(t, u) /\ u.mapped = t.mapped
               /\ HeadHasFocus(t) \/ (w # t.focusQvwm /\ Focusable(t, w)) => HeadHasFocus(u)
               /\ Focusable(t, w) => u.focusQvwm = w
               /\ ~Focusable(t, w) => u = t
  <1> DEFINE u == SetFocus(t, w)
  <1>1. CASE w = t.focusQvwm \/ ~Focusable(t, w)
    BY <1>1 DEF SetFocus, Focusable, Kept
  <1>2. CASE w # t.focusQvwm /\ Focusable(t, w) /\ (w = Root \/ IsTransient(w))
    <2>1. u = [t EXCEPT !.focusQvwm = w, !.mapList = t.mapList]
      BY <1>2 DEF SetFocus, FocusMgrSetFocus, Focusable
    <2> HIDE DEF u
    <2>2. /\ u = [f \in Fields |-> u[f]] /\ Kept(t, u) /\ u.mapped = t.mapped
          /\ u.mapList = t.mapList /\ u.unmapList = t.unmapList /\ u.focusQvwm = w
      BY <2>1 DEF Settled, Typed, Fields, Kept
    <2>3. Settled(u, e)
      BY <2>2, ZenonT(60) DEF Settled, Typed, Kept, Focusable
    <2>4. HeadHasFocus(u)
      BY <1>2, <2>2 DEF HeadHasFocus
    <2> QED
      BY <1>2, <2>2, <2>3, <2>4 DEF u
  <1>3. CASE w # t.focusQvwm /\ Focusable(t, w) /\ w # Root /\ ~IsTransient(w)
    <2> DEFINE q == InsertHead(Remove(t.mapList, w), w)
    <2>1. t.mapList \in Seq(Window) /\ w \in Window
      BY <1>3, RootIsApart DEF Settled, Typed
    <2>2. Remove(t.mapList, w) \in Seq(Window) /\ \A x : Has(Remove(t.mapList, w), x) => Has(t.mapList, x)
      BY <2>1, Removed
    <2>3. /\ q \in Seq(Window) /\ q # <<>> /\ Head(q) = w
          /\ \A x : Has(q, x) => x = w \/ Has(t.mapList, x)
      BY <2>1, <2>2, InsertedAtHead
    <2>4. u = [t EXCEPT !.focusQvwm = w, !.mapList = q]
      BY <1>3 DEF SetFocus, FocusMgrSetFocus, Focusable
    <2> HIDE DEF u, q
    <2>5. /\ u = [f \in Fields |-> u[f]] /\ Kept(t, u) /\ u.mapped = t.mapped
          /\ u.mapList = q /\ u.unmapList = t.unmapList /\ u.focusQvwm = w
      BY <2>4 DEF Settled, Typed, Fields, Kept
    <2>6. Typed(u)
      BY <2>3, <2>5 DEF Settled, Typed, Kept
    <2>7. Settled(u, e)
      BY <1>3, <2>3, <2>5, <2>6, ZenonT(60) DEF Settled, Kept, Focusable
    <2>8. HeadHasFocus(u)
      BY <2>3, <2>5 DEF HeadHasFocus
    <2> QED
      BY <1>3, <2>5, <2>7, <2>8 DEF u
  <1> QED
    BY <1>1, <1>2, <1>3

\* MapWindow and UnmapWindow reach the window and transients alone.
LEMMA ReachedProperties ==
    ASSUME NEW s0, NEW w, NEW transients \in BOOLEAN
    PROVE  /\ w \in Reached(s0, w, transients)
           /\ \A x \in Reached(s0, w, transients) : x = w \/ (x \in Window /\ IsTransient(x))
  BY DEF Reached, Cascade, Transients

\* MapWindows settles the window it maps, and puts it at the head of mapList if it
\* may have the focus.
LEMMA MapWindowsSettled ==
    ASSUME NEW t, NEW e, Settled(t, e), NEW w \in Window, NEW mapTransient \in BOOLEAN
    PROVE  LET u == MapWindows(t, w, mapTransient)
           IN  /\ Settled(u, e) /\ (e = w => Settled(u, Root))
               /\ Kept(t, u) /\ u.focusQvwm = t.focusQvwm /\ u.mapped[w]
               /\ HeadHasFocus(t) /\ t.focusQvwm = w => HeadHasFocus(u)
               /\ ~Focusable(t, w) \/ IsTransient(w) => u.mapList = t.mapList
  <1> DEFINE u == MapWindows(t, w, mapTransient)
             R == Reached(t, w, mapTransient)
             m == [x \in Qvwm |-> x \in R \/ t.mapped[x]]
  <1>1. CASE t.mapped[w]
    <2>1. u = t
      BY <1>1 DEF MapWindows, CheckMapped
    <2>2. e = w => Settled(t, Root)
      BY <1>1, SettledWithOne
    <2> QED
      BY <1>1, <2>1, <2>2 DEF Kept
  <1>2. CASE ~t.mapped[w]
    <2>1. w \in R /\ w \in Qvwm
      BY ReachedProperties, RootIsApart
    <2> DEFINE v == [MapWindow(t, w, mapTransient) EXCEPT !.trMapped[w] = TRUE]
               list == ~(~Focusable(t, w) \/ IsTransient(w))
    <2>2. MapWindow(t, w, mapTransient) =
            [t EXCEPT !.mapped = m,
                      !.xmapped = [x \in Window |-> x \in R \/ t.xmapped[x]],
                      !.frames = t.frames \cup {x \in Window : x \in R /\ ~t.mapped[x]}]
      BY Zenon DEF MapWindow
    <2> HIDE DEF R, m
    <2>3. /\ v = [f \in Fields |-> v[f]] /\ Kept(t, v) /\ v.mapped = m
          /\ v.mapList = t.mapList /\ v.unmapList = t.unmapList /\ v.focusQvwm = t.focusQvwm
      BY <2>2, ZenonT(60) DEF Settled, Typed, Fields, Kept
    <2>4. u = IF list THEN [v EXCEPT !.unmapList = Remove(v.unmapList, w),
                                     !.mapList = InsertHead(v.mapList, w)] ELSE v
      <3>1. v.flags = t.flags
        BY <2>3 DEF Kept
      <3> QED
        BY <1>2 DEF MapWindows, CheckMapped, Focusable
    <2> HIDE DEF u, v
    <2>5. t.mapList \in Seq(Window) /\ t.unmapList \in Seq(Window)
      BY DEF Settled, Typed
    <2>6. /\ InsertHead(t.mapList, w) \in Seq(Window) /\ Remove(t.unmapList, w) \in Seq(Window)
          /\ InsertHead(t.mapList, w) # <<>> /\ Head(InsertHead(t.mapList, w)) = w
          /\ \A x : Has(InsertHead(t.mapList, w), x) => x = w \/ Has(t.mapList, x)
      BY <2>5, InsertedAtHead, Removed
    <2>7. /\ u = [f \in Fields |-> u[f]] /\ Kept(t, u) /\ u.mapped = m
          /\ u.focusQvwm = t.focusQvwm
          /\ u.unmapList = IF list THEN Remove(t.unmapList, w) ELSE t.unmapList
          /\ u.mapList = IF list THEN InsertHead(t.mapList, w) ELSE t.mapList
      <3>1. CASE list
        BY <2>3, <2>4, <3>1 DEF Fields, Kept
      <3>2. CASE ~list
        BY <2>3, <2>4, <3>2
      <3> QED
        BY <3>1, <3>2
    <2>8. /\ u.mapList \in Seq(Window) /\ u.unmapList \in Seq(Window)
          /\ \A x : Has(u.mapList, x) => (x = w /\ list) \/ Has(t.mapList, x)
      BY <2>5, <2>6, <2>7
    <2>9. m \in [Qvwm -> BOOLEAN] /\ m[w] /\ \A x \in Qvwm : t.mapped[x] => m[x]
      <3>1. t.mapped \in [Qvwm -> BOOLEAN]
        BY DEF Settled, Typed
      <3> QED
        BY <2>1, <3>1 DEF m
    <2>10. Typed(u)
      BY <2>7, <2>8, <2>9 DEF Settled, Typed, Kept
    <2>11. \A x \in u.qvwmList : Has(u.mapList, x) => Focusable(u, x) /\ ~IsTransient(x)
      BY <2>7, <2>8 DEF Settled, Kept, Focusable
    <2>12. Settled(u, e)
      BY <2>7, <2>9, <2>10, <2>11, RootIsApart, ZenonT(60) DEF Settled, Kept, Focusable, Typed
    <2>13. e = w => Settled(u, Root)
      BY <2>7, <2>9, <2>12, SettledWithOne
    <2>14. HeadHasFocus(t) /\ t.focusQvwm = w => HeadHasFocus(u)
      BY <2>6, <2>7 DEF HeadHasFocus
    <2> QED
      BY <2>7, <2>9, <2>12, <2>13, <2>14 DEF u
  <1> QED
    BY <1>1, <1>2 DEF Settled, Typed

\* What RestoreWindow ends with: the window is mapped and gets the focus.
LEMMA ShowSettled ==
    ASSUME NEW t, NEW e, Settled(t, e), NEW w \in Window, NEW mapTransient \in BOOLEAN
    PROVE  LET u == SetFocus(MapWindows(t, w, mapTransient), w)
           IN  /\ Settled(u, e) /\ (e = w => Settled(u, Root)) /\ Kept(t, u) /\ u.mapped[w]
               /\ HeadHasFocus(t) => HeadHasFocus(u)
               /\ Focusable(t, w) => u.focusQvwm = w
               /\ Focusable(t, w) /\ w # t.focusQvwm => HeadHasFocus(u)
  <1> DEFINE v == MapWindows(t, w, mapTransient)
             u == SetFocus(v, w)
  <1>1. w \in Qvwm
    BY RootIsApart
  <1>2. /\ Settled(v, e) /\ (e = w => Settled(v, Root))
        /\ Kept(t, v) /\ v.focusQvwm = t.focusQvwm /\ v.mapped[w]
        /\ HeadHasFocus(t) /\ t.focusQvwm = w => HeadHasFocus(v)
        /\ ~Focusable(t, w) => v.mapList = t.mapList
    BY MapWindowsSettled
  <1> HIDE DEF v
  <1>3. /\ Settled(u, e) /\ Kept(v, u) /\ u.mapped = v.mapped
        /\ HeadHasFocus(v) \/ (w # v.focusQvwm /\ Focusable(v, w)) => HeadHasFocus(u)
        /\ Focusable(v, w) => u.focusQvwm = w
        /\ ~Focusable(v, w) => u = v
    BY <1>1, <1>2, SetFocusSettled
  <1>4. e = w => Settled(u, Root)
    BY <1>1, <1>2, SetFocusSettled
  <1> HIDE DEF u
  <1>5. Kept(t, u) /\ (Focusable(v, w) <=> Focusable(t, w))
    BY <1>2, <1>3 DEF Kept, Focusable
  <1>6. ASSUME ~Focusable(t, w), HeadHasFocus(t) PROVE HeadHasFocus(u)
    BY <1>2, <1>3, <1>5, <1>6 DEF HeadHasFocus
  <1>7. HeadHasFocus(t) => HeadHasFocus(u)
    BY <1>2, <1>3, <1>5, <1>6
  <1> QED
    BY <1>2, <1>3, <1>4, <1>5, <1>7 DEF u, v

\* UnmapWindows takes the window off mapList, and unsettles it unless it is iconic.
LEMMA UnmapWindowsSettled ==
    ASSUME NEW t, NEW e, Settled(t, e), NEW w \in Window, NEW unmapTransient \in BOOLEAN,
           e = w \/ t.status[w] # {}
    PROVE  LET u == UnmapWindows(t, w, unmapTransient)
           IN  /\ Settled(u, e) /\ Kept(t, u) /\ u.focusQvwm = t.focusQvwm
               /\ HeadHasFocus(t) /\ t.focusQvwm # w => HeadHasFocus(u)
  <1> DEFINE u == UnmapWindows(t, w, unmapTransient)
             R == Reached(t, w, unmapTransient)
             m == [x \in Qvwm |-> x \notin R /\ t.mapped[x]]
  <1>1. CASE ~t.mapped[w]
    BY <1>1 DEF UnmapWindows, CheckMapped, Kept
  <1>2. CASE t.mapped[w]
    <2>1. \A x \in Qvwm : x \in R => x = w \/ IsTransient(x)
      BY ReachedProperties
    <2> DEFINE v == [UnmapWindow(t, w, unmapTransient) EXCEPT !.trMapped[w] = FALSE]
    <2>2. UnmapWindow(t, w, unmapTransient) =
            [t EXCEPT !.mapped = m,
                      !.xmapped = [x \in Window |-> x \notin R /\ t.xmapped[x]]]
      BY Zenon DEF UnmapWindow
    <2> HIDE DEF R, m
    <2>3. /\ v = [f \in Fields |-> v[f]] /\ Kept(t, v) /\ v.mapped = m
          /\ v.mapList = t.mapList /\ v.unmapList = t.unmapList /\ v.focusQvwm = t.focusQvwm
      BY <2>2 DEF Settled, Typed, Fields, Kept
    <2>4. u = IF IsTransient(w) THEN v
              ELSE [v EXCEPT !.mapList = Remove(v.mapList, w), !.unmapList = InsertTail(v.unmapList, w)]
      BY <1>2 DEF UnmapWindows, CheckMapped
    <2> HIDE DEF u, v
    <2>5. t.mapList \in Seq(Window) /\ t.unmapList \in Seq(Window)
      BY DEF Settled, Typed
    <2>6. /\ Remove(t.mapList, w) \in Seq(Window) /\ InsertTail(t.unmapList, w) \in Seq(Window)
          /\ \A x : Has(Remove(t.mapList, w), x) => Has(t.mapList, x)
          /\ t.mapList # <<>> /\ Head(t.mapList) # w
               => Remove(t.mapList, w) # <<>> /\ Head(Remove(t.mapList, w)) = Head(t.mapList)
      BY <2>5, InsertedAtTail, Removed
    <2>7. /\ u = [f \in Fields |-> u[f]] /\ Kept(t, u) /\ u.mapped = m
          /\ u.focusQvwm = t.focusQvwm
          /\ u.unmapList = IF IsTransient(w) THEN t.unmapList ELSE InsertTail(t.unmapList, w)
          /\ u.mapList = IF IsTransient(w) THEN t.mapList ELSE Remove(t.mapList, w)
      <3>1. CASE ~IsTransient(w)
        BY <2>3, <2>4, <3>1 DEF Fields, Kept
      <3>2. CASE IsTransient(w)
        BY <2>3, <2>4, <3>2
      <3> QED
        BY <3>1, <3>2
    <2>8. /\ u.mapList \in Seq(Window) /\ u.unmapList \in Seq(Window)
          /\ \A x : Has(u.mapList, x) => Has(t.mapList, x)
      BY <2>5, <2>6, <2>7
    <2>9. m \in [Qvwm -> BOOLEAN] /\ \A x \in Qvwm : t.mapped[x] /\ x # w /\ ~IsTransient(x) => m[x]
      <3>1. t.mapped \in [Qvwm -> BOOLEAN]
        BY DEF Settled, Typed
      <3> QED
        BY <2>1, <3>1 DEF m
    <2>10. Typed(u)
      BY <2>7, <2>8, <2>9 DEF Settled, Typed, Kept
    <2>11. \A x \in u.qvwmList : Has(u.mapList, x) => Focusable(u, x) /\ ~IsTransient(x)
      BY <2>7, <2>8 DEF Settled, Kept, Focusable
    <2>12. ASSUME NEW x \in u.qvwmList \ {e}, ~IsTransient(x)
           PROVE  u.mapped[x] \/ u.status[x] # {}
      <3>1. x \in t.qvwmList \ {e} /\ x \in Qvwm
        BY <2>7, <2>12, RootIsApart DEF Kept, Settled, Typed
      <3>2. t.mapped[x] \/ t.status[x] # {}
        BY <2>12, <3>1 DEF Settled
      <3>3. CASE x = w
        BY <3>1, <3>3, <2>7 DEF Kept
      <3>4. CASE x # w
        BY <2>7, <2>9, <2>12, <3>1, <3>2, <3>4 DEF Kept
      <3> QED
        BY <3>3, <3>4
    <2>13. Settled(u, e)
      <3>1. u.mapped[Root]
        BY <2>7, <2>9, RootIsApart DEF Settled
      <3> QED
        BY <2>7, <2>10, <2>11, <2>12, <3>1 DEF Settled, Kept, Focusable
    <2>14. HeadHasFocus(t) /\ t.focusQvwm # w => HeadHasFocus(u)
      BY <2>6, <2>7 DEF HeadHasFocus
    <2> QED
      BY <2>7, <2>13, <2>14 DEF u
  <1> QED
    BY <1>1, <1>2 DEF Settled, Typed

\* RestoreWindow gives the window the flags it has had all along, and the focus.
LEMMA RestoreWindowSettled ==
    ASSUME NEW t, Settled(t, Root), NEW w \in Window, NEW mapTransient \in BOOLEAN
    PROVE  LET u == RestoreWindow(t, w, mapTransient)
           IN  /\ Settled(u, Root)
               /\ u.qvwmList = t.qvwmList /\ u.flags = t.flags
               /\ \A x \in Window \ {w} : u.status[x] = t.status[x]
               /\ HeadHasFocus(t) => HeadHasFocus(u)
               /\ t.status[w] # {} /\ Focusable(t, w) => u.focusQvwm = w
               /\ t.status[w] # {} /\ Focusable(t, w) /\ w # t.focusQvwm => HeadHasFocus(u)
  <1> DEFINE u == RestoreWindow(t, w, mapTransient)
             v == [t EXCEPT !.status[w] = {}, !.flags[w] = t.flagsBak[w]]
  <1>1. CASE t.status[w] = {}
    BY <1>1 DEF RestoreWindow
  <1>2. CASE t.status[w] # {}
    <2>1. t.status[w] = {"MINIMIZE_WINDOW"} /\ t.flagsBak[w] = t.flags[w] /\ w # Root /\ w \in Qvwm
      BY <1>2, RootIsApart DEF Settled
    <2>2. ~Maximized(t, w)
      BY <2>1 DEF Maximized
    <2>3. u = SetFocus(MapWindows(v, w, mapTransient), w)
      BY <1>2, <2>1, <2>2, Zenon DEF RestoreWindow
    <2>4. /\ v = [f \in Fields |-> v[f]]
          /\ v.qvwmList = t.qvwmList /\ v.mapped = t.mapped /\ v.flags = t.flags
          /\ v.flagsBak = t.flagsBak /\ v.mapList = t.mapList /\ v.unmapList = t.unmapList
          /\ v.focusQvwm = t.focusQvwm
          /\ v.status = [t.status EXCEPT ![w] = {}]
      BY <2>1, ZenonT(60) DEF Settled, Typed, Fields
    <2>5. v.status \in [Qvwm -> SUBSET Status] /\ v.status[w] = {}
          /\ \A x \in Qvwm \ {w} : v.status[x] = t.status[x]
      <3>1. t.status \in [Qvwm -> SUBSET Status] /\ w \in Qvwm
        BY <2>1 DEF Settled, Typed
      <3> QED
        BY <2>4, <3>1
    <2> HIDE DEF u, v
    <2>6. Typed(v)
      BY <2>4, <2>5 DEF Settled, Typed
    <2>7. ASSUME NEW x \in Window
          PROVE  /\ v.status[x] = {} \/ v.status[x] = {"MINIMIZE_WINDOW"}
                 /\ v.status[x] # {} => v.flagsBak[x] = v.flags[x]
      <3>1. x \in Qvwm
        BY RootIsApart
      <3>2. CASE x = w
        BY <2>5, <3>2
      <3>3. CASE x # w
        BY <2>4, <2>5, <3>1, <3>3 DEF Settled
      <3> QED
        BY <3>2, <3>3
    <2>8. ASSUME NEW x \in v.qvwmList \ {w}, ~IsTransient(x)
          PROVE  v.mapped[x] \/ v.status[x] # {}
      <3>1. x \in t.qvwmList \ {Root} /\ x \in Qvwm \ {w}
        BY <2>4, <2>8, RootIsApart DEF Settled, Typed
      <3>2. t.mapped[x] \/ t.status[x] # {}
        BY <2>8, <3>1 DEF Settled
      <3> QED
        BY <2>4, <2>5, <3>1, <3>2
    <2>9. Settled(v, w)
      BY <2>4, <2>6, <2>7, <2>8 DEF Settled, Focusable
    <2>10. /\ Settled(u, Root) /\ Kept(v, u) /\ u.mapped[w]
           /\ HeadHasFocus(v) => HeadHasFocus(u)
           /\ Focusable(v, w) => u.focusQvwm = w
           /\ Focusable(v, w) /\ w # v.focusQvwm => HeadHasFocus(u)
      BY <2>3, <2>9, ShowSettled
    <2>11. HeadHasFocus(t) <=> HeadHasFocus(v)
      BY <2>4 DEF HeadHasFocus
    <2>12. \A x \in Window \ {w} : u.status[x] = t.status[x]
      BY <2>5, <2>10, RootIsApart DEF Kept
    <2> QED
      BY <2>4, <2>10, <2>11, <2>12 DEF u, Kept, Focusable
  <1> QED
    BY <1>1, <1>2 DEF Settled, Typed

\* YieldFocus finds a window that can be given the focus, or the root window.
LEMMA YieldFocusSettled ==
    ASSUME ClickToFocus, NEW t, Settled(t, Root), NEW w \in Window,
           \A i \in DOMAIN t.mapList : t.mapList[i] \in t.qvwmList
    PROVE  LET u == YieldFocus(t, w)
           IN  /\ Settled(u, Root) /\ u.qvwmList = t.qvwmList /\ u.flags = t.flags
               /\ u.status[w] = t.status[w]
               /\ HeadHasFocus(t) => HeadHasFocus(u)
               /\ u.focusQvwm # w
  <1> DEFINE u == YieldFocus(t, w)
             q == IF Has(t.mapList, w) THEN InsertTail(Remove(t.mapList, w), w) ELSE t.mapList
             v == [t EXCEPT !.mapList = q]
             next == IF q = <<>> \/ Head(q) = w THEN Root ELSE Head(q)
  <1>0. u = LET y == [t EXCEPT !.mapList = q]
                z == IF y.mapList = <<>> \/ Head(y.mapList) = w THEN Root ELSE Head(y.mapList)
            IN  IF w # t.focusQvwm THEN y
                ELSE IF ~ClickToFocus THEN SetFocus(y, Root)
                ELSE IF CheckMapped(y, z) THEN SetFocus(y, z)
                ELSE RestoreWindow(y, z, TRUE)
    BY Zenon DEF YieldFocus
  <1>1. t.mapList \in Seq(Window)
    BY DEF Settled, Typed
  <1>2. /\ Remove(t.mapList, w) \in Seq(Window)
        /\ \A x : Has(Remove(t.mapList, w), x) => Has(t.mapList, x)
        /\ t.mapList # <<>> /\ Head(t.mapList) # w
             => Remove(t.mapList, w) # <<>> /\ Head(Remove(t.mapList, w)) = Head(t.mapList)
    BY <1>1, Removed
  <1>3. /\ InsertTail(Remove(t.mapList, w), w) \in Seq(Window)
        /\ InsertTail(Remove(t.mapList, w), w) # <<>>
        /\ Remove(t.mapList, w) # <<>>
             => Head(InsertTail(Remove(t.mapList, w), w)) = Head(Remove(t.mapList, w))
        /\ \A x : Has(InsertTail(Remove(t.mapList, w), w), x) => x = w \/ Has(Remove(t.mapList, w), x)
    BY <1>2, InsertedAtTail
  <1>4. /\ q \in Seq(Window)
        /\ \A x : Has(q, x) => Has(t.mapList, x)
        /\ t.mapList # <<>> /\ Head(t.mapList) # w => q # <<>> /\ Head(q) = Head(t.mapList)
    BY <1>1, <1>2, <1>3
  <1> HIDE DEF q
  <1>5. /\ v = [f \in Fields |-> v[f]] /\ Kept(t, v) /\ v.mapped = t.mapped
        /\ v.mapList = q /\ v.unmapList = t.unmapList /\ v.focusQvwm = t.focusQvwm
    BY DEF Settled, Typed, Fields, Kept
  <1>6. u = IF w # t.focusQvwm THEN v
            ELSE IF CheckMapped(v, next) THEN SetFocus(v, next)
            ELSE RestoreWindow(v, next, TRUE)
    <2>1. ClickToFocus = TRUE
      OBVIOUS
    <2> QED
      BY <1>0, <1>5, <2>1 DEF next, v
  <1> HIDE DEF u, v
  <1>7. Settled(v, Root)
    <2>1. Typed(v)
      BY <1>4, <1>5 DEF Settled, Typed, Kept
    <2>2. \A x \in v.qvwmList : Has(v.mapList, x) => Focusable(v, x) /\ ~IsTransient(x)
      BY <1>4, <1>5 DEF Settled, Kept, Focusable
    <2> QED
      BY <1>5, <2>1, <2>2 DEF Settled, Kept, Focusable
  <1>8. CASE w # t.focusQvwm
    <2>1. HeadHasFocus(t) => HeadHasFocus(v)
      BY <1>4, <1>5, <1>8 DEF HeadHasFocus
    <2> QED
      BY <1>5, <1>6, <1>7, <1>8, <2>1 DEF u, Kept
  <1>9. CASE w = t.focusQvwm /\ next = Root
    <2> HIDE DEF next
    <2>1. CheckMapped(v, Root) /\ Focusable(v, Root)
      BY <1>7 DEF Settled, CheckMapped
    <2>2. u = SetFocus(v, Root)
      BY <1>6, <1>9, <2>1
    <2>3. Root \in Qvwm /\ w # Root
      BY RootIsApart
    <2>4. Root # v.focusQvwm
      BY <1>5, <1>9, <2>3
    <2>5. Settled(u, Root) /\ Kept(v, u) /\ HeadHasFocus(u) /\ u.focusQvwm = Root
      BY <1>7, <2>1, <2>2, <2>3, <2>4, SetFocusSettled
    <2> QED
      BY <1>5, <2>3, <2>5 DEF Kept, u
  <1>10. CASE w = t.focusQvwm /\ next # Root
    <2>1. next = Head(q) /\ q # <<>> /\ next # w
      BY <1>10
    <2>2. next \in Window /\ next \in v.qvwmList /\ Has(q, next)
      <3>1. Head(q) = q[1] /\ 1 \in DOMAIN q
        BY <1>4, <2>1, EmptySeq, LenProperties
      <3>2. Has(q, next)
        BY <2>1, <3>1 DEF Has
      <3>3. Has(t.mapList, next)
        BY <1>4, <3>2
      <3>4. next \in t.qvwmList
        BY <3>3 DEF Has
      <3> QED
        BY <1>5, <3>2, <3>4 DEF Kept, Settled, Typed
    <2> HIDE DEF next
    <2>3. Focusable(v, next) /\ ~IsTransient(next) /\ (v.mapped[next] \/ v.status[next] # {})
      BY <1>5, <1>7, <2>2, RootIsApart DEF Settled
    <2>4. next # v.focusQvwm
      BY <1>5, <1>10, <2>1
    <2>5. CASE v.mapped[next]
      <3>1. u = SetFocus(v, next)
        BY <1>6, <1>10, <2>5 DEF CheckMapped
      <3>2. next \in Qvwm
        BY <2>2, RootIsApart
      <3>3. Settled(u, Root) /\ Kept(v, u) /\ HeadHasFocus(u) /\ u.focusQvwm = next
        BY <1>7, <2>3, <2>4, <3>1, <3>2, SetFocusSettled
      <3> QED
        BY <1>5, <2>1, <3>3 DEF Kept, u
    <2>6. CASE ~v.mapped[next]
      <3>1. u = RestoreWindow(v, next, TRUE)
        BY <1>6, <1>10, <2>6 DEF CheckMapped
      <3>2. /\ Settled(u, Root)
            /\ u.qvwmList = v.qvwmList /\ u.flags = v.flags
            /\ \A x \in Window \ {next} : u.status[x] = v.status[x]
            /\ HeadHasFocus(u) /\ u.focusQvwm = next
        BY <1>7, <2>2, <2>3, <2>4, <2>6, <3>1, RestoreWindowSettled
      <3> QED
        BY <1>5, <2>1, <3>2 DEF Kept, u
    <2> QED
      BY <2>5, <2>6
  <1> QED
    BY <1>8, <1>9, <1>10
-----------------------------------------------------------------------------
(* The functions the handlers call *)

\* Between two events.
InOrder(t) == Settled(t, Root) /\ HeadHasFocus(t)

Managing(t) == \A i \in DOMAIN t.mapList : t.mapList[i] \in t.qvwmList

\* SetFocus, the raising and the layers.
LEMMA SetFocusInOrder ==
    ASSUME NEW t, InOrder(t), NEW w \in Qvwm
    PROVE  InOrder(SetFocus(t, w))
  BY SetFocusSettled DEF InOrder

\* What is alike is in order.
LEMMA AlikeInOrder ==
    ASSUME NEW t, NEW u, InOrder(t), Alike(t, u)
    PROVE  InOrder(u)
  BY AlikeSettled DEF InOrder

\* RaiseWindow.
LEMMA RaisedInOrder ==
    ASSUME NEW t, InOrder(t), NEW w, NEW soon
    PROVE  InOrder(RaiseWindow(t, w, soon))
  <1>1. Alike(t, RaiseWindow(t, w, soon))
    BY StackSteps DEF InOrder, Settled
  <1> QED
    BY <1>1, AlikeInOrder

\* FocusToCursor, with the delayed raise.
LEMMA FocusToCursorInOrder ==
    ASSUME NEW t, InOrder(t), NEW pointer \in Qvwm
    PROVE  InOrder(FocusToCursor(t, pointer))
  <1> DEFINE u == ChangeFocusToCursor(t, pointer)
  <1>1. InOrder(u)
    BY SetFocusInOrder, RootIsApart DEF ChangeFocusToCursor
  <1> HIDE DEF u
  <1>2. InOrder(RaiseWindow(u, pointer, FALSE))
    BY <1>1, RaisedInOrder
  <1> QED
    BY <1>1, <1>2 DEF FocusToCursor, u

\* RestoreWindow, with the flag ONTOP and the raise.
LEMMA RestoreInOrder ==
    ASSUME NEW t, InOrder(t), NEW w \in Window
    PROVE  InOrder(Restore(t, w))
  <1> DEFINE v == RestoreWindow(t, w, TRUE)
             u == IF t.status[w] # {} /\ v.status[w] = {}
                  THEN [v EXCEPT !.ontop = (@ \ {w}) \cup ({w} \cap t.ontopBak), !.ontopBak = @ \ {w}]
                  ELSE v
  <1>1. InOrder(v)
    BY RestoreWindowSettled DEF InOrder
  <1> HIDE DEF v
  <1>2. Typed(v)
    BY <1>1 DEF InOrder, Settled
  <1>3. Alike(v, u)
    BY <1>2, StackAssigned, AlikeItself
  <1> HIDE DEF u
  <1>4. InOrder(u)
    BY <1>1, <1>3, AlikeInOrder
  <1>5. InOrder(RaiseWindow(u, w, TRUE))
    BY <1>4, RaisedInOrder
  <1>6. Restore(t, w) = IF w = Root \/ CheckMapped(t, w) \/ ~CheckMapped(v, w) THEN u
                        ELSE RaiseWindow(u, w, TRUE)
    BY Zenon DEF Restore, v, u
  <1> QED
    BY <1>4, <1>5, <1>6

\* What the switcher ends with.
LEMMA SwitchToInOrder ==
    ASSUME NEW t, InOrder(t), NEW w \in Window
    PROVE  InOrder(SwitchTo(t, w))
  <1> DEFINE u == SetFocus(t, w)
  <1>1. InOrder(u)
    BY SetFocusInOrder, RootIsApart
  <1> HIDE DEF u
  <1>2. InOrder(RaiseWindow(u, w, TRUE)) /\ InOrder(Restore(u, w))
    BY <1>1, RaisedInOrder, RestoreInOrder
  <1> QED
    BY <1>2 DEF SwitchTo, u

\* YieldFocus raises the window it gives the focus to.
LEMMA YieldSettled ==
    ASSUME ClickToFocus, NEW t, InOrder(t), Managing(t), NEW w \in Window
    PROVE  LET u == Yield(t, w)
           IN  InOrder(u) /\ u.status[w] = t.status[w] /\ u.focusQvwm # w
  <1> DEFINE v == YieldFocus(t, w)
  <1>1. InOrder(v) /\ v.status[w] = t.status[w] /\ v.focusQvwm # w
    BY YieldFocusSettled DEF InOrder, Managing
  <1> HIDE DEF v
  <1>2. Typed(v)
    BY <1>1 DEF InOrder, Settled
  <1>3. Alike(v, v) /\ Alike(v, RaiseWindow(v, v.focusQvwm, TRUE))
    BY <1>2, StackSteps, AlikeItself
  <1>4. Alike(v, Yield(t, w))
    BY <1>3 DEF Yield, v
  <1>5. InOrder(Yield(t, w))
    BY <1>1, <1>4, AlikeInOrder
  <1> QED
    BY <1>1, <1>4, <1>5 DEF Alike

\* MinimizeWindow yields the focus of an iconic window, which mapList may lose.
LEMMA MinimizeInOrder ==
    ASSUME ClickToFocus, NEW t, InOrder(t), Managing(t), NEW w \in Window, NEW pointer
    PROVE  InOrder(Minimize(t, w, pointer))
  <1>1. CASE w = Root \/ Minimized(t, w) \/ "NO_TBUTTON" \in t.flags[w]
    BY <1>1 DEF Minimize
  <1>2. CASE ~(w = Root \/ Minimized(t, w) \/ "NO_TBUTTON" \in t.flags[w])
    <2>1. t.status[w] = {} /\ ~Maximized(t, w) /\ w \in Qvwm
      BY <1>2, RootIsApart DEF InOrder, Settled, Minimized, Maximized
    <2> DEFINE x == SaveOnTop(t, w)
               v == [x EXCEPT !.status[w] = @ \cup {"MINIMIZE_WINDOW"}, !.flagsBak[w] = t.flags[w]]
               y == Yield(v, w)
    <2>2. Minimize(t, w, pointer) = UnmapWindows(y, w, TRUE)
      <3>1. Minimize(t, w, pointer) =
              LET z == [(IF Maximized(t, w) THEN t ELSE SaveOnTop(t, w))
                          EXCEPT !.status[w] = @ \cup {"MINIMIZE_WINDOW"},
                                 !.flagsBak[w] = IF Maximized(t, w) THEN @ ELSE t.flags[w]]
                  u == UnmapWindows(Yield(z, w), w, TRUE)
              IN  IF ClickToFocus THEN u ELSE FocusToCursor(u, pointer)
        BY <1>2, Zenon DEF Minimize
      <3> QED
        BY <2>1, <3>1
    <2>3. Alike(t, x)
      BY StackSteps DEF InOrder, Settled
    <2>4. InOrder(x)
      BY <2>3, AlikeInOrder
    <2> HIDE DEF x
    <2>5. x.status[w] = {} /\ x.flags = t.flags /\ x.mapList = t.mapList /\ x.qvwmList = t.qvwmList
      BY <2>1, <2>3 DEF Alike
    <2>6. /\ v = [f \in Fields |-> v[f]]
          /\ v.qvwmList = x.qvwmList /\ v.mapped = x.mapped /\ v.flags = x.flags
          /\ v.mapList = x.mapList /\ v.unmapList = x.unmapList /\ v.focusQvwm = x.focusQvwm
          /\ v.status = [x.status EXCEPT ![w] = {"MINIMIZE_WINDOW"}]
          /\ v.flagsBak = [x.flagsBak EXCEPT ![w] = x.flags[w]]
      BY <2>4, <2>5, ZenonT(60) DEF InOrder, Settled, Typed, Fields
    <2>7. /\ x.status \in [Qvwm -> SUBSET Status] /\ x.flagsBak \in [Qvwm -> SUBSET Flag]
          /\ x.flags[w] \in SUBSET Flag /\ {"MINIMIZE_WINDOW"} \in SUBSET Status
      BY <2>1, <2>4 DEF InOrder, Settled, Typed, Status
    <2>8. /\ v.status \in [Qvwm -> SUBSET Status] /\ v.flagsBak \in [Qvwm -> SUBSET Flag]
          /\ v.status[w] = {"MINIMIZE_WINDOW"} /\ v.flagsBak[w] = v.flags[w]
          /\ \A z \in Qvwm \ {w} : v.status[z] = x.status[z] /\ v.flagsBak[z] = x.flagsBak[z]
      BY <2>1, <2>6, <2>7
    <2> HIDE DEF v
    <2>9. Typed(v)
      BY <2>4, <2>6, <2>8 DEF InOrder, Settled, Typed
    <2>10. ASSUME NEW z \in Window
           PROVE  /\ v.status[z] = {} \/ v.status[z] = {"MINIMIZE_WINDOW"}
                  /\ v.status[z] # {} => v.flagsBak[z] = v.flags[z]
      <3>1. z \in Qvwm
        BY RootIsApart
      <3>2. CASE z = w
        BY <2>8, <3>2
      <3>3. CASE z # w
        BY <2>4, <2>6, <2>8, <3>1, <3>3 DEF InOrder, Settled
      <3> QED
        BY <3>2, <3>3
    <2>11. ASSUME NEW z \in v.qvwmList \ {Root}, ~IsTransient(z)
           PROVE  v.mapped[z] \/ v.status[z] # {}
      <3>1. z \in x.qvwmList \ {Root} /\ z \in Qvwm
        BY <2>4, <2>6, <2>11, RootIsApart DEF InOrder, Settled, Typed
      <3>2. x.mapped[z] \/ x.status[z] # {}
        BY <2>4, <2>11, <3>1 DEF InOrder, Settled
      <3>3. CASE z = w
        BY <2>8, <3>3
      <3>4. CASE z # w
        BY <2>6, <2>8, <3>1, <3>2, <3>4
      <3> QED
        BY <3>3, <3>4
    <2>12. InOrder(v)
      BY <2>4, <2>6, <2>9, <2>10, <2>11 DEF InOrder, Settled, Focusable, HeadHasFocus
    <2>13. Managing(v)
      BY <2>5, <2>6 DEF Managing
    <2>14. InOrder(y) /\ y.status[w] = v.status[w] /\ y.focusQvwm # w
      BY <2>12, <2>13, YieldSettled
    <2> HIDE DEF y
    <2>15. InOrder(UnmapWindows(y, w, TRUE))
      BY <2>8, <2>14, UnmapWindowsSettled DEF InOrder
    <2> QED
      BY <2>2, <2>15
  <1> QED
    BY <1>1, <1>2

\* A new window is not mapped; nothing is on mapList that was not managed before it.
LEMMA NewSettled ==
    ASSUME NEW t, InOrder(t), Managing(t), NEW w \in Window, w \notin t.qvwmList
    PROVE  LET u == New(t, w)
           IN  /\ Settled(u, w) /\ ~u.mapped[w] /\ u.mapList = t.mapList
               /\ u.focusQvwm = t.focusQvwm
  <1> DEFINE v == NewQvwm(t, w, FALSE)
             x == [v EXCEPT !.zorder = InsertHead(@, w)]
  <1>1. w \in Qvwm /\ w # Root
    BY RootIsApart
  <1>2. /\ v = [f \in Fields |-> v[f]]
        /\ v.qvwmList = t.qvwmList \cup {w}
        /\ v.mapped = [t.mapped EXCEPT ![w] = FALSE]
        /\ v.status = [t.status EXCEPT ![w] = {}]
        /\ v.flags = [t.flags EXCEPT ![w] = InitFlags[w]]
        /\ v.flagsBak = t.flagsBak
        /\ v.mapList = t.mapList /\ v.unmapList = t.unmapList /\ v.focusQvwm = t.focusQvwm
    BY ZenonT(60) DEF NewQvwm, InOrder, Settled, Typed, Fields
  <1> HIDE DEF v
  <1>3. /\ t.mapped \in [Qvwm -> BOOLEAN] /\ t.status \in [Qvwm -> SUBSET Status]
        /\ t.flags \in [Qvwm -> SUBSET Flag] /\ InitFlags[w] \in SUBSET Flag
    BY HintsType DEF InOrder, Settled, Typed, Flag
  <1>4. /\ v.mapped \in [Qvwm -> BOOLEAN] /\ v.status \in [Qvwm -> SUBSET Status]
        /\ v.flags \in [Qvwm -> SUBSET Flag]
        /\ ~v.mapped[w] /\ v.status[w] = {}
        /\ \A z \in Qvwm \ {w} : /\ v.mapped[z] = t.mapped[z] /\ v.status[z] = t.status[z]
                                 /\ v.flags[z] = t.flags[z]
    BY <1>1, <1>2, <1>3, ZenonT(60)
  <1>5. Typed(v)
    BY <1>2, <1>4 DEF InOrder, Settled, Typed
  <1>6. ~Has(t.mapList, w)
    BY DEF Managing, Has
  <1>7. ASSUME NEW z \in Window
        PROVE  /\ v.status[z] = {} \/ v.status[z] = {"MINIMIZE_WINDOW"}
               /\ v.status[z] # {} => v.flagsBak[z] = v.flags[z]
    <2>1. z \in Qvwm
      BY RootIsApart
    <2>2. CASE z = w
      BY <1>4, <2>2
    <2>3. CASE z # w
      BY <1>2, <1>4, <2>1, <2>3 DEF InOrder, Settled
    <2> QED
      BY <2>2, <2>3
  <1>8. ASSUME NEW z \in v.qvwmList, Has(v.mapList, z)
        PROVE  Focusable(v, z) /\ ~IsTransient(z)
    <2>1. z # w /\ z \in t.qvwmList /\ Has(t.mapList, z)
      BY <1>2, <1>6, <1>8
    <2>2. z \in Qvwm
      BY <2>1, RootIsApart DEF InOrder, Settled, Typed
    <2> QED
      BY <1>4, <2>1, <2>2 DEF InOrder, Settled, Focusable
  <1>9. ASSUME NEW z \in v.qvwmList \ {w}, ~IsTransient(z)
        PROVE  v.mapped[z] \/ v.status[z] # {}
    <2>1. z \in t.qvwmList /\ z # w
      BY <1>2, <1>9
    <2>2. z \in Qvwm /\ z # Root
      BY <2>1, RootIsApart DEF InOrder, Settled, Typed
    <2> QED
      BY <1>4, <1>9, <2>1, <2>2 DEF InOrder, Settled
  <1>10. v.mapped[Root] /\ Focusable(v, Root)
    BY <1>1, <1>4, RootIsApart DEF InOrder, Settled, Focusable
  <1>11. Settled(v, w)
    BY <1>5, <1>7, <1>8, <1>9, <1>10 DEF Settled
  <1>12. Alike(v, x)
    BY <1>5, StackAssigned
  <1> HIDE DEF x
  <1>13. Typed(x)
    BY <1>5, <1>12, AlikeSettled
  <1>14. Alike(x, x) /\ Alike(x, SetOnTop(x, w))
    BY <1>13, AlikeItself, StackSteps
  <1>15. New(t, w) = x \/ New(t, w) = SetOnTop(x, w)
    <2>1. New(t, w) = LET leader == v.qvMain[w]
                          ontop == w \in InitOnTop \/ leader \in t.ontop
                      IN  IF ontop THEN SetOnTop(x, w) ELSE x
      BY Zenon DEF New, v, x
    <2> QED
      BY <2>1
  <1> DEFINE u == New(t, w)
  <1>16. Alike(v, u)
    BY <1>12, <1>14, <1>15, AlikeTransitive
  <1> HIDE DEF u
  <1>17. Settled(u, w)
    BY <1>11, <1>16, AlikeSettled
  <1> QED
    BY <1>2, <1>4, <1>16, <1>17 DEF Alike, u

\* MapRequestProc: the window is mapped at the head of mapList and takes the focus,
\* if it may have it.
LEMMA MapRequestInOrder ==
    ASSUME NEW t, InOrder(t), Managing(t), NEW w \in Window, w \notin t.qvwmList,
           t.focusQvwm # w
    PROVE  InOrder(SetFocus(MapRaised(New(t, w), w), w))
  <1> DEFINE u == New(t, w)
             m == MapWindows(u, w, TRUE)
             r == RaiseWindow(m, w, TRUE)
  <1>1. Settled(u, w) /\ ~u.mapped[w] /\ u.mapList = t.mapList /\ u.focusQvwm = t.focusQvwm
    BY NewSettled
  <1>2. MapRaised(u, w) = r
    BY <1>1 DEF MapRaised, CheckMapped
  <1> HIDE DEF u
  <1>3. /\ Settled(m, Root) /\ Kept(u, m) /\ m.focusQvwm = u.focusQvwm
        /\ ~Focusable(u, w) \/ IsTransient(w) => m.mapList = u.mapList
    BY <1>1, MapWindowsSettled
  <1> HIDE DEF m
  <1>4. Alike(m, r)
    BY <1>3, StackSteps DEF Settled
  <1> HIDE DEF r
  <1>5. Settled(r, Root) /\ (HeadHasFocus(m) <=> HeadHasFocus(r))
    BY <1>3, <1>4, AlikeSettled
  <1>6. r.focusQvwm = t.focusQvwm /\ w \in Qvwm /\ (Focusable(r, w) <=> Focusable(u, w))
    BY <1>1, <1>3, <1>4, RootIsApart DEF Alike, Kept, Focusable
  <1>7. HeadHasFocus(r) \/ Focusable(r, w)
    <2>1. CASE Focusable(u, w)
      BY <1>6, <2>1
    <2>2. CASE ~Focusable(u, w)
      BY <1>1, <1>3, <1>5, <2>2 DEF HeadHasFocus, InOrder
    <2> QED
      BY <2>1, <2>2
  <1>8. InOrder(SetFocus(r, w))
    BY <1>5, <1>6, <1>7, SetFocusSettled DEF InOrder
  <1> QED
    BY <1>2, <1>8 DEF u

\* DestroyQvwm yields the focus, and takes the window off both lists.
LEMMA DestroyInOrder ==
    ASSUME ClickToFocus, NEW t, InOrder(t), Managing(t), NEW w \in Window, NEW pointer
    PROVE  InOrder(Destroy(t, w, pointer))
  <1> DEFINE y == IF w = t.focusQvwm THEN Yield(t, w) ELSE t
             u == UnmapWindows(y, w, TRUE)
             v == [u EXCEPT !.unmapList = Remove(@, w), !.mapList = Remove(@, w)]
             d == DeleteQvwm(v, w)
             o == ResetOnTop(d, w)
             z == [o EXCEPT !.zorder = Remove(@, w), !.ontopBak = @ \ {w}]
  <1>1. Destroy(t, w, pointer) = z
    <2>1. Destroy(t, w, pointer) =
            IF w = t.focusQvwm /\ ~ClickToFocus THEN FocusToCursor(z, pointer) ELSE z
      BY Zenon DEF Destroy, y, u, v, d, o, z
    <2> QED
      BY <2>1
  <1>2. InOrder(y) /\ y.focusQvwm # w
    BY YieldSettled
  <1> HIDE DEF y
  <1>3. w \in Qvwm /\ w # Root /\ Settled(y, w)
    BY <1>2, RootIsApart, SettledButOne DEF InOrder
  <1>4. Settled(u, w) /\ u.focusQvwm # w /\ HeadHasFocus(u)
    BY <1>2, <1>3, UnmapWindowsSettled DEF InOrder
  <1> HIDE DEF u
  <1>5. /\ v = [f \in Fields |-> v[f]]
        /\ v.qvwmList = u.qvwmList /\ v.mapped = u.mapped /\ v.status = u.status
        /\ v.flags = u.flags /\ v.flagsBak = u.flagsBak /\ v.focusQvwm = u.focusQvwm
        /\ v.mapList = Remove(u.mapList, w) /\ v.unmapList = Remove(u.unmapList, w)
    BY <1>4 DEF Settled, Typed, Fields
  <1> HIDE DEF v
  <1>6. u.mapList \in Seq(Window) /\ u.unmapList \in Seq(Window)
    BY <1>4 DEF Settled, Typed
  <1>7. /\ v.mapList \in Seq(Window) /\ v.unmapList \in Seq(Window)
        /\ \A x : Has(v.mapList, x) => Has(u.mapList, x)
        /\ u.mapList # <<>> /\ Head(u.mapList) # w
             => v.mapList # <<>> /\ Head(v.mapList) = Head(u.mapList)
    BY <1>5, <1>6, Removed
  <1>8. /\ d = [f \in Fields |-> d[f]]
        /\ d.qvwmList = v.qvwmList \ {w} /\ d.mapped = [v.mapped EXCEPT ![w] = FALSE]
        /\ d.status = [v.status EXCEPT ![w] = {}] /\ d.flags = [v.flags EXCEPT ![w] = {}]
        /\ d.flagsBak = [v.flagsBak EXCEPT ![w] = {}] /\ d.focusQvwm = v.focusQvwm
        /\ d.mapList = v.mapList /\ d.unmapList = v.unmapList
    BY <1>5, ZenonT(60) DEF DeleteQvwm, Fields
  <1> HIDE DEF d
  <1>9. /\ v.mapped \in [Qvwm -> BOOLEAN] /\ v.status \in [Qvwm -> SUBSET Status]
        /\ v.flags \in [Qvwm -> SUBSET Flag] /\ v.flagsBak \in [Qvwm -> SUBSET Flag]
    BY <1>4, <1>5 DEF Settled, Typed
  <1>10. /\ d.mapped \in [Qvwm -> BOOLEAN] /\ d.status \in [Qvwm -> SUBSET Status]
         /\ d.flags \in [Qvwm -> SUBSET Flag] /\ d.flagsBak \in [Qvwm -> SUBSET Flag]
         /\ d.status[w] = {}
         /\ \A x \in Qvwm \ {w} : /\ d.mapped[x] = u.mapped[x] /\ d.status[x] = u.status[x]
                                   /\ d.flags[x] = u.flags[x] /\ d.flagsBak[x] = u.flagsBak[x]
    <2>1. /\ d.mapped \in [Qvwm -> BOOLEAN]
          /\ \A x \in Qvwm \ {w} : d.mapped[x] = v.mapped[x]
      <3>1. d.mapped = [v.mapped EXCEPT ![w] = FALSE] /\ v.mapped \in [Qvwm -> BOOLEAN]
        BY <1>8, <1>9
      <3>2. d.mapped \in [Qvwm -> BOOLEAN]
        BY <3>1
      <3>3. \A x \in Qvwm \ {w} : d.mapped[x] = v.mapped[x]
        BY <3>1
      <3> QED
        BY <3>2, <3>3
    <2>2. /\ d.status \in [Qvwm -> SUBSET Status] /\ d.status[w] = {}
          /\ \A x \in Qvwm \ {w} : d.status[x] = v.status[x]
      BY <1>3, <1>8, <1>9
    <2>3. /\ d.flags \in [Qvwm -> SUBSET Flag]
          /\ \A x \in Qvwm \ {w} : d.flags[x] = v.flags[x]
      BY <1>3, <1>8, <1>9
    <2>4. /\ d.flagsBak \in [Qvwm -> SUBSET Flag]
          /\ \A x \in Qvwm \ {w} : d.flagsBak[x] = v.flagsBak[x]
      BY <1>3, <1>8, <1>9
    <2> QED
      BY <1>5, <2>1, <2>2, <2>3, <2>4
  <1>11. Typed(d)
    BY <1>4, <1>5, <1>7, <1>8, <1>10 DEF Settled, Typed
  <1>12. ASSUME NEW x \in Window
         PROVE  /\ d.status[x] = {} \/ d.status[x] = {"MINIMIZE_WINDOW"}
                /\ d.status[x] # {} => d.flagsBak[x] = d.flags[x]
    <2>1. x \in Qvwm
      BY RootIsApart
    <2>2. CASE x = w
      BY <1>10, <2>2
    <2>3. CASE x # w
      BY <1>4, <1>10, <2>1, <2>3 DEF Settled
    <2> QED
      BY <2>2, <2>3
  <1>13. ASSUME NEW x \in d.qvwmList
         PROVE  x \in u.qvwmList /\ x # w /\ x \in Qvwm /\ x # Root
    <2>1. x \in u.qvwmList /\ x # w
      BY <1>5, <1>8, <1>13
    <2>2. u.qvwmList \subseteq Window
      BY <1>4 DEF Settled, Typed
    <2> QED
      BY <2>1, <2>2, RootIsApart
  <1>14. ASSUME NEW x \in d.qvwmList, Has(d.mapList, x)
         PROVE  Focusable(d, x) /\ ~IsTransient(x)
    BY <1>4, <1>7, <1>8, <1>10, <1>13, <1>14 DEF Settled, Focusable
  <1>15. ASSUME NEW x \in d.qvwmList \ {Root}, ~IsTransient(x)
         PROVE  d.mapped[x] \/ d.status[x] # {}
    BY <1>4, <1>10, <1>13, <1>15 DEF Settled
  <1>16. d.mapped[Root] /\ Focusable(d, Root)
    BY <1>3, <1>4, <1>10, RootIsApart DEF Settled, Focusable
  <1>17. Settled(d, Root)
    BY <1>11, <1>12, <1>14, <1>15, <1>16 DEF Settled
  <1>18. HeadHasFocus(d)
    BY <1>4, <1>5, <1>7, <1>8 DEF HeadHasFocus
  <1>19. Alike(d, o)
    BY <1>11, StackSteps
  <1> HIDE DEF o
  <1>20. Typed(o)
    BY <1>11, <1>19, AlikeSettled
  <1>21. Alike(o, z)
    BY <1>20, StackAssigned
  <1> HIDE DEF z
  <1>22. InOrder(z)
    BY <1>17, <1>18, <1>19, <1>21, AlikeTransitive, AlikeInOrder DEF InOrder
  <1> QED
    BY <1>1, <1>22
-----------------------------------------------------------------------------
(* The walk *)

\* The window at which the iterator that is in use stands.
Standing(u) == IF u.look THEN u.atMap ELSE u.atUnmap

\* The item counted is the task chosen, and the iterator stands there or nowhere.
Names(u, st) ==
    /\ TaskList(st)[u.focusWin + 1] = u.qvWm
    /\ Standing(u) # NULL => Standing(u) = u.qvWm /\ (u.look <=> u.focusWin < Len(st.mapList))
    /\ u.named \in {NULL, u.qvWm}

\* As long as no list has changed, the items are the tasks.
InStep(u, st) ==
    u.open /\ u.intact =>
        /\ u.winNum = Len(TaskList(st)) /\ u.winNum > 1 /\ u.focusWin < u.winNum
        /\ IsTransient(st.focusQvwm) \/ Names(u, st)

Ready(u, st) ==
    /\ u \in SwitcherState
    /\ u.open => u.qvWm \in Window
    /\ InStep(u, st)

\* The list of the tasks is mapList and then unmapList.
LEMMA TaskListProperties ==
    ASSUME NEW st, st.mapList \in Seq(Window), st.unmapList \in Seq(Window)
    PROVE  /\ TaskList(st) \in Seq(Window)
           /\ Len(TaskList(st)) = Len(st.mapList) + Len(st.unmapList)
           /\ Len(st.mapList) \in Nat /\ Len(st.unmapList) \in Nat
           /\ \A i \in 1..Len(st.mapList) : st.mapList[i] = TaskList(st)[i]
           /\ \A i \in 1..Len(st.unmapList) : st.unmapList[i] = TaskList(st)[Len(st.mapList) + i]
  <1> DEFINE q == st.mapList
             r == st.unmapList
  <1>1. /\ q \o r \in Seq(Window) /\ Len(q \o r) = Len(q) + Len(r)
        /\ \A i \in 1..Len(q) + Len(r) : (q \o r)[i] = IF i <= Len(q) THEN q[i] ELSE r[i - Len(q)]
    BY ConcatProperties
  <1>2. Len(q) \in Nat /\ Len(r) \in Nat
    BY LenProperties
  <1>3. TaskList(st) = q \o r
    BY Zenon DEF TaskList, q, r
  <1> HIDE DEF q, r
  <1>4. \A i \in 1..Len(q) : q[i] = (q \o r)[i]
    BY <1>1, <1>2
  <1>5. \A i \in 1..Len(r) : r[i] = (q \o r)[Len(q) + i]
    <2>1. ASSUME NEW i \in 1..Len(r) PROVE r[i] = (q \o r)[Len(q) + i]
      <3>1. Len(q) + i \in 1..Len(q) + Len(r) /\ ~(Len(q) + i <= Len(q)) /\ Len(q) + i - Len(q) = i
        BY <1>2
      <3> QED
        BY <1>1, <3>1
    <2> QED
      BY <2>1
  <1> QED
    BY <1>1, <1>2, <1>3, <1>4, <1>5 DEF q, r

\* A window at the head of a list is found there.
LEMMA FoundAtHead ==
    ASSUME NEW q \in Seq(Window), q # <<>>
    PROVE  /\ Head(q) = q[1] /\ q[1] \in Window /\ 1 \in 1..Len(q) /\ Len(q) \in 1..Len(q)
           /\ q[Len(q)] \in Window /\ FirstIndex(q, q[1]) = 1
  <1>1. Len(q) \in Nat /\ DOMAIN q = 1..Len(q)
    BY LenProperties
  <1>2. Len(q) # 0
    BY <1>1, EmptySeq
  <1>3. 1 \in 1..Len(q) /\ Len(q) \in 1..Len(q)
    BY <1>1, <1>2
  <1>4. Has(q, q[1])
    BY <1>1, <1>3 DEF Has
  <1>5. /\ FirstIndex(q, q[1]) \in 1..Len(q)
        /\ \A i \in 1..(FirstIndex(q, q[1]) - 1) : q[i] # q[1]
    BY <1>4, FirstIndexProperties
  <1>6. FirstIndex(q, q[1]) = 1
    BY <1>1, <1>5
  <1>7. \A i \in 1..Len(q) : q[i] \in Window
    BY <1>1, ElementOfSeq
  <1> QED
    BY <1>3, <1>6, <1>7

\* Where the count of items goes when the key is pressed.
Forth(p, n) == IF p + 1 < n THEN p + 1 ELSE 0
Back(p, n) == IF p > 0 THEN p - 1 ELSE n - 1

\* One step of an iterator, which ends off the list.
LEMMA AdvanceProperties ==
    ASSUME NEW q \in Seq(Window), NEW i \in 1..Len(q)
    PROVE  /\ i < Len(q) => Advance(q, i, 1) = q[i + 1] /\ Advance(q, i, 1) # NULL
           /\ ~(i < Len(q)) => Advance(q, i, 1) = NULL
           /\ i > 1 => Advance(q, i, -1) = q[i - 1] /\ Advance(q, i, -1) # NULL
           /\ ~(i > 1) => Advance(q, i, -1) = NULL
  <1>1. Len(q) \in Nat /\ DOMAIN q = 1..Len(q)
    BY LenProperties
  <1>2. \A j \in 1..Len(q) : q[j] # NULL
    BY ElementOfSeq, RootIsApart
  <1>3. i < Len(q) => i + 1 \in 1..Len(q)
    BY <1>1
  <1>4. ~(i < Len(q)) => i + 1 \notin 1..Len(q)
    BY <1>1
  <1>5. i > 1 => i + (-1) \in 1..Len(q) /\ i + (-1) = i - 1
    BY <1>1
  <1>6. ~(i > 1) => i + (-1) \notin 1..Len(q)
    BY <1>1
  <1> QED
    BY <1>1, <1>2, <1>3, <1>4, <1>5, <1>6 DEF Advance

\* The ends of a list.
LEMMA EndsProperties ==
    ASSUME NEW q \in Seq(Window)
    PROVE  /\ Len(q) \in Nat /\ (q = <<>> <=> Len(q) = 0)
           /\ Len(q) > 0 => HeadOf(q) = q[1] /\ TailOf(q) = q[Len(q)]
  <1>1. Len(q) \in Nat /\ (q = <<>> <=> Len(q) = 0)
    BY LenProperties, EmptySeq
  <1>2. Len(q) > 0 => q # <<>>
    BY <1>1
  <1>3. q # <<>> => Head(q) = q[1]
    BY FoundAtHead
  <1> QED
    BY <1>1, <1>2, <1>3 DEF HeadOf, TailOf, GetHead, GetTail

\* A place in the second list with another before it.
LEMMA BackOnSecond ==
    ASSUME NEW a \in Nat, NEW b \in Nat, NEW p \in Nat, p > a, p < a + b
    PROVE  LET k == Back(p, a + b)
           IN  ~(k < a) /\ p + 1 - a - 1 \in 1..b /\ a + (p + 1 - a - 1) = k + 1
  <1>1. Back(p, a + b) = p - 1
    BY DEF Back
  <1> QED
    BY <1>1

\* One step of the walk of the two lists m and r, which are the list q, from place p.
OneStep(m, r, q, p, look, forward, next, onMap, found) ==
    /\ m \in Seq(Window) /\ r \in Seq(Window) /\ p \in Nat
    /\ look \in BOOLEAN /\ forward \in BOOLEAN /\ onMap \in BOOLEAN
    /\ p < Len(m) + Len(r) /\ (look <=> p < Len(m))
    /\ \A i \in 1..Len(m) : m[i] = q[i]
    /\ \A i \in 1..Len(r) : r[i] = q[Len(m) + i]
    /\ next = Advance(IF look THEN m ELSE r, IF look THEN p + 1 ELSE p + 1 - Len(m),
                      IF forward THEN 1 ELSE -1)
    /\ next # NULL => found = next /\ (onMap <=> look)
    /\ next = NULL /\ look =>
           IF r = <<>> THEN onMap /\ found = (IF forward THEN HeadOf(m) ELSE TailOf(m))
                       ELSE ~onMap /\ found = (IF forward THEN HeadOf(r) ELSE TailOf(r))
    /\ next = NULL /\ ~look =>
           IF m = <<>> THEN ~onMap /\ found = (IF forward THEN HeadOf(r) ELSE TailOf(r))
                       ELSE onMap /\ found = (IF forward THEN HeadOf(m) ELSE TailOf(m))

\* The step ends at the place that the count of items goes to.
Follows(m, r, q, p, forward, onMap, found) ==
    LET k == IF forward THEN Forth(p, Len(m) + Len(r)) ELSE Back(p, Len(m) + Len(r))
    IN  found = q[k + 1] /\ (onMap <=> k < Len(m))

\* The count of items goes where the walk goes, around the end too.
LEMMA AroundTheLists ==
    ASSUME NEW m, NEW r, NEW q, NEW p, NEW look, NEW forward, NEW next, NEW onMap, NEW found,
           OneStep(m, r, q, p, look, forward, next, onMap, found)
    PROVE  Follows(m, r, q, p, forward, onMap, found)
  <1> DEFINE a == Len(m)
             b == Len(r)
             k == IF forward THEN Forth(p, a + b) ELSE Back(p, a + b)
  <1>1. /\ m \in Seq(Window) /\ r \in Seq(Window) /\ p \in Nat
        /\ look \in BOOLEAN /\ forward \in BOOLEAN /\ onMap \in BOOLEAN
    BY DEF OneStep
  <1>2. /\ a \in Nat /\ (m = <<>> <=> a = 0)
        /\ a > 0 => HeadOf(m) = m[1] /\ TailOf(m) = m[a]
        /\ b \in Nat /\ (r = <<>> <=> b = 0)
        /\ b > 0 => HeadOf(r) = r[1] /\ TailOf(r) = r[b]
    BY <1>1, EndsProperties
  <1>3. /\ p < a + b /\ (look <=> p < a) /\ k = IF forward THEN Forth(p, a + b) ELSE Back(p, a + b)
        /\ \A i \in 1..a : m[i] = q[i]
        /\ \A i \in 1..b : r[i] = q[a + i]
    BY DEF OneStep
  <1>4. /\ next = Advance(IF look THEN m ELSE r, IF look THEN p + 1 ELSE p + 1 - a,
                          IF forward THEN 1 ELSE -1)
        /\ next # NULL => found = next /\ (onMap <=> look)
        /\ next = NULL /\ look =>
               IF r = <<>> THEN onMap /\ found = (IF forward THEN HeadOf(m) ELSE TailOf(m))
                           ELSE ~onMap /\ found = (IF forward THEN HeadOf(r) ELSE TailOf(r))
        /\ next = NULL /\ ~look =>
               IF m = <<>> THEN ~onMap /\ found = (IF forward THEN HeadOf(r) ELSE TailOf(r))
                           ELSE onMap /\ found = (IF forward THEN HeadOf(m) ELSE TailOf(m))
    BY DEF OneStep
  <1> SUFFICES found = q[k + 1] /\ (onMap <=> k < a)
    BY Zenon DEF Follows, k, a, b
  <1> HIDE DEF k
  <1> HIDE DEF a, b
  <1>5. CASE look /\ forward
    <2>1. /\ p < a /\ next = Advance(m, p + 1, 1) /\ p + 1 \in 1..a
          /\ k = Forth(p, a + b)
      <3>1. p + 1 \in 1..a
        BY <1>1, <1>2, <1>3, <1>5
      <3> QED
        BY <1>1, <1>3, <1>4, <1>5, <3>1
    <2>2. CASE p + 1 < a
      <3>1. next = m[p + 1 + 1] /\ next # NULL
        BY <1>1, <2>1, <2>2, AdvanceProperties DEF a, b
      <3>2. k + 1 = p + 1 + 1 /\ k < a /\ k + 1 \in 1..a
        BY <1>1, <1>2, <1>3, <2>1, <2>2 DEF Forth
      <3>3. m[p + 1 + 1] = q[k + 1]
        BY <1>1, <1>3, <3>2
      <3> QED
        BY <1>1, <1>4, <1>5, <3>1, <3>2, <3>3
    <2>3. CASE ~(p + 1 < a) /\ b = 0
      <3>1. next = NULL
        BY <1>1, <2>1, <2>3, AdvanceProperties DEF a, b
      <3>2. k < a /\ 1 \in 1..a /\ a > 0 /\ k + 1 = 1
        BY <1>1, <1>2, <1>3, <2>1, <2>3 DEF Forth
      <3>3. m[1] = q[k + 1]
        BY <1>1, <1>3, <3>2
      <3>4. found = m[1] /\ onMap
        BY <1>1, <1>2, <1>4, <1>5, <2>3, <3>1, <3>2
      <3> QED
        BY <1>1, <3>2, <3>3, <3>4
    <2>4. CASE ~(p + 1 < a) /\ b # 0
      <3>1. next = NULL
        BY <1>1, <2>1, <2>4, AdvanceProperties DEF a, b
      <3>2. ~(k < a) /\ 1 \in 1..b /\ b > 0 /\ k + 1 = a + 1
        BY <1>1, <1>2, <1>3, <2>1, <2>4 DEF Forth
      <3>3. r[1] = q[k + 1]
        BY <1>1, <1>3, <3>2
      <3>4. found = r[1] /\ ~onMap
        BY <1>1, <1>2, <1>4, <1>5, <2>4, <3>1, <3>2
      <3> QED
        BY <1>1, <3>2, <3>3, <3>4
    <2> QED
      BY <1>1, <2>2, <2>3, <2>4
  <1>6. CASE look /\ ~forward
    <2>1. /\ p < a /\ next = Advance(m, p + 1, -1) /\ p + 1 \in 1..a
          /\ k = Back(p, a + b)
      <3>1. p + 1 \in 1..a
        BY <1>1, <1>2, <1>3, <1>6
      <3> QED
        BY <1>1, <1>3, <1>4, <1>6, <3>1
    <2>2. CASE p + 1 > 1
      <3>1. next = m[p + 1 - 1] /\ next # NULL
        BY <1>1, <2>1, <2>2, AdvanceProperties DEF a, b
      <3>2. k + 1 = p + 1 - 1 /\ k < a /\ k + 1 \in 1..a
        BY <1>1, <1>2, <1>3, <2>1, <2>2 DEF Back
      <3>3. m[p + 1 - 1] = q[k + 1]
        BY <1>1, <1>3, <3>2
      <3> QED
        BY <1>1, <1>4, <1>6, <3>1, <3>2, <3>3
    <2>3. CASE ~(p + 1 > 1) /\ b = 0
      <3>1. next = NULL
        BY <1>1, <2>1, <2>3, AdvanceProperties DEF a, b
      <3>2. k < a /\ a \in 1..a /\ a > 0 /\ k + 1 = a
        BY <1>1, <1>2, <1>3, <2>1, <2>3 DEF Back
      <3>3. m[a] = q[k + 1]
        BY <1>1, <1>3, <3>2
      <3>4. found = m[a] /\ onMap
        BY <1>1, <1>2, <1>4, <1>6, <2>3, <3>1, <3>2
      <3> QED
        BY <1>1, <3>2, <3>3, <3>4
    <2>4. CASE ~(p + 1 > 1) /\ b # 0
      <3>1. next = NULL
        BY <1>1, <2>1, <2>4, AdvanceProperties DEF a, b
      <3>2. ~(k < a) /\ b \in 1..b /\ b > 0 /\ k + 1 = a + b
        <4>1. a \in Nat /\ b \in Nat /\ p = 0 /\ p < a
          BY <1>1, <1>2, <2>1, <2>4
        <4>2. k = a + b - 1
          BY <1>1, <2>1, <4>1 DEF Back
        <4> QED
          BY <1>1, <2>4, <4>1, <4>2
      <3>3. r[b] = q[k + 1]
        BY <1>1, <1>3, <3>2
      <3>4. found = r[b] /\ ~onMap
        BY <1>1, <1>2, <1>4, <1>6, <2>4, <3>1, <3>2
      <3> QED
        BY <1>1, <3>2, <3>3, <3>4
    <2> QED
      BY <1>1, <2>2, <2>3, <2>4
  <1>7. CASE ~look /\ forward
    <2>1. /\ ~(p < a) /\ next = Advance(r, p + 1 - a, 1) /\ p + 1 - a \in 1..b
          /\ k = Forth(p, a + b)
      <3>1. p + 1 - a \in 1..b
        BY <1>1, <1>2, <1>3, <1>7
      <3> QED
        BY <1>1, <1>3, <1>4, <1>7, <3>1
    <2>2. CASE p + 1 - a < b
      <3>1. next = r[p + 1 - a + 1] /\ next # NULL
        BY <1>1, <2>1, <2>2, AdvanceProperties DEF a, b
      <3>2. ~(k < a) /\ p + 1 - a + 1 \in 1..b /\ a + (p + 1 - a + 1) = k + 1
        BY <1>1, <1>2, <1>3, <2>1, <2>2 DEF Forth
      <3>3. r[p + 1 - a + 1] = q[k + 1]
        BY <1>1, <1>3, <3>2
      <3> QED
        BY <1>1, <1>4, <1>7, <3>1, <3>2, <3>3
    <2>3. CASE ~(p + 1 - a < b) /\ a = 0
      <3>1. next = NULL
        BY <1>1, <2>1, <2>3, AdvanceProperties DEF a, b
      <3>2. ~(k < a) /\ 1 \in 1..b /\ b > 0 /\ k + 1 = a + 1
        BY <1>1, <1>2, <1>3, <2>1, <2>3 DEF Forth
      <3>3. r[1] = q[k + 1]
        BY <1>1, <1>3, <3>2
      <3>4. found = r[1] /\ ~onMap
        BY <1>1, <1>2, <1>4, <1>7, <2>3, <3>1, <3>2
      <3> QED
        BY <1>1, <3>2, <3>3, <3>4
    <2>4. CASE ~(p + 1 - a < b) /\ a # 0
      <3>1. next = NULL
        BY <1>1, <2>1, <2>4, AdvanceProperties DEF a, b
      <3>2. k < a /\ 1 \in 1..a /\ a > 0 /\ k + 1 = 1
        BY <1>1, <1>2, <1>3, <2>1, <2>4 DEF Forth
      <3>3. m[1] = q[k + 1]
        BY <1>1, <1>3, <3>2
      <3>4. found = m[1] /\ onMap
        BY <1>1, <1>2, <1>4, <1>7, <2>4, <3>1, <3>2
      <3> QED
        BY <1>1, <3>2, <3>3, <3>4
    <2> QED
      BY <1>1, <2>2, <2>3, <2>4
  <1>8. CASE ~look /\ ~forward
    <2>1. /\ ~(p < a) /\ next = Advance(r, p + 1 - a, -1) /\ p + 1 - a \in 1..b
          /\ k = Back(p, a + b)
      <3>1. p + 1 - a \in 1..b
        BY <1>1, <1>2, <1>3, <1>8
      <3> QED
        BY <1>1, <1>3, <1>4, <1>8, <3>1
    <2>2. CASE p + 1 - a > 1
      <3>1. next = r[p + 1 - a - 1] /\ next # NULL
        BY <1>1, <2>1, <2>2, AdvanceProperties DEF a, b
      <3>2. ~(k < a) /\ p + 1 - a - 1 \in 1..b /\ a + (p + 1 - a - 1) = k + 1
        <4>1. a \in Nat /\ b \in Nat /\ p > a /\ p < a + b
          BY <1>1, <1>2, <1>3, <2>1, <2>2
        <4> QED
          BY <1>1, <2>1, <4>1, BackOnSecond
      <3>3. r[p + 1 - a - 1] = q[k + 1]
        BY <1>1, <1>3, <3>2
      <3> QED
        BY <1>1, <1>4, <1>8, <3>1, <3>2, <3>3
    <2>3. CASE ~(p + 1 - a > 1) /\ a = 0
      <3>1. next = NULL
        BY <1>1, <2>1, <2>3, AdvanceProperties DEF a, b
      <3>2. ~(k < a) /\ b \in 1..b /\ b > 0 /\ k + 1 = a + b
        BY <1>1, <1>2, <1>3, <2>1, <2>3 DEF Back
      <3>3. r[b] = q[k + 1]
        BY <1>1, <1>3, <3>2
      <3>4. found = r[b] /\ ~onMap
        BY <1>1, <1>2, <1>4, <1>8, <2>3, <3>1, <3>2
      <3> QED
        BY <1>1, <3>2, <3>3, <3>4
    <2>4. CASE ~(p + 1 - a > 1) /\ a # 0
      <3>1. next = NULL
        BY <1>1, <2>1, <2>4, AdvanceProperties DEF a, b
      <3>2. k < a /\ a \in 1..a /\ a > 0 /\ k + 1 = a
        BY <1>1, <1>2, <1>3, <2>1, <2>4 DEF Back
      <3>3. m[a] = q[k + 1]
        BY <1>1, <1>3, <3>2
      <3>4. found = m[a] /\ onMap
        BY <1>1, <1>2, <1>4, <1>8, <2>4, <3>1, <3>2
      <3> QED
        BY <1>1, <3>2, <3>3, <3>4
    <2> QED
      BY <1>1, <2>2, <2>3, <2>4
  <1> QED
    BY <1>5, <1>6, <1>7, <1>8

\* The window GetNextFocus or GetPrevFocus finds is the next of the tasks, or the one
\* before, counted around the end.
LEMMA WalkKeepsStep ==
    ASSUME NEW st, st.mapList \in Seq(Window), st.unmapList \in Seq(Window),
           NEW u \in SwitcherState, NEW p \in Nat, p < Len(TaskList(st)),
           u.look <=> p < Len(st.mapList),
           FirstIndex(IF u.look THEN st.mapList ELSE st.unmapList, Standing(u))
             = IF u.look THEN p + 1 ELSE p + 1 - Len(st.mapList)
    PROVE  LET v == Walk(u, st)
               k == IF u.forward THEN Forth(p, Len(TaskList(st))) ELSE Back(p, Len(TaskList(st)))
           IN  /\ v.qvWm = TaskList(st)[k + 1]
               /\ v.look <=> k < Len(st.mapList)
               /\ Standing(v) = v.qvWm
  <1> DEFINE m == st.mapList
             r == st.unmapList
             n == Len(TaskList(st))
             step == IF u.forward THEN 1 ELSE -1
             here == IF u.look THEN m ELSE r
             there == IF u.look THEN r ELSE m
             at == FirstIndex(here, Standing(u))
             next == Advance(here, at, step)
             First(q) == IF u.forward THEN HeadOf(q) ELSE TailOf(q)
             onMap == IF next # NULL \/ there = <<>> THEN u.look ELSE ~u.look
             found == IF next # NULL THEN next ELSE IF there # <<>> THEN First(there) ELSE First(here)
             k == IF u.forward THEN Forth(p, n) ELSE Back(p, n)
  <1>1. /\ n = Len(m) + Len(r)
        /\ \A i \in 1..Len(m) : m[i] = TaskList(st)[i]
        /\ \A i \in 1..Len(r) : r[i] = TaskList(st)[Len(m) + i]
    BY TaskListProperties
  <1>2. u.look \in BOOLEAN /\ u.forward \in BOOLEAN
    BY DEF SwitcherState
  <1>3. Walk(u, st) = [u EXCEPT !.qvWm = found, !.look = onMap,
                                !.atMap = IF onMap THEN found ELSE IF u.look THEN NULL ELSE @,
                                !.atUnmap = IF onMap THEN (IF u.look THEN @ ELSE NULL) ELSE found]
    BY Zenon DEF Walk, Standing, found, onMap, First, next, at, there, here, step, m, r
  <1>4. at = IF u.look THEN p + 1 ELSE p + 1 - Len(m)
    OBVIOUS
  <1>5. p < n /\ (u.look <=> p < Len(m))
    OBVIOUS
  <1>6. m \in Seq(Window) /\ r \in Seq(Window) /\ k = IF u.forward THEN Forth(p, n) ELSE Back(p, n)
    OBVIOUS
  <1> HIDE DEF m, r, n, k, at
  <1>7. next = Advance(here, at, step)
    OBVIOUS
  <1> HIDE DEF next
  <1>8. /\ next # NULL => found = next /\ (onMap <=> u.look)
        /\ next = NULL /\ u.look =>
               IF r = <<>> THEN onMap /\ found = (IF u.forward THEN HeadOf(m) ELSE TailOf(m))
                           ELSE ~onMap /\ found = (IF u.forward THEN HeadOf(r) ELSE TailOf(r))
        /\ next = NULL /\ ~u.look =>
               IF m = <<>> THEN ~onMap /\ found = (IF u.forward THEN HeadOf(r) ELSE TailOf(r))
                           ELSE onMap /\ found = (IF u.forward THEN HeadOf(m) ELSE TailOf(m))
    BY <1>2
  <1>9. onMap \in BOOLEAN
    BY <1>2
  <1> HIDE DEF found, onMap, First
  <1>10. PICK look \in BOOLEAN, forward \in BOOLEAN : look = u.look /\ forward = u.forward
    BY <1>2
  <1>11. next = Advance(IF look THEN m ELSE r, IF look THEN p + 1 ELSE p + 1 - Len(m),
                        IF forward THEN 1 ELSE -1)
    BY <1>4, <1>7, <1>10
  <1>12. found = TaskList(st)[k + 1] /\ (onMap <=> k < Len(m))
    <2>1. OneStep(m, r, TaskList(st), p, look, forward, next, onMap, found)
      BY <1>1, <1>5, <1>6, <1>8, <1>9, <1>10, <1>11 DEF OneStep
    <2>2. Follows(m, r, TaskList(st), p, forward, onMap, found)
      BY <2>1, AroundTheLists, Zenon
    <2>3. k = IF forward THEN Forth(p, Len(m) + Len(r)) ELSE Back(p, Len(m) + Len(r))
      BY <1>1, <1>6, <1>10
    <2> QED
      BY <2>2, <2>3 DEF Follows
  <1> DEFINE v == Walk(u, st)
  <1>13. v.qvWm = found /\ v.look = onMap /\ (onMap => v.atMap = found) /\ (~onMap => v.atUnmap = found)
    BY <1>3, <1>9 DEF SwitcherState
  <1> HIDE DEF v
  <1>14. Standing(v) = v.qvWm
    BY <1>9, <1>13 DEF Standing
  <1> QED
    BY <1>12, <1>13, <1>14 DEF v, k, m, n

\* What the walk leaves alone: the list is open as before, with the same items.
SameItems(u, v) ==
    /\ v.open = u.open /\ v.winNum = u.winNum /\ v.forward = u.forward
    /\ v.named = u.named /\ v.intact = u.intact

\* The walk ends at a task, whatever the window it stands at.
LEMMA WalkFindsTask ==
    ASSUME NEW st, st.mapList \in Seq(Window), st.unmapList \in Seq(Window),
           TaskList(st) # <<>>, NEW u \in SwitcherState
    PROVE  LET v == Walk(u, st)
           IN  v \in SwitcherState /\ v.qvWm \in Window /\ SameItems(u, v) /\ v.focusWin = u.focusWin
  <1> DEFINE m == st.mapList
             r == st.unmapList
             step == IF u.forward THEN 1 ELSE -1
             here == IF u.look THEN m ELSE r
             there == IF u.look THEN r ELSE m
             at == FirstIndex(here, Standing(u))
             next == Advance(here, at, step)
             First(q) == IF u.forward THEN HeadOf(q) ELSE TailOf(q)
             onMap == IF next # NULL \/ there = <<>> THEN u.look ELSE ~u.look
             found == IF next # NULL THEN next ELSE IF there # <<>> THEN First(there) ELSE First(here)
  <1>1. Walk(u, st) = [u EXCEPT !.qvWm = found, !.look = onMap,
                                !.atMap = IF onMap THEN found ELSE IF u.look THEN NULL ELSE @,
                                !.atUnmap = IF onMap THEN (IF u.look THEN @ ELSE NULL) ELSE found]
    BY Zenon DEF Walk, Standing, found, onMap, First, next, at, there, here, step, m, r
  <1>2. here \in Seq(Window) /\ there \in Seq(Window) /\ (here # <<>> \/ there # <<>>)
    <2>1. /\ Len(TaskList(st)) = Len(m) + Len(r) /\ TaskList(st) \in Seq(Window)
          /\ Len(m) \in Nat /\ Len(r) \in Nat
      BY TaskListProperties
    <2>2. Len(TaskList(st)) # 0
      BY <2>1, EmptySeq
    <2>3. m = <<>> => Len(m) = 0
      BY EmptySeq
    <2>4. r = <<>> => Len(r) = 0
      BY EmptySeq
    <2>5. ASSUME m = <<>>, r = <<>> PROVE FALSE
      <3>1. Len(m) = 0 /\ Len(r) = 0
        BY <2>3, <2>4, <2>5
      <3>2. Len(TaskList(st)) = 0
        BY <2>1, <3>1
      <3> QED
        BY <2>2, <3>2
    <2> QED
      BY <2>5
  <1>3. u.look \in BOOLEAN /\ u.forward \in BOOLEAN
    BY DEF SwitcherState
  <1> HIDE DEF here, there, at, step
  <1>4. next = NULL \/ next \in Window
    <2>1. \A i \in DOMAIN here : here[i] \in Window
      BY <1>2
    <2> QED
      BY <2>1 DEF Advance
  <1> HIDE DEF next
  <1>5. \A q \in Seq(Window) : q # <<>> => HeadOf(q) \in Window /\ TailOf(q) \in Window
    BY FoundAtHead DEF HeadOf, TailOf, GetHead, GetTail
  <1>6. found \in Window
    BY <1>2, <1>3, <1>4, <1>5
  <1>7. onMap \in BOOLEAN
    BY <1>3
  <1> HIDE DEF found, onMap
  <1> DEFINE v == Walk(u, st)
  <1>8. /\ v.qvWm = found /\ v.look = onMap /\ v.focusWin = u.focusWin
        /\ SameItems(u, v)
        /\ v.atMap \in {found, NULL, u.atMap} /\ v.atUnmap \in {found, NULL, u.atUnmap}
        /\ v = [f \in DOMAIN u |-> v[f]]
    BY <1>1 DEF SwitcherState, SameItems
  <1> HIDE DEF v
  <1>9. v \in SwitcherState
    BY <1>6, <1>7, <1>8 DEF SwitcherState, SameItems
  <1> QED
    BY <1>6, <1>8, <1>9 DEF v

\* The first task offered is the one before or after the window that has the focus,
\* which is the head of mapList; on the desktop it is the head itself.
LEMMA FirstFocusInStep ==
    ASSUME NEW st, InOrder(st), Len(TaskList(st)) > 1, NEW u \in SwitcherState
    PROVE  LET g == GetFirstFocus(u, st)
               p == IF st.focusQvwm = Root THEN 0 ELSE IF u.forward THEN 1 ELSE Len(TaskList(st)) - 1
           IN  /\ g \in SwitcherState /\ g.qvWm \in Window /\ SameItems(u, g)
               /\ p \in Nat /\ p < Len(TaskList(st))
               /\ IsTransient(st.focusQvwm)
                  \/ /\ g.qvWm = TaskList(st)[p + 1] /\ Standing(g) = g.qvWm
                     /\ g.look <=> p < Len(st.mapList)
  <1> DEFINE m == st.mapList
             r == st.unmapList
             n == Len(TaskList(st))
             g == GetFirstFocus(u, st)
             p == IF st.focusQvwm = Root THEN 0 ELSE IF u.forward THEN 1 ELSE n - 1
  <1>1. /\ m \in Seq(Window) /\ r \in Seq(Window) /\ st.focusQvwm \in Qvwm
        /\ HeadHasFocus(st) /\ u.forward \in BOOLEAN /\ u.look \in BOOLEAN
    BY DEF InOrder, Settled, Typed, SwitcherState
  <1>2. /\ n = Len(m) + Len(r) /\ n \in Nat /\ n > 1 /\ Len(m) \in Nat /\ Len(r) \in Nat
        /\ \A i \in 1..Len(m) : m[i] = TaskList(st)[i]
        /\ \A i \in 1..Len(r) : r[i] = TaskList(st)[Len(m) + i]
    BY <1>1, TaskListProperties, LenProperties
  <1> HIDE DEF m, r, n
  <1>3. p \in Nat /\ p < n
    BY <1>1, <1>2
  <1>4. TaskList(st) # <<>>
    <2>1. TaskList(st) = <<>> => n = 0
      BY EmptySeq DEF n
    <2> QED
      BY <1>2, <2>1
  <1>5. CASE m = <<>>
    <2>1. Len(m) = 0 /\ r # <<>>
      <3>1. Len(m) = 0
        BY <1>5, EmptySeq
      <3>2. Len(r) > 1
        BY <1>2, <3>1
      <3>3. r = <<>> => Len(r) = 0
        BY EmptySeq
      <3> QED
        BY <3>1, <3>2, <3>3
    <2>2. Head(r) = r[1] /\ r[1] \in Window /\ 1 \in 1..Len(r)
      BY <1>1, <2>1, FoundAtHead
    <2>3. g = [u EXCEPT !.qvWm = r[1], !.look = FALSE, !.atMap = NULL, !.atUnmap = r[1]]
      BY <1>5, <2>2 DEF GetFirstFocus, GetHead, m, r
    <2> HIDE DEF g
    <2>4. g \in SwitcherState /\ g.qvWm = r[1] /\ ~g.look /\ g.atUnmap = r[1] /\ SameItems(u, g)
      BY <2>2, <2>3 DEF SwitcherState, SameItems
    <2>5. IsTransient(st.focusQvwm) \/ p = 0
      BY <1>1, <1>5 DEF HeadHasFocus, m
    <2>6. r[1] = TaskList(st)[0 + 1]
      <3>1. Len(m) + 1 = 0 + 1
        BY <2>1
      <3> QED
        BY <1>2, <2>2, <3>1
    <2>7. ASSUME p = 0 PROVE g.qvWm = TaskList(st)[p + 1] /\ (g.look <=> p < Len(m))
      BY <2>1, <2>4, <2>6, <2>7
    <2>8. Standing(g) = g.qvWm
      BY <2>4 DEF Standing
    <2> HIDE DEF p
    <2>9. /\ g \in SwitcherState /\ g.qvWm \in Window /\ SameItems(u, g)
          /\ p \in Nat /\ p < n
          /\ IsTransient(st.focusQvwm)
             \/ (g.qvWm = TaskList(st)[p + 1] /\ Standing(g) = g.qvWm /\ (g.look <=> p < Len(m)))
      BY <1>3, <2>2, <2>4, <2>5, <2>7, <2>8, Zenon
    <2> QED
      BY <2>9 DEF g, p, n, m
  <1>6. CASE m # <<>>
    <2>1. Head(m) = m[1] /\ m[1] \in Window /\ 1 \in 1..Len(m) /\ FirstIndex(m, m[1]) = 1
      BY <1>1, <1>6, FoundAtHead
    <2> DEFINE h == m[1]
               w == [u EXCEPT !.qvWm = h, !.look = TRUE, !.atMap = h]
    <2>2. g = IF st.focusQvwm = h THEN Walk(w, st) ELSE w
      BY <1>6, <2>1 DEF GetFirstFocus, GetHead, m
    <2>3. w \in SwitcherState /\ SameItems(u, w) /\ w.look /\ w.atMap = h /\ w.qvWm = h
      BY <2>1 DEF SwitcherState, SameItems
    <2>4. Standing(w) = h
      BY <2>3 DEF Standing
    <2>5. 0 < Len(m) /\ m[1] = TaskList(st)[1]
      BY <1>2, <2>1
    <2>6. CASE st.focusQvwm = h
      <3>1. p = IF w.forward THEN 1 ELSE n - 1
        BY <2>1, <2>3, <2>6, RootIsApart DEF SameItems
      <3>2. g = Walk(w, st)
        BY <2>2, <2>6
      <3> HIDE DEF w, g
      <3>3. g \in SwitcherState /\ g.qvWm \in Window /\ SameItems(w, g)
        BY <1>1, <1>4, <2>3, <3>2, WalkFindsTask DEF m, r
      <3>4. FirstIndex(IF w.look THEN st.mapList ELSE st.unmapList, Standing(w))
              = IF w.look THEN 0 + 1 ELSE 0 + 1 - Len(st.mapList)
        BY <2>1, <2>3, <2>4 DEF m
      <3>5. LET k == IF w.forward THEN Forth(0, n) ELSE Back(0, n)
            IN  /\ g.qvWm = TaskList(st)[k + 1]
                /\ g.look <=> k < Len(m)
                /\ Standing(g) = g.qvWm
        <4>1. w.look <=> 0 < Len(st.mapList)
          BY <2>3, <2>5 DEF m
        <4>2. 0 \in Nat /\ 0 < Len(TaskList(st))
          BY <1>2 DEF n
        <4> HIDE DEF w
        <4> QED
          BY <1>1, <2>3, <3>2, <3>4, <4>1, <4>2, WalkKeepsStep DEF m, r, n
      <3>6. Forth(0, n) = 1 /\ Back(0, n) = n - 1
        BY <1>2 DEF Forth, Back
      <3>7. p = IF w.forward THEN Forth(0, n) ELSE Back(0, n)
        BY <3>1, <3>6
      <3>8. SameItems(u, g)
        BY <2>3, <3>3 DEF SameItems
      <3> HIDE DEF p
      <3>9. g.qvWm = TaskList(st)[p + 1] /\ (g.look <=> p < Len(m)) /\ Standing(g) = g.qvWm
        BY <3>5, <3>7
      <3> QED
        BY <1>3, <3>3, <3>8, <3>9 DEF g, p, n, m
    <2>7. CASE st.focusQvwm # h
      <3>1. g = w
        BY <2>2, <2>7
      <3>2. IsTransient(st.focusQvwm) \/ p = 0
        BY <1>1, <2>1, <2>7 DEF HeadHasFocus, m
      <3> HIDE DEF w, g
      <3>3. ASSUME p = 0 PROVE g.qvWm = TaskList(st)[p + 1] /\ (g.look <=> p < Len(m))
        BY <2>3, <2>5, <3>1, <3>3
      <3>4. Standing(g) = g.qvWm
        BY <2>3, <2>4, <3>1
      <3> HIDE DEF p
      <3>5. IsTransient(st.focusQvwm)
             \/ (g.qvWm = TaskList(st)[p + 1] /\ Standing(g) = g.qvWm /\ (g.look <=> p < Len(m)))
        BY <3>2, <3>3, <3>4, Zenon
      <3> QED
        BY <1>3, <2>1, <2>3, <3>1, <3>5 DEF g, p, n, m
    <2> QED
      BY <2>6, <2>7
  <1> QED
    BY <1>5, <1>6

\* The task that FindApplication has found: the walk goes on from there.
FoundAgain(u, st) ==
    /\ u.qvWm \in Window /\ u.atMap = u.qvWm /\ u.atUnmap = NULL
    /\ u.focusWin < Len(st.mapList) /\ st.mapList[u.focusWin + 1] = u.qvWm

\* The task that was shown is kept only when it has been found.
KeptIfFound(u, st, isKept) == isKept \in BOOLEAN /\ (isKept => FoundAgain(u, st))

\* The list opens with the count in step with the walk.
LEMMA OpenListReady ==
    ASSUME NEW st, InOrder(st), NEW u \in SwitcherState, Len(TaskList(st)) > 1,
           NEW isKept, KeptIfFound(u, st, isKept)
    PROVE  Ready(OpenList(u, st, Len(TaskList(st)), isKept), st)
  <1> DEFINE n == Len(TaskList(st))
             v == [u EXCEPT !.open = TRUE, !.winNum = n, !.named = NULL,
                            !.intact = u.qvWm = NULL \/ isKept]
             o == OpenList(u, st, n, isKept)
  <1>1. /\ st.mapList \in Seq(Window) /\ st.unmapList \in Seq(Window)
    BY DEF InOrder, Settled, Typed
  <1>2. /\ n = Len(st.mapList) + Len(st.unmapList) /\ n \in Nat /\ n > 1 /\ n = Len(TaskList(st))
        /\ Len(st.mapList) \in Nat /\ Len(st.unmapList) \in Nat
        /\ \A i \in 1..Len(st.mapList) : st.mapList[i] = TaskList(st)[i]
    BY <1>1, TaskListProperties, LenProperties
  <1>3. /\ v \in SwitcherState /\ v.open = TRUE /\ v.winNum = n /\ v.named = NULL
        /\ v.intact = (u.qvWm = NULL \/ isKept) /\ isKept \in BOOLEAN /\ v.qvWm = u.qvWm /\ v.look = u.look
        /\ v.forward = u.forward /\ v.atMap = u.atMap /\ v.atUnmap = u.atUnmap
        /\ v.focusWin = u.focusWin
    BY <1>2 DEF SwitcherState, KeptIfFound
  <1>4. o = IF v.qvWm # NULL THEN (IF isKept THEN v ELSE Loose(v))
            ELSE [GetFirstFocus(v, st) EXCEPT
                    !.focusWin = IF st.focusQvwm = Root THEN 0 ELSE IF v.forward THEN 1 ELSE n - 1]
    <2>1. o = IF u.qvWm # NULL THEN (IF isKept THEN v ELSE Loose(v))
              ELSE [GetFirstFocus(v, st) EXCEPT
                      !.focusWin = IF st.focusQvwm = Root THEN 0
                                   ELSE IF u.forward THEN 1 ELSE n - 1]
      BY Zenon DEF OpenList
    <2> HIDE DEF v
    <2> QED
      BY <1>3, <2>1
  <1>5. NULL \notin Window
    BY RootIsApart
  <1> HIDE DEF v, o, n
  <1>6. CASE v.qvWm # NULL /\ isKept
    <2>1. o = v /\ FoundAgain(v, st) /\ v.focusWin \in Nat /\ v.look \in BOOLEAN
      BY <1>3, <1>4, <1>6 DEF FoundAgain, SwitcherState, KeptIfFound
    <2>2. v.qvWm \in Window /\ v.focusWin < n
      <3>1. v.qvWm \in Window /\ v.focusWin < Len(st.mapList)
        BY <2>1 DEF FoundAgain
      <3>2. \A a, b, f \in Nat : f < a => f < a + b
        OBVIOUS
      <3> QED
        BY <1>2, <2>1, <3>1, <3>2, Zenon
    <2>3. v.focusWin + 1 \in 1..Len(st.mapList)
      BY <1>2, <2>1 DEF FoundAgain
    <2>4. TaskList(st)[v.focusWin + 1] = v.qvWm
      BY <1>2, <2>1, <2>3 DEF FoundAgain
    <2>5. Names(v, st)
      BY <1>3, <1>5, <2>1, <2>4 DEF Names, Standing, FoundAgain
    <2>6. InStep(v, st)
      BY <1>2, <1>3, <2>2, <2>5 DEF InStep
    <2>7. Ready(o, st)
      BY <1>3, <2>1, <2>2, <2>6 DEF Ready
    <2> QED
      BY <2>7 DEF o, n
  <1>7. CASE v.qvWm # NULL /\ ~isKept
    <2>1. o = Loose(v) /\ v.qvWm \in Window
      BY <1>3, <1>4, <1>7 DEF SwitcherState
    <2>2. o \in SwitcherState /\ o.qvWm = v.qvWm /\ o.intact = FALSE
      BY <1>3, <2>1, ZenonT(60) DEF Loose, SwitcherState
    <2>3. InStep(o, st)
      BY <2>2 DEF InStep
    <2> QED
      BY <2>1, <2>2, <2>3 DEF Ready, o, n
  <1>8. CASE v.qvWm = NULL
    <2> DEFINE g == GetFirstFocus(v, st)
               p == IF st.focusQvwm = Root THEN 0 ELSE IF v.forward THEN 1 ELSE n - 1
    <2>1. o = [g EXCEPT !.focusWin = p]
      BY <1>4, <1>8
    <2>2. /\ g \in SwitcherState /\ g.qvWm \in Window /\ SameItems(v, g)
          /\ p \in Nat /\ p < n
          /\ IsTransient(st.focusQvwm)
             \/ (g.qvWm = TaskList(st)[p + 1] /\ Standing(g) = g.qvWm
                  /\ (g.look <=> p < Len(st.mapList)))
      BY <1>3, FirstFocusInStep DEF n
    <2> HIDE DEF g, p
    <2>3. /\ o \in SwitcherState /\ o.focusWin = p /\ o.qvWm = g.qvWm /\ o.look = g.look
          /\ o.atMap = g.atMap /\ o.atUnmap = g.atUnmap /\ o.winNum = n /\ o.named = NULL
      BY <1>3, <2>1, <2>2 DEF SwitcherState, SameItems
    <2>4. Standing(o) = Standing(g)
      BY <2>3 DEF Standing
    <2>5. IsTransient(st.focusQvwm) \/ Names(o, st)
      BY <2>2, <2>3, <2>4 DEF Names
    <2>6. InStep(o, st)
      BY <1>2, <2>2, <2>3, <2>5 DEF InStep
    <2>7. Ready(o, st)
      BY <2>2, <2>3, <2>6 DEF Ready
    <2> QED
      BY <2>7 DEF o, n
  <1> QED
    BY <1>6, <1>7, <1>8 DEF o, n

\* SwitchTask opens the list, or goes to the only task there is.
LEMMA SwitchReady ==
    ASSUME NEW st, InOrder(st), NEW u \in SwitcherState, ~u.open,
           NEW isKept, KeptIfFound(u, st, isKept)
    PROVE  LET r == Switch(u, st, isKept) IN InOrder(r.s) /\ Ready(r.sw, r.s)
  <1> DEFINE num == Len(TaskList(st))
             lone == IF st.mapList # <<>> THEN GetHead(st.mapList) ELSE GetHead(st.unmapList)
             r == Switch(u, st, isKept)
  <1>1. r = IF num = 0 THEN [sw |-> [u EXCEPT !.winNum = 0], s |-> st]
            ELSE IF num = 1 THEN [sw |-> [u EXCEPT !.winNum = 1, !.qvWm = lone],
                                  s |-> SwitchTo(st, lone)]
            ELSE [sw |-> OpenList(u, st, num, isKept), s |-> st]
    BY Zenon DEF Switch
  <1>2. /\ st.mapList \in Seq(Window) /\ st.unmapList \in Seq(Window)
    BY DEF InOrder, Settled, Typed
  <1>3. /\ num = Len(st.mapList) + Len(st.unmapList) /\ num \in Nat
        /\ Len(st.mapList) \in Nat /\ Len(st.unmapList) \in Nat
    BY <1>2, TaskListProperties, LenProperties
  <1>7. num \in Nat
    BY <1>3
  <1>8. u.open = FALSE
    BY DEF SwitcherState
  <1> SUFFICES InOrder(r.s) /\ Ready(r.sw, r.s)
    BY Zenon DEF r
  <1> HIDE DEF r, num
  <1>4. CASE num = 0
    <2>1. r.s = st /\ r.sw = [u EXCEPT !.winNum = 0]
      BY <1>1, <1>4
    <2>2. r.sw \in SwitcherState /\ r.sw.open = FALSE
      BY <1>8, <2>1 DEF SwitcherState
    <2> QED
      BY <2>1, <2>2 DEF Ready, InStep
  <1>5. CASE num = 1
    <2>1. r.s = SwitchTo(st, lone) /\ r.sw = [u EXCEPT !.winNum = 1, !.qvWm = lone]
      BY <1>1, <1>5
    <2>2. lone \in Window
      <3>1. CASE st.mapList # <<>>
        BY <1>2, <3>1, FoundAtHead DEF GetHead
      <3>2. CASE st.mapList = <<>>
        <4>1. Len(st.mapList) = 0
          BY <3>2, EmptySeq
        <4>2. Len(st.unmapList) # 0
          BY <1>3, <1>5, <4>1, SMTT(30)
        <4>3. st.unmapList # <<>>
          BY <4>2, EmptySeq
        <4> QED
          BY <1>2, <3>2, <4>3, FoundAtHead DEF GetHead
      <3> QED
        BY <3>1, <3>2
    <2> HIDE DEF lone
    <2>3. r.sw \in SwitcherState /\ r.sw.open = FALSE
      <3>1. [u EXCEPT !.winNum = 1, !.qvWm = lone] \in SwitcherState
        BY <2>2 DEF SwitcherState
      <3>2. [u EXCEPT !.winNum = 1, !.qvWm = lone].open = FALSE
        BY <1>8 DEF SwitcherState
      <3> QED
        BY <2>1, <3>1, <3>2
    <2>4. InOrder(r.s)
      BY <2>1, <2>2, SwitchToInOrder
    <2> QED
      BY <2>3, <2>4 DEF Ready, InStep
  <1>6. CASE num # 0 /\ num # 1
    <2>1. r.s = st /\ r.sw = OpenList(u, st, num, isKept)
      BY <1>1, <1>6
    <2>2. num > 1
      BY <1>6, <1>7
    <2> QED
      <3>1. Ready(OpenList(u, st, Len(TaskList(st)), isKept), st)
        BY <2>2, OpenListReady DEF num
      <3> QED
        BY <2>1, <3>1 DEF num
  <1> QED
    BY <1>4, <1>5, <1>6

\* RestartSwitcher: the task shown is found again on mapList, or the list starts anew.
LEMMA RestartReady ==
    ASSUME NEW st, InOrder(st), NEW t \in SwitcherState
    PROVE  LET r == Restart(t, st) IN InOrder(r.s) /\ Ready(r.sw, r.s)
  <1> DEFINE c == [Closed(t) EXCEPT !.atMap = NULL, !.atUnmap = NULL]
             i == FirstIndex(st.mapList, t.qvWm)
             u == [c EXCEPT !.atMap = t.qvWm, !.focusWin = i - 1]
             v == [c EXCEPT !.atMap = HeadOf(st.mapList), !.qvWm = NULL]
  <1>1. Restart(t, st) = IF Found(t, st) THEN Switch(u, st, TRUE) ELSE Switch(v, st, FALSE)
    BY Zenon DEF Restart, u, v, c, i
  <1>2. st.mapList \in Seq(Window) /\ NULL \notin Window /\ Len(st.mapList) \in Nat
    BY RootIsApart, LenProperties DEF InOrder, Settled, Typed
  <1>3. /\ c \in SwitcherState /\ ~c.open /\ c.qvWm = t.qvWm /\ c.atUnmap = NULL
    BY DEF Closed, SwitcherState
  <1> HIDE DEF c
  <1>4. CASE Found(t, st)
    <2>1. i \in 1..Len(st.mapList) /\ st.mapList[i] = t.qvWm
      BY <1>2, <1>4, FirstIndexProperties DEF Found
    <2>2. st.mapList[i] \in Window
      BY <1>2, <2>1, ElementOfSeq
    <2> HIDE DEF i
    <2>3. i - 1 \in Nat /\ i - 1 < Len(st.mapList) /\ i - 1 + 1 = i
      BY <1>2, <2>1
    <2>4. /\ u \in SwitcherState /\ ~u.open /\ u.qvWm = t.qvWm /\ u.atUnmap = NULL
          /\ u.atMap = t.qvWm /\ u.focusWin = i - 1
      BY <1>3, <2>1, <2>2, <2>3 DEF SwitcherState
    <2> HIDE DEF u
    <2>5. FoundAgain(u, st)
      BY <2>1, <2>2, <2>3, <2>4 DEF FoundAgain
    <2> QED
      <3>1. KeptIfFound(u, st, TRUE)
        BY <2>5 DEF KeptIfFound
      <3>2. InOrder(Switch(u, st, TRUE).s) /\ Ready(Switch(u, st, TRUE).sw, Switch(u, st, TRUE).s)
        BY <2>4, <3>1, SwitchReady, Zenon
      <3> QED
        BY <1>1, <1>4, <3>2, Zenon
  <1>5. CASE ~Found(t, st)
    <2>1. HeadOf(st.mapList) \in Window \cup {NULL}
      BY <1>2, FoundAtHead DEF HeadOf, GetHead
    <2>2. v \in SwitcherState /\ ~v.open
      BY <1>3, <2>1 DEF SwitcherState
    <2> HIDE DEF v
    <2> QED
      <3>1. KeptIfFound(v, st, FALSE)
        BY DEF KeptIfFound
      <3>2. InOrder(Switch(v, st, FALSE).s) /\ Ready(Switch(v, st, FALSE).sw, Switch(v, st, FALSE).s)
        BY <2>2, <3>1, SwitchReady, Zenon
      <3> QED
        BY <1>1, <1>5, <3>2, Zenon
  <1> QED
    BY <1>4, <1>5
-----------------------------------------------------------------------------
(* The actions *)

\* Between two events the stack of the focus is in order, and the switcher in step
\* with it.
Steady == InOrder(s) /\ Ready(sw, s)

\* What Defined says of the lists.
LEMMA DefinedProperties ==
    ASSUME Defined, Settled(s, Root)
    PROVE  /\ Managing(s)
           /\ \A w \in Window \ s.qvwmList : s.focusQvwm # w
           /\ \A i \in 1..Len(s.mapList) : AtMostOnce(s.mapList, s.mapList[i])
           /\ \A i \in 1..Len(s.unmapList) : AtMostOnce(s.unmapList, s.unmapList[i])
  <1> DEFINE m == s.mapList
             r == s.unmapList
             q == TaskList(s)
  <1>1. m \in Seq(Window) /\ r \in Seq(Window)
    BY DEF Settled, Typed
  <1>2. /\ q \in Seq(Window) /\ Len(q) = Len(m) + Len(r) /\ Len(m) \in Nat /\ Len(r) \in Nat
        /\ \A i \in 1..Len(m) : m[i] = q[i]
        /\ \A i \in 1..Len(r) : r[i] = q[Len(m) + i]
    BY <1>1, TaskListProperties
  <1>3. DOMAIN q = 1..Len(q) /\ DOMAIN m = 1..Len(m) /\ DOMAIN r = 1..Len(r)
    BY <1>1, <1>2, LenProperties
  <1>4. \A a, b \in Nat : \A i \in 1..a : i \in 1..(a + b)
    OBVIOUS
  <1>5. \A a, b \in Nat : \A i \in 1..b : a + i \in 1..(a + b)
    OBVIOUS
  <1>6. \A a, b \in Nat : \A i, j \in 1..b : a + i = a + j => i = j
    OBVIOUS
  <1>7. /\ \A i \in DOMAIN q : q[i] \in s.qvwmList
        /\ \A w \in s.qvwmList : AtMostOnce(q, w)
        /\ s.focusQvwm \in s.qvwmList \cup {Root}
    BY DEF Defined
  <1> HIDE DEF m, r, q
  <1>8. \A i \in 1..Len(m) : i \in DOMAIN q
    BY <1>2, <1>3, <1>4, Zenon
  <1>9. \A i \in 1..Len(r) : Len(m) + i \in DOMAIN q
    BY <1>2, <1>3, <1>5, Zenon
  <1>10. \A i \in DOMAIN m : m[i] \in s.qvwmList
    BY <1>2, <1>3, <1>7, <1>8, Zenon
  <1>11. ASSUME NEW i \in 1..Len(m) PROVE AtMostOnce(m, m[i])
    <2>1. AtMostOnce(q, m[i])
      BY <1>3, <1>7, <1>10
    <2>2. ASSUME NEW j \in DOMAIN m, NEW k \in DOMAIN m, m[j] = m[i], m[k] = m[i]
          PROVE  j = k
      <3>1. q[j] = m[i] /\ q[k] = m[i] /\ j \in DOMAIN q /\ k \in DOMAIN q
        BY <1>2, <1>3, <1>8, <2>2, Zenon
      <3> QED
        BY <2>1, <3>1, Zenon DEF AtMostOnce
    <2> QED
      BY <2>2 DEF AtMostOnce
  <1>12. ASSUME NEW i \in 1..Len(r) PROVE AtMostOnce(r, r[i])
    <2>1. AtMostOnce(q, r[i])
      BY <1>2, <1>7, <1>9, Zenon
    <2>2. ASSUME NEW j \in DOMAIN r, NEW k \in DOMAIN r, r[j] = r[i], r[k] = r[i]
          PROVE  j = k
      <3>1. /\ q[Len(m) + j] = r[i] /\ q[Len(m) + k] = r[i]
            /\ Len(m) + j \in DOMAIN q /\ Len(m) + k \in DOMAIN q
        BY <1>2, <1>3, <1>9, <2>2, Zenon
      <3>2. Len(m) + j = Len(m) + k
        BY <2>1, <3>1, Zenon DEF AtMostOnce
      <3> QED
        BY <1>2, <1>3, <1>6, <3>2, Zenon
    <2> QED
      BY <2>2 DEF AtMostOnce
  <1>13. Managing(s)
    BY <1>10 DEF Managing, m
  <1>14. \A w \in Window \ s.qvwmList : s.focusQvwm # w
    BY <1>7, RootIsApart
  <1> QED
    BY <1>11, <1>12, <1>13, <1>14 DEF m, r

\* A handler leaves the switcher alone, or no longer in step when a list has changed.
LEMMA HandleSteady ==
    ASSUME Steady, NEW t, InOrder(t), NEW w, Handle(t, w)
    PROVE  Steady'
  <1>1. s' = [t EXCEPT !.frames = {}] /\ sw' = Disturbed(t, w)
    BY DEF Handle
  <1>2. Alike(t, s')
    BY <1>1, StackAssigned DEF InOrder, Settled
  <1>3. InOrder(s')
    BY <1>2, AlikeInOrder
  <1>4. Ready(sw, s)
    BY DEF Steady
  <1>5. CASE sw.qvWm = NULL
    <2>1. sw' = sw /\ ~sw.open
      BY <1>1, <1>4, <1>5, RootIsApart DEF Disturbed, Ready
    <2>2. Ready(sw, s')
      BY <1>4, <2>1 DEF Ready, InStep
    <2> QED
      BY <1>3, <2>1, <2>2 DEF Steady
  <1>6. CASE sw.qvWm # NULL /\ Relinked(t, w) = {}
    <2>1. sw' = sw /\ t.mapList = s.mapList /\ t.unmapList = s.unmapList /\ t.focusQvwm = s.focusQvwm
      BY <1>1, <1>6 DEF Disturbed, Relinked
    <2>2. TaskList(s') = TaskList(s) /\ s'.mapList = s.mapList /\ s'.focusQvwm = s.focusQvwm
      BY <1>2, <2>1 DEF Alike, TaskList
    <2>3. InStep(sw, s')
      BY <1>4, <2>2 DEF Ready, InStep, Names
    <2>4. Ready(sw, s')
      BY <1>4, <2>3 DEF Ready
    <2> QED
      BY <1>3, <2>1, <2>4 DEF Steady
  <1>7. CASE sw.qvWm # NULL /\ Relinked(t, w) # {}
    <2>1. sw' = Loose(sw) /\ sw \in SwitcherState /\ (sw.open => sw.qvWm \in Window)
      BY <1>1, <1>4, <1>7 DEF Disturbed, Ready
    <2>2. /\ Loose(sw) \in SwitcherState /\ Loose(sw).intact = FALSE
          /\ Loose(sw).open = sw.open /\ Loose(sw).qvWm = sw.qvWm
      BY <2>1 DEF Loose, SwitcherState
    <2>3. Ready(Loose(sw), s')
      BY <2>1, <2>2 DEF Ready, InStep
    <2> QED
      BY <1>3, <2>1, <2>3 DEF Steady
  <1> QED
    BY <1>5, <1>6, <1>7

\* Being in step depends on the lists and the focus only.
LEMMA ReadyAlike ==
    ASSUME NEW t, NEW u, NEW x, Alike(t, u), Ready(x, t)
    PROVE  Ready(x, u)
  <1>1. TaskList(u) = TaskList(t) /\ u.mapList = t.mapList /\ u.focusQvwm = t.focusQvwm
    BY DEF Alike, TaskList
  <1>2. InStep(x, u)
    BY <1>1 DEF Ready, InStep, Names
  <1> QED
    BY <1>2 DEF Ready

\* The state that an action takes from r is as good.
LEMMA LeftSteady ==
    ASSUME NEW t, NEW x, InOrder(t), Ready(x, t), s' = [t EXCEPT !.frames = {}], sw' = x
    PROVE  Steady'
  <1>1. Alike(t, s')
    BY StackAssigned DEF InOrder, Settled
  <1>2. InOrder(s') /\ Ready(x, s')
    BY <1>1, AlikeInOrder, ReadyAlike
  <1> QED
    BY <1>2 DEF Steady

\* CreateNotify and DestroyNotifyProc in the loop of the switcher.
LEMMA RestartIfStaleSteady ==
    ASSUME Steady, NEW t, InOrder(t), NEW w, RestartIfStale(t, w)
    PROVE  Steady'
  <1>1. CASE sw.open /\ Len(TaskList(s)) # sw.winNum
    <2>1. s' = [Restart(sw, t).s EXCEPT !.frames = {}] /\ sw' = Restart(sw, t).sw
      BY <1>1 DEF RestartIfStale
    <2>2. sw \in SwitcherState
      BY DEF Steady, Ready
    <2>3. InOrder(Restart(sw, t).s) /\ Ready(Restart(sw, t).sw, Restart(sw, t).s)
      BY <2>2, RestartReady
    <2> QED
      BY <2>1, <2>3, LeftSteady
  <1>2. CASE ~(sw.open /\ Len(TaskList(s)) # sw.winNum)
    <2>1. Handle(t, w)
      BY <1>2 DEF RestartIfStale
    <2> QED
      BY <2>1, HandleSteady
  <1> QED
    BY <1>1, <1>2

\* The handlers of other windows' events.
LEMMA WindowStepSteady ==
    ASSUME ClickToFocus, Steady, WindowStep
    PROVE  Steady'
  <1>1. InOrder(s) /\ Settled(s, Root) /\ Typed(s)
    BY DEF Steady, InOrder, Settled
  <1>2. Defined => Managing(s) /\ \A w \in Window \ s.qvwmList : s.focusQvwm # w
    BY <1>1, DefinedProperties
  <1>3. ASSUME NEW w \in Window, MapRequestProc(w)
        PROVE  Steady'
    <2>1. /\ w \notin s.qvwmList /\ Handle(SetFocus(MapRaised(New(s, w), w), w), w) /\ Defined
      BY <1>3 DEF MapRequestProc, Handle
    <2>2. InOrder(SetFocus(MapRaised(New(s, w), w), w))
      BY <1>1, <1>2, <2>1, MapRequestInOrder
    <2> QED
      BY <2>1, <2>2, HandleSteady
  <1>4. ASSUME NEW w \in Window, UnmapNotifyProc(w)
        PROVE  Steady'
    <2>1. PICK pointer \in Pointer : Handle(Destroy(s, w, pointer), w)
      BY <1>4 DEF UnmapNotifyProc
    <2>2. InOrder(Destroy(s, w, pointer))
      BY <1>1, <1>2, <2>1, DestroyInOrder DEF Handle
    <2> QED
      BY <2>1, <2>2, HandleSteady
  <1>5. ASSUME NEW w \in Window, ClientDestroy(w)
        PROVE  Steady'
    BY <1>5 DEF ClientDestroy, Steady
  <1>6. ASSUME NEW w \in Window, DestroyNotifyProc(w)
        PROVE  Steady'
    <2>1. RestartIfStale(IF w \in s.qvwmList THEN Destroy(s, w, Root) ELSE s, w) /\ Defined
      BY <1>6 DEF DestroyNotifyProc, RestartIfStale
    <2>2. InOrder(Destroy(s, w, Root))
      BY <1>1, <1>2, <2>1, DestroyInOrder
    <2>3. InOrder(IF w \in s.qvwmList THEN Destroy(s, w, Root) ELSE s)
      BY <1>1, <2>2
    <2> QED
      BY <2>1, <2>3, RestartIfStaleSteady
  <1>7. ASSUME NEW w \in Window, Button1Press(w) PROVE Steady'
    <2>1. Handle(RaiseWindow(SetFocus(s, w), w, TRUE), w)
      BY <1>7 DEF Button1Press, Act
    <2>2. InOrder(RaiseWindow(SetFocus(s, w), w, TRUE))
      BY <1>1, SetFocusInOrder, RaisedInOrder, RootIsApart
    <2> QED
      BY <2>1, <2>2, HandleSteady
  <1>8. ASSUME NEW w \in Window, Button2Release(w) PROVE Steady'
    <2>1. Handle(LowerWindow(s, w), w)
      BY <1>8 DEF Button2Release, Act
    <2>2. InOrder(LowerWindow(s, w))
      BY <1>1, StackSteps, AlikeInOrder
    <2> QED
      BY <2>1, <2>2, HandleSteady
  <1>9. ASSUME NEW w \in Window, WM_CHANGE_STATE(w) PROVE Steady'
    <2>1. PICK pointer \in Pointer : Handle(Minimize(s, w, pointer), w)
      BY <1>9 DEF WM_CHANGE_STATE, Act
    <2>2. InOrder(Minimize(s, w, pointer))
      BY <1>1, <1>2, <2>1, MinimizeInOrder DEF Handle
    <2> QED
      BY <2>1, <2>2, HandleSteady
  <1>10. ASSUME NEW w \in Window, TaskbarButton(w) PROVE Steady'
    <2>1. Handle(Restore(s, w), w)
      BY <1>10 DEF TaskbarButton, Act
    <2> QED
      BY <1>1, <2>1, RestoreInOrder, HandleSteady
  <1>11. ASSUME NEW w \in Window, Layer(w) PROVE Steady'
    <2>1. PICK layer \in {"WIN_LAYER_BELOW", "WIN_LAYER_NORMAL", "WIN_LAYER_ONTOP"} :
             Handle(ProcessLayerChange(s, w, layer), w)
      BY <1>11 DEF Layer, Act
    <2>2. InOrder(ProcessLayerChange(s, w, layer))
      BY <1>1, LayerChangeSteps, AlikeInOrder
    <2> QED
      BY <2>1, <2>2, HandleSteady
  <1>12. ASSUME NEW w \in Window, SwitchPage(w) PROVE Steady'
    <2>1. Handle(FocusToCursor(s, w), w)
      BY <1>12 DEF SwitchPage, Act
    <2>2. InOrder(FocusToCursor(s, w))
      BY <1>1, FocusToCursorInOrder, RootIsApart
    <2> QED
      BY <2>1, <2>2, HandleSteady
  <1>13. ASSUME NEW w \in Window, ToggleOnTop(w) PROVE Steady'
    <2>1. Handle(IF w \in s.ontop THEN ResetOnTop(s, w) ELSE SetOnTop(s, w), w)
      BY <1>13 DEF ToggleOnTop, Act
    <2>2. InOrder(ResetOnTop(s, w)) /\ InOrder(SetOnTop(s, w))
      BY <1>1, StackSteps, AlikeInOrder
    <2>3. InOrder(IF w \in s.ontop THEN ResetOnTop(s, w) ELSE SetOnTop(s, w))
      BY <2>2
    <2> QED
      BY <2>1, <2>3, HandleSteady
  <1>14. ASSUME NEW w \in Window, RaiseSoonCallout(w) PROVE Steady'
    <2>1. Handle(RaiseSoon(s, w), w)
      BY <1>14 DEF RaiseSoonCallout, Act
    <2>2. InOrder(RaiseSoon(s, w))
      BY <1>1, StackSteps, AlikeInOrder
    <2> QED
      BY <2>1, <2>2, HandleSteady
  <1>15. ASSUME CreateNotify PROVE Steady'
    <2>1. PICK w \in Window : RestartIfStale(s, w)
      BY <1>15 DEF CreateNotify
    <2> QED
      BY <1>1, <2>1, RestartIfStaleSteady
  <1>16. ASSUME DesktopFocus PROVE Steady'
    <2>1. Handle(SetFocus(s, Root), Root)
      BY <1>16 DEF DesktopFocus
    <2>2. InOrder(SetFocus(s, Root))
      BY <1>1, SetFocusInOrder, RootIsApart
    <2> QED
      BY <2>1, <2>2, HandleSteady
  <1>17. CASE \E w \in Window :
              \/ MapRequestProc(w) \/ UnmapNotifyProc(w) \/ ClientDestroy(w) \/ DestroyNotifyProc(w)
              \/ Button1Press(w) \/ Button2Release(w) \/ WM_CHANGE_STATE(w) \/ TaskbarButton(w)
              \/ Layer(w) \/ SwitchPage(w) \/ ToggleOnTop(w) \/ RaiseSoonCallout(w)
    BY <1>3, <1>4, <1>5, <1>6, <1>7, <1>8, <1>9, <1>10, <1>11, <1>12, <1>13, <1>14, <1>17, Zenon
  <1> QED
    BY <1>15, <1>16, <1>17, Zenon DEF WindowStep

\* The count of items around the end of the list.
LEMMA CountAround ==
    ASSUME NEW n \in Nat, NEW p \in Nat, p < n, n > 1
    PROVE  (p + 1) % n = Forth(p, n) /\ (p + (n - 1)) % n = Back(p, n)
  <1>1. \A a \in Nat : a < n => a % n = a /\ (a + n) % n = a
    OBVIOUS
  <1>2. n % n = 0
    OBVIOUS
  <1>3. (p + 1) % n = Forth(p, n)
    <2>1. CASE p + 1 < n
      BY <1>1, <2>1 DEF Forth
    <2>2. CASE ~(p + 1 < n)
      <3>1. p + 1 = n
        BY <2>2
      <3> QED
        BY <1>2, <2>2, <3>1 DEF Forth
    <2> QED
      BY <2>1, <2>2
  <1>4. (p + (n - 1)) % n = Back(p, n)
    <2>1. CASE p > 0
      <3>1. p - 1 \in Nat /\ p - 1 < n /\ p + (n - 1) = (p - 1) + n
        BY <2>1
      <3>2. ((p - 1) + n) % n = p - 1
        BY <1>1, <3>1
      <3> QED
        BY <2>1, <3>1, <3>2 DEF Back
    <2>2. CASE ~(p > 0)
      <3>1. p = 0 /\ p + (n - 1) = n - 1 /\ n - 1 \in Nat /\ n - 1 < n
        BY <2>2
      <3> QED
        BY <1>1, <2>2, <3>1 DEF Back
    <2> QED
      BY <2>1, <2>2
  <1> QED
    BY <1>3, <1>4

\* The key moves the highlight along with the walk.
LEMMA KeyPressSteady ==
    ASSUME Steady, KeyPress
    PROVE  Steady'
  <1>1. InOrder(s) /\ Settled(s, Root) /\ Ready(sw, s) /\ sw \in SwitcherState
    BY DEF Steady, InOrder, Ready
  <1>2. s.mapList \in Seq(Window) /\ s.unmapList \in Seq(Window) /\ s.qvwmList \subseteq Window
    BY <1>1 DEF Settled, Typed
  <1>3. NULL \notin Window
    BY RootIsApart
  <1> DEFINE n == Len(TaskList(s))
             q == TaskList(s)
             v == Walk(sw, s)
             p == sw.focusWin
             k == IF sw.forward THEN Forth(p, n) ELSE Back(p, n)
             on == (p + (IF sw.forward THEN 1 ELSE sw.winNum - 1)) % sw.winNum
  <1>4. CASE sw.intact /\ StandsSomewhere /\ PressTo(v, on)
    <2>1. /\ Defined /\ sw.open
          /\ sw' = [v EXCEPT !.focusWin = on, !.named = IF v.intact THEN v.qvWm ELSE NULL]
          /\ s' = s
      BY <1>4 DEF PressTo
    <2>2. /\ sw.winNum = n /\ n > 1 /\ p < n /\ n \in Nat /\ p \in Nat
          /\ IsTransient(s.focusQvwm) \/ Names(sw, s)
      BY <1>1, <1>4, <2>1 DEF Ready, InStep, SwitcherState
    <2>3. TaskList(s) # <<>>
      <3>1. TaskList(s) = <<>> => n = 0
        BY EmptySeq
      <3> HIDE DEF n
      <3> QED
        BY <2>2, <3>1
    <2>4. v \in SwitcherState /\ v.qvWm \in Window /\ SameItems(sw, v)
      BY <1>1, <1>2, <2>3, WalkFindsTask
    <2> HIDE DEF n
    <2>5. on = k
      <3>1. CASE sw.forward
        BY <2>2, <3>1, CountAround
      <3>2. CASE ~sw.forward
        BY <2>2, <3>2, CountAround
      <3> QED
        BY <3>1, <3>2
    <2>6. Forth(p, n) \in Nat /\ Forth(p, n) < n /\ Back(p, n) \in Nat /\ Back(p, n) < n
      <3> HIDE DEF p
      <3> QED
        BY <2>2 DEF Forth, Back
    <2>7. k \in Nat /\ k < n
      BY <2>6
    <2>8. ASSUME ~IsTransient(s.focusQvwm)
          PROVE  v.qvWm = q[k + 1] /\ (v.look <=> k < Len(s.mapList)) /\ Standing(v) = v.qvWm
      <3>1. /\ q[p + 1] = sw.qvWm /\ Standing(sw) = sw.qvWm
            /\ sw.look <=> p < Len(s.mapList)
        BY <1>4, <2>2, <2>8 DEF Names, StandsSomewhere, Standing
      <3>2. /\ n = Len(s.mapList) + Len(s.unmapList)
            /\ Len(s.mapList) \in Nat /\ Len(s.unmapList) \in Nat
            /\ \A i \in 1..Len(s.mapList) : s.mapList[i] = q[i]
            /\ \A i \in 1..Len(s.unmapList) : s.unmapList[i] = q[Len(s.mapList) + i]
        BY <1>2, TaskListProperties DEF n
      <3> HIDE DEF q
      <3>3. ASSUME sw.look PROVE FirstIndex(s.mapList, Standing(sw)) = p + 1
        <4>1. p + 1 \in 1..Len(s.mapList)
          BY <2>2, <3>1, <3>2, <3>3
        <4>2. s.mapList[p + 1] = Standing(sw)
          BY <3>1, <3>2, <4>1
        <4>3. AtMostOnce(s.mapList, s.mapList[p + 1])
          BY <1>1, <2>1, <4>1, DefinedProperties
        <4> QED
          BY <1>2, <4>1, <4>2, <4>3, FoundAt
      <3>4. ASSUME ~sw.look PROVE FirstIndex(s.unmapList, Standing(sw)) = p + 1 - Len(s.mapList)
        <4> DEFINE i == p + 1 - Len(s.mapList)
        <4>1. i \in 1..Len(s.unmapList) /\ Len(s.mapList) + i = p + 1
          <5>1. ~(p < Len(s.mapList)) /\ p < Len(s.mapList) + Len(s.unmapList)
            BY <2>2, <3>1, <3>2, <3>4
          <5>2. \A a, b, c \in Nat : ~(c < a) /\ c < a + b
                                         => c + 1 - a \in 1..b /\ a + (c + 1 - a) = c + 1
            OBVIOUS
          <5> QED
            BY <2>2, <3>2, <5>1, <5>2, Zenon
        <4> HIDE DEF i
        <4>2. s.unmapList[i] = Standing(sw)
          BY <3>1, <3>2, <4>1
        <4>3. AtMostOnce(s.unmapList, s.unmapList[i])
          BY <1>1, <2>1, <4>1, DefinedProperties
        <4>4. FirstIndex(s.unmapList, Standing(sw)) = i
          BY <1>2, <4>1, <4>2, <4>3, FoundAt
        <4> QED
          BY <4>4 DEF i
      <3>5. FirstIndex(IF sw.look THEN s.mapList ELSE s.unmapList, Standing(sw))
              = IF sw.look THEN p + 1 ELSE p + 1 - Len(s.mapList)
        BY <3>3, <3>4, Zenon
      <3> QED
        BY <1>1, <1>2, <2>2, <3>1, <3>5, WalkKeepsStep DEF n, q
    <2> HIDE DEF v, on, p, q, k
    <2>9. /\ sw' \in SwitcherState /\ sw'.focusWin = k /\ sw'.qvWm = v.qvWm /\ sw'.look = v.look
          /\ sw'.atMap = v.atMap /\ sw'.atUnmap = v.atUnmap /\ sw'.winNum = n
          /\ sw'.named \in {NULL, v.qvWm}
      BY <2>1, <2>2, <2>4, <2>5, <2>7 DEF SwitcherState, SameItems
    <2>10. Standing(sw') = Standing(v)
      BY <2>9 DEF Standing
    <2>11. ~IsTransient(s.focusQvwm) => Names(sw', s)
      BY <2>8, <2>9, <2>10 DEF Names, q
    <2>12. InStep(sw', s)
      BY <2>2, <2>7, <2>9, <2>11 DEF InStep, n
    <2>13. Ready(sw', s)
      BY <2>4, <2>9, <2>12 DEF Ready
    <2> QED
      BY <1>1, <2>1, <2>13 DEF Steady
  <1>5. ASSUME NEW w \in s.qvwmList, PressTo(Loose([sw EXCEPT !.qvWm = w]), 0), sw.open
        PROVE  Steady'
    <2> DEFINE x == Loose([sw EXCEPT !.qvWm = w])
    <2>1. w \in Window
      BY <1>2
    <2>2. sw' = [x EXCEPT !.focusWin = 0, !.named = IF x.intact THEN x.qvWm ELSE NULL] /\ s' = s
      BY <1>5 DEF PressTo
    <2>3. x \in SwitcherState /\ x.intact = FALSE /\ x.qvWm = w
      BY <1>1, <2>1 DEF Loose, SwitcherState
    <2> HIDE DEF x
    <2>4. sw' \in SwitcherState /\ sw'.intact = FALSE /\ sw'.qvWm = w
      BY <2>1, <2>2, <2>3 DEF SwitcherState
    <2>5. Ready(sw', s)
      BY <2>1, <2>4 DEF Ready, InStep
    <2> QED
      BY <1>1, <2>2, <2>5 DEF Steady
  <1> HIDE DEF v, on
  <1> QED
    BY <1>4, <1>5 DEF KeyPress, v, on, p

\* The events of the switcher itself.
LEMMA SwitcherStepSteady ==
    ASSUME Steady, SwitcherStep
    PROVE  Steady'
  <1>1. InOrder(s) /\ Settled(s, Root) /\ Ready(sw, s) /\ sw \in SwitcherState
    BY DEF Steady, InOrder, Ready
  <1>2. s.mapList \in Seq(Window) /\ s.unmapList \in Seq(Window) /\ s.qvwmList \subseteq Window
    BY <1>1 DEF Settled, Typed
  <1>3. NULL \notin Window
    BY RootIsApart
  <1>4. ASSUME NEW forward \in BOOLEAN, SwitchTask(forward) PROVE Steady'
    <2> DEFINE u == [sw EXCEPT !.forward = forward]
               r == Switch(u, s, FALSE)
    <2>1. ~sw.open /\ s' = [r.s EXCEPT !.frames = {}] /\ sw' = r.sw
      BY <1>4 DEF SwitchTask
    <2>2. u \in SwitcherState /\ ~u.open
      BY <1>1, <2>1 DEF SwitcherState
    <2>3. KeptIfFound(u, s, FALSE)
      BY DEF KeptIfFound
    <2>4. InOrder(r.s) /\ Ready(r.sw, r.s)
      BY <1>1, <2>2, <2>3, SwitchReady, Zenon
    <2> HIDE DEF r
    <2> QED
      BY <2>1, <2>4, LeftSteady
  <1>5. ASSUME Expose PROVE Steady'
    <2>1. CASE sw.intact
      <3> DEFINE n == Len(TaskList(s))
                 name == TaskList(s)[sw.focusWin + 1]
      <3>1. sw' = [sw EXCEPT !.named = name] /\ s' = s /\ sw.open
        BY <1>5, <2>1 DEF Expose
      <3>2. /\ sw.winNum = n /\ n > 1 /\ sw.focusWin < n /\ sw.focusWin \in Nat
            /\ IsTransient(s.focusQvwm) \/ Names(sw, s)
        BY <1>1, <2>1, <3>1 DEF Ready, InStep, SwitcherState
      <3>3. TaskList(s) \in Seq(Window) /\ n \in Nat
        BY <1>2, TaskListProperties, LenProperties
      <3>4. sw.focusWin + 1 \in 1..n
        <4> HIDE DEF n
        <4> QED
          BY <3>2, <3>3
      <3>5. name \in Window
        BY <3>3, <3>4, ElementOfSeq
      <3> HIDE DEF name, n
      <3>6. /\ sw' \in SwitcherState /\ sw'.named = name /\ sw'.open = sw.open /\ sw'.qvWm = sw.qvWm
            /\ sw'.focusWin = sw.focusWin /\ sw'.winNum = sw.winNum /\ sw'.look = sw.look
            /\ sw'.atMap = sw.atMap /\ sw'.atUnmap = sw.atUnmap
        BY <1>1, <3>1, <3>5 DEF SwitcherState
      <3>7. Standing(sw') = Standing(sw)
        BY <3>6 DEF Standing
      <3>8. IsTransient(s.focusQvwm) \/ Names(sw', s)
        BY <3>2, <3>6, <3>7 DEF Names, name
      <3>9. InStep(sw', s)
        BY <3>2, <3>6, <3>8 DEF InStep, n
      <3>10. Ready(sw', s)
        BY <1>1, <3>1, <3>6, <3>9 DEF Ready
      <3> QED
        BY <1>1, <3>1, <3>10 DEF Steady
    <2>2. CASE ~sw.intact
      BY <1>5, <2>2 DEF Expose, Steady
    <2> QED
      BY <2>1, <2>2
  <1>6. NoSwitcher \in SwitcherState /\ NoSwitcher.open = FALSE
    BY DEF NoSwitcher, SwitcherState
  <1>7. \A st : Ready(NoSwitcher, st)
    BY <1>6 DEF Ready, InStep
  <1>8. ASSUME Escape PROVE Steady'
    BY <1>1, <1>7, <1>8 DEF Escape, Steady
  <1>9. ASSUME SwitchToAndUnmap PROVE Steady'
    <2> DEFINE t == IF CheckMapped(s, sw.qvWm) THEN SwitchTo(s, sw.qvWm) ELSE Restore(s, sw.qvWm)
    <2>1. s' = [t EXCEPT !.frames = {}] /\ sw' = NoSwitcher /\ sw.qvWm \in Window
      BY <1>2, <1>9 DEF SwitchToAndUnmap, Managed
    <2>2. InOrder(t)
      BY <1>1, <2>1, SwitchToInOrder, RestoreInOrder
    <2> HIDE DEF t
    <2> QED
      BY <1>7, <2>1, <2>2, LeftSteady
  <1> QED
    BY <1>4, <1>5, <1>8, <1>9, KeyPressSteady DEF SwitcherStep

\* Nothing is managed at the start, and the desktop has the focus.
LEMMA InitSteady ==
    ASSUME Init
    PROVE  Steady
  <1>1. DOMAIN InitState({}) \cup DOMAIN InitStack = Fields
    BY DEF InitState, InitStack, Fields
  <1>2. s = [f \in Fields |-> IF f \in DOMAIN InitStack THEN InitStack[f] ELSE InitState({})[f]]
    BY <1>1 DEF Init
  <1>3. /\ s = [f \in Fields |-> s[f]]
        /\ s.qvwmList = {} /\ s.mapped = [w \in Qvwm |-> w = Root]
        /\ s.status = [w \in Qvwm |-> {}] /\ s.flags = [w \in Qvwm |-> {}]
        /\ s.flagsBak = [w \in Qvwm |-> {}]
        /\ s.mapList = <<>> /\ s.unmapList = <<>> /\ s.focusQvwm = Root
    BY <1>2 DEF InitState, InitStack, Fields
  <1>4. Typed(s)
    <2>1. /\ s.mapped \in [Qvwm -> BOOLEAN] /\ s.status \in [Qvwm -> SUBSET Status]
          /\ s.flags \in [Qvwm -> SUBSET Flag] /\ s.flagsBak \in [Qvwm -> SUBSET Flag]
      <3>1. [w \in Qvwm |-> w = Root] \in [Qvwm -> BOOLEAN]
        OBVIOUS
      <3>2. \A T : [w \in Qvwm |-> {}] \in [Qvwm -> SUBSET T]
        OBVIOUS
      <3> QED
        BY <1>3, <3>1, <3>2
    <2>2. s.mapList \in Seq(Window) /\ s.unmapList \in Seq(Window)
      <3>1. <<>> \in Seq(Window)
        OBVIOUS
      <3> QED
        BY <1>3, <3>1
    <2> QED
      BY <1>3, <2>1, <2>2, RootIsApart DEF Typed
  <1>5. InOrder(s)
    BY <1>3, <1>4, RootIsApart DEF InOrder, Settled, HeadHasFocus, Focusable
  <1>6. sw = NoSwitcher /\ NoSwitcher \in SwitcherState /\ NoSwitcher.open = FALSE
    BY DEF Init, NoSwitcher, SwitcherState
  <1> QED
    BY <1>5, <1>6 DEF Steady, Ready, InStep

\* With ClickToFocus, the item painted as chosen names the task the switcher goes to.
THEOREM LitCorrect ==
    ClickToFocus => (Spec => []LitIsChosen)
  <1> SUFFICES ASSUME ClickToFocus PROVE Spec => []LitIsChosen
    OBVIOUS
  <1>1. Init => Steady
    BY InitSteady
  <1>2. Steady /\ [Next]_vars => Steady'
    <2> SUFFICES ASSUME Steady, [Next]_vars PROVE Steady'
      OBVIOUS
    <2>1. CASE WindowStep
      BY <2>1, WindowStepSteady
    <2>2. CASE SwitcherStep
      BY <2>2, SwitcherStepSteady
    <2>3. CASE UNCHANGED vars
      BY <2>3 DEF vars, Steady
    <2> QED
      BY <2>1, <2>2, <2>3 DEF Next
  <1>3. Steady => LitIsChosen
    BY DEF Steady, Ready, InStep, Names, LitIsChosen, IsTransient
  <1> QED
    BY <1>1, <1>2, <1>3, PTL DEF Spec
=============================================================================
