----------------------------- MODULE FocusProofs -----------------------------
(***************************************************************************)
(* The focus and the two lists of FocusMgr.  Sound says what the lists     *)
(* hold, for any order of the handlers; Top that the focused main window   *)
(* is the head of mapList; and that no window is lost (RestorableCorrect)  *)
(* makes YieldFocus find somebody to yield to.                             *)
(***************************************************************************)
EXTENDS WindowManagerProofs

\* No window refuses the focus.
NoHints == "Q_TOGGLE_FOCUS" \notin Bound /\ \A w \in Window : "NO_FOCUS" \notin InitFlags[w]

\* Nor does one start minimized or maximized each time its client maps it.
Settled == NoHints /\ InitIconic = {} /\ InitMaximize = {}

\* The desktop takes the focus, and without hints so does every window.
Willing(s) ==
    /\ "NO_FOCUS" \notin s.flags[Root]
    /\ NoHints => \A w \in Window : "NO_FOCUS" \notin s.flags[w] \cup s.flagsBak[w]

\* The members beside the lists: new is the window a handler has made and neither
\* mapped nor minimized yet, if any.
Base(s, new) ==
    /\ s \in Tidy
    /\ s.mapped[Root] /\ Willing(s)
    /\ \A w \in Window : s.mapped[w] => w \in s.qvwmList
    /\ s.qvwmList \cap CloseSoon \subseteq new
    /\ s.focusQvwm \in s.qvwmList \cup {Root}

\* mapList holds managed main windows, and an unmapped one at most once.
OnMapList(s, w) ==
    /\ Has(s.mapList, w) => w \in s.qvwmList /\ ~IsTransient(w)
    /\ AtMostTwice(s.mapList, w)
    /\ ~s.mapped[w] => AtMostOnce(s.mapList, w)

\* unmapList holds managed windows, and every unmapped main window.
OnUnmapList(s, w, new) ==
    /\ Has(s.unmapList, w) => w \in s.qvwmList
    /\ AtMostOnce(s.unmapList, w)
    /\ w \in new => ~s.mapped[w] /\ ~Has(s.unmapList, w)
    /\ w \in s.qvwmList /\ ~IsTransient(w) /\ w \notin new =>
         IF s.mapped[w] THEN Has(s.mapList, w) /\ ~Has(s.unmapList, w)
         ELSE Has(s.unmapList, w)

Sound(new) ==
    {s \in State : /\ Base(s, new)
                   /\ \A w \in Window : OnMapList(s, w)
                   /\ Settled => \A w \in Window : OnUnmapList(s, w, new)}

\* With ClickToFocus the focused main window is the head of mapList.
Top(s) ==
    ClickToFocus =>
        \/ s.focusQvwm = Root \/ IsTransient(s.focusQvwm)
        \/ s.mapList # <<>> /\ s.mapList[1] = s.focusQvwm
-----------------------------------------------------------------------------
\* The functions leave a window as often on the lists as these say.

\* Attributes are no concern of the lists.
SameFocus(s, t) ==
    /\ SameLife(s, t)
    /\ t.mapList = s.mapList /\ t.unmapList = s.unmapList /\ t.focusQvwm = s.focusQvwm

\* A change of attributes.
LEMMA AttributesSound ==
    ASSUME NEW new, NEW s \in Sound(new), NEW t, SameFocus(s, t), Willing(t)
    PROVE  t \in Sound(new) /\ (Top(s) => Top(t))
  <1>1. s \in State /\ Base(s, new) /\ t \in State
    BY DEF Sound, SameFocus, SameLife
  <1>2. t \in Tidy
    BY <1>1, TidyBegets DEF Base, Lives, SameFocus
  <1>3. Base(t, new)
    BY <1>1, <1>2 DEF Base, SameFocus, SameLife
  <1>4. \A w \in Window : OnMapList(s, w) => OnMapList(t, w)
    BY DEF OnMapList, SameFocus, SameLife
  <1>5. \A w \in Window : OnUnmapList(s, w, new) => OnUnmapList(t, w, new)
    BY DEF OnUnmapList, SameFocus, SameLife
  <1>6. Top(s) => Top(t)
    BY DEF Top, SameFocus
  <1> QED
    BY <1>1, <1>3, <1>4, <1>5, <1>6 DEF Sound

\* What SetFocus changes.
LEMMA SetFocusEffect ==
    ASSUME NEW s \in State, NEW w \in Qvwm
    PROVE  LET t == SetFocus(s, w)
           IN  /\ SameLife(s, t)
               /\ t.unmapList = s.unmapList /\ t.status = s.status
               /\ t.flags = s.flags /\ t.flagsBak = s.flagsBak
               /\ IF w = s.focusQvwm \/ "NO_FOCUS" \in s.flags[w] THEN t = s
                  ELSE /\ t.focusQvwm = w
                       /\ t.mapList = IF w = Root \/ IsTransient(w) THEN s.mapList
                                      ELSE InsertHead(Remove(s.mapList, w), w)
  <1>1. LET t == SetFocus(s, w)
        IN  /\ t.unmapList = s.unmapList /\ t.status = s.status
            /\ t.flags = s.flags /\ t.flagsBak = s.flagsBak
    BY DEF SetFocus, FocusMgrSetFocus, State
  <1>2. LET t == FocusMgrSetFocus(s, w)
        IN  /\ t.focusQvwm = w
            /\ t.mapList = IF w = Root \/ IsTransient(w) THEN s.mapList
                           ELSE InsertHead(Remove(s.mapList, w), w)
    BY DEF FocusMgrSetFocus, State
  <1> QED
    BY <1>1, <1>2, SetFocusLife DEF SetFocus

\* SetFocus pushes a main window on mapList.
LEMMA SetFocusSound ==
    ASSUME NEW new, NEW s \in Sound(new), NEW w \in s.qvwmList \cup {Root}
    PROVE  LET t == SetFocus(s, w)
           IN  /\ t \in Sound(new)
               /\ Top(s) => Top(t)
               /\ "NO_FOCUS" \notin s.flags[w] => t.focusQvwm = w /\ (w # s.focusQvwm => Top(t))
  <1> DEFINE t == SetFocus(s, w)
             r == InsertHead(Remove(s.mapList, w), w)
  <1>1. s \in State /\ Base(s, new) /\ w \in Qvwm /\ s.mapList \in Seq(Window)
        /\ s.qvwmList \subseteq Window
    BY PointerType DEF Sound, State
  <1>2. /\ SameLife(s, t)
        /\ t.unmapList = s.unmapList /\ t.flags = s.flags /\ t.flagsBak = s.flagsBak
        /\ IF w = s.focusQvwm \/ "NO_FOCUS" \in s.flags[w] THEN t = s
           ELSE /\ t.focusQvwm = w
                /\ t.mapList = IF w = Root \/ IsTransient(w) THEN s.mapList ELSE r
    BY <1>1, SetFocusEffect
  <1>3. w # Root => /\ r # <<>> /\ r[1] = w
                    /\ \A x : /\ Has(r, x) <=> x = w \/ Has(s.mapList, x)
                              /\ AtMostOnce(s.mapList, x) => AtMostOnce(r, x)
                              /\ AtMostTwice(s.mapList, x) => AtMostTwice(r, x)
    <2> HAVE w # Root
    <2>1. w \in Window
      BY <1>1
    <2> QED
      BY ZenonT(60), <1>1, <2>1, RaiseOccurs
  <1> HIDE DEF t, r
  <1>4. t.focusQvwm \in t.qvwmList \cup {Root}
    BY <1>1, <1>2 DEF Base, SameLife
  <1>5. t \in Tidy
    BY <1>1, <1>2, TidyBegets DEF Base, Lives
  <1>6. Base(t, new)
    BY <1>1, <1>2, <1>4, <1>5 DEF Base, Willing, SameLife
  <1>7. t.mapList = s.mapList \/ (w # Root /\ ~IsTransient(w) /\ t.mapList = r)
    BY <1>2
  <1>8. ASSUME NEW x \in Window, OnMapList(s, x) PROVE OnMapList(t, x)
    <2>1. t.qvwmList = s.qvwmList /\ t.mapped = s.mapped
      BY <1>2 DEF SameLife
    <2>2. CASE t.mapList = s.mapList
      BY <1>8, <2>1, <2>2 DEF OnMapList
    <2>3. CASE w # Root /\ ~IsTransient(w) /\ t.mapList = r
      <3>1. /\ Has(r, x) => x = w \/ Has(s.mapList, x)
            /\ AtMostOnce(s.mapList, x) => AtMostOnce(r, x)
            /\ AtMostTwice(s.mapList, x) => AtMostTwice(r, x)
        BY <1>3, <2>3
      <3>2. w \in s.qvwmList /\ ~IsTransient(w)
        BY <2>3
      <3> QED
        BY <1>8, <2>1, <2>3, <3>1, <3>2 DEF OnMapList
    <2> QED
      BY <1>7, <2>2, <2>3
  <1>9. ASSUME NEW x \in Window, OnUnmapList(s, x, new) PROVE OnUnmapList(t, x, new)
    <2>1. t.qvwmList = s.qvwmList /\ t.mapped = s.mapped /\ t.unmapList = s.unmapList
      BY <1>2 DEF SameLife
    <2>2. Has(s.mapList, x) => Has(t.mapList, x)
      BY <1>3, <1>7
    <2> QED
      BY <1>9, <2>1, <2>2 DEF OnUnmapList
  <1>10. t \in Sound(new)
    BY <1>2, <1>6, <1>8, <1>9 DEF Sound, SameLife
  <1>11. /\ Top(s) => Top(t)
         /\ "NO_FOCUS" \notin s.flags[w] => t.focusQvwm = w /\ (w # s.focusQvwm => Top(t))
    BY <1>2, <1>3 DEF Top
  <1> QED
    BY <1>10, <1>11 DEF t

\* A turn of mapList.
LEMMA TurnSound ==
    ASSUME NEW new, NEW s \in Sound(new), NEW q \in Seq(Window),
           \A x : /\ Has(q, x) <=> Has(s.mapList, x)
                  /\ AtMostOnce(s.mapList, x) => AtMostOnce(q, x)
                  /\ AtMostTwice(s.mapList, x) => AtMostTwice(q, x)
    PROVE  [s EXCEPT !.mapList = q] \in Sound(new)
  <1> DEFINE t == [s EXCEPT !.mapList = q]
  <1>1. s \in State /\ Base(s, new)
    BY DEF Sound
  <1>2. SameLife(s, t)
    BY <1>1, PointerType, AssignLife
  <1>3. /\ t.mapList = q /\ t.unmapList = s.unmapList /\ t.focusQvwm = s.focusQvwm
        /\ t.flags = s.flags /\ t.flagsBak = s.flagsBak
    BY <1>1 DEF State
  <1> HIDE DEF t
  <1>4. t \in Tidy
    BY <1>1, <1>2, TidyBegets DEF Base, Lives
  <1>5. Base(t, new)
    BY <1>1, <1>2, <1>3, <1>4 DEF Base, Willing, SameLife
  <1>6. ASSUME NEW x \in Window, OnMapList(s, x) PROVE OnMapList(t, x)
    BY <1>2, <1>3, <1>6 DEF OnMapList, SameLife
  <1>7. ASSUME NEW x \in Window, OnUnmapList(s, x, new) PROVE OnUnmapList(t, x, new)
    BY <1>2, <1>3, <1>7 DEF OnUnmapList, SameLife
  <1>8. t \in Sound(new)
    BY <1>2, <1>5, <1>6, <1>7 DEF Sound, SameLife
  <1> QED
    BY <1>8 DEF t

\* What MapWindows and UnmapWindows change, and how a window reaches transients only.
LEMMA MapWindowsEffect ==
    ASSUME NEW s \in State, NEW w \in Window, NEW b \in BOOLEAN
    PROVE  LET t == MapWindows(s, w, b)
           IN  IF s.mapped[w] THEN t = s
               ELSE /\ t \in State
                    /\ t.qvwmList = s.qvwmList /\ t.focusQvwm = s.focusQvwm
                    /\ t.flags = s.flags /\ t.flagsBak = s.flagsBak /\ t.status = s.status
                    /\ t.mapped = [x \in Qvwm |-> x \in Reached(s, w, b) \/ s.mapped[x]]
                    /\ IF "NO_FOCUS" \in s.flags[w] \/ IsTransient(w)
                       THEN t.unmapList = s.unmapList /\ t.mapList = s.mapList
                       ELSE /\ t.unmapList = Remove(s.unmapList, w)
                            /\ t.mapList = InsertHead(s.mapList, w)
  <1> DEFINE m == MapWindow(s, w, b)
             v == [m EXCEPT !.trMapped[w] = TRUE]
             u == [v EXCEPT !.unmapList = Remove(@, w), !.mapList = InsertHead(@, w)]
             t == MapWindows(s, w, b)
             R == Reached(s, w, b)
  <1>1. m \in State /\ t \in State
    BY PointerType, MapWindowType, MapWindowsType
  <1>2. /\ m.qvwmList = s.qvwmList /\ m.focusQvwm = s.focusQvwm
        /\ m.flags = s.flags /\ m.flagsBak = s.flagsBak /\ m.status = s.status
        /\ m.mapped = [x \in Qvwm |-> x \in R \/ s.mapped[x]]
        /\ m.unmapList = s.unmapList /\ m.mapList = s.mapList
    BY DEF MapWindow, State
  <1>3. t = IF s.mapped[w] THEN s
            ELSE IF "NO_FOCUS" \in s.flags[w] \/ IsTransient(w) THEN v ELSE u
    BY Zenon DEF MapWindows, CheckMapped
  <1> HIDE DEF m, R, t
  <1>4. /\ v.qvwmList = m.qvwmList /\ v.focusQvwm = m.focusQvwm
        /\ v.flags = m.flags /\ v.flagsBak = m.flagsBak /\ v.status = m.status
        /\ v.mapped = m.mapped /\ v.unmapList = m.unmapList /\ v.mapList = m.mapList
    BY <1>1 DEF State
  <1>5. /\ u.qvwmList = m.qvwmList /\ u.focusQvwm = m.focusQvwm
        /\ u.flags = m.flags /\ u.flagsBak = m.flagsBak /\ u.status = m.status
        /\ u.mapped = m.mapped /\ u.unmapList = Remove(m.unmapList, w)
        /\ u.mapList = InsertHead(m.mapList, w)
    BY <1>1 DEF State
  <1> HIDE DEF u, v
  <1>6. ASSUME ~s.mapped[w], t = v \/ t = u
        PROVE  /\ t.qvwmList = s.qvwmList /\ t.focusQvwm = s.focusQvwm
               /\ t.flags = s.flags /\ t.flagsBak = s.flagsBak /\ t.status = s.status
               /\ t.mapped = [x \in Qvwm |-> x \in R \/ s.mapped[x]]
    BY <1>2, <1>4, <1>5, <1>6
  <1>7. ASSUME ~s.mapped[w]
        PROVE  IF "NO_FOCUS" \in s.flags[w] \/ IsTransient(w)
               THEN t.unmapList = s.unmapList /\ t.mapList = s.mapList
               ELSE /\ t.unmapList = Remove(s.unmapList, w)
                    /\ t.mapList = InsertHead(s.mapList, w)
    BY <1>2, <1>3, <1>4, <1>5, <1>7
  <1> QED
    BY <1>1, <1>3, <1>6, <1>7 DEF t, R

\* The other way.
LEMMA UnmapWindowsChanges ==
    ASSUME NEW s \in State, NEW w \in Window, NEW b \in BOOLEAN
    PROVE  LET t == UnmapWindows(s, w, b)
           IN  IF ~s.mapped[w] THEN t = s
               ELSE /\ t \in State
                    /\ t.qvwmList = s.qvwmList /\ t.focusQvwm = s.focusQvwm
                    /\ t.flags = s.flags /\ t.flagsBak = s.flagsBak /\ t.status = s.status
                    /\ t.mapped = [x \in Qvwm |-> x \notin Reached(s, w, b) /\ s.mapped[x]]
                    /\ IF IsTransient(w)
                       THEN t.unmapList = s.unmapList /\ t.mapList = s.mapList
                       ELSE /\ t.unmapList = InsertTail(s.unmapList, w)
                            /\ t.mapList = Remove(s.mapList, w)
  <1> DEFINE m == UnmapWindow(s, w, b)
             v == [m EXCEPT !.trMapped[w] = FALSE]
             u == [v EXCEPT !.mapList = Remove(@, w), !.unmapList = InsertTail(@, w)]
             t == UnmapWindows(s, w, b)
             R == Reached(s, w, b)
  <1>1. m \in State /\ t \in State
    BY PointerType, UnmapWindowType, UnmapWindowsType
  <1>2. /\ m.qvwmList = s.qvwmList /\ m.focusQvwm = s.focusQvwm
        /\ m.flags = s.flags /\ m.flagsBak = s.flagsBak /\ m.status = s.status
        /\ m.mapped = [x \in Qvwm |-> x \notin R /\ s.mapped[x]]
        /\ m.unmapList = s.unmapList /\ m.mapList = s.mapList
    BY DEF UnmapWindow, State
  <1>3. t = IF ~s.mapped[w] THEN s ELSE IF IsTransient(w) THEN v ELSE u
    BY Zenon DEF UnmapWindows, CheckMapped
  <1> HIDE DEF m, R, t
  <1>4. /\ v.qvwmList = m.qvwmList /\ v.focusQvwm = m.focusQvwm
        /\ v.flags = m.flags /\ v.flagsBak = m.flagsBak /\ v.status = m.status
        /\ v.mapped = m.mapped /\ v.unmapList = m.unmapList /\ v.mapList = m.mapList
    BY <1>1 DEF State
  <1>5. /\ u.qvwmList = m.qvwmList /\ u.focusQvwm = m.focusQvwm
        /\ u.flags = m.flags /\ u.flagsBak = m.flagsBak /\ u.status = m.status
        /\ u.mapped = m.mapped /\ u.unmapList = InsertTail(m.unmapList, w)
        /\ u.mapList = Remove(m.mapList, w)
    BY <1>1 DEF State
  <1> HIDE DEF u, v
  <1>6. ASSUME s.mapped[w], t = v \/ t = u
        PROVE  /\ t.qvwmList = s.qvwmList /\ t.focusQvwm = s.focusQvwm
               /\ t.flags = s.flags /\ t.flagsBak = s.flagsBak /\ t.status = s.status
               /\ t.mapped = [x \in Qvwm |-> x \notin R /\ s.mapped[x]]
    BY <1>2, <1>4, <1>5, <1>6
  <1>7. ASSUME s.mapped[w]
        PROVE  IF IsTransient(w)
               THEN t.unmapList = s.unmapList /\ t.mapList = s.mapList
               ELSE /\ t.unmapList = InsertTail(s.unmapList, w)
                    /\ t.mapList = Remove(s.mapList, w)
    BY <1>2, <1>3, <1>4, <1>5, <1>7
  <1> QED
    BY <1>1, <1>3, <1>6, <1>7 DEF t, R

\* MapWindows moves a main window that was unmapped to the head of mapList.
LEMMA MapWindowsSound ==
    ASSUME NEW new, NEW s \in Sound(new), NEW w \in s.qvwmList \ CloseSoon, new \in {{}, {w}},
           NEW b \in BOOLEAN
    PROVE  LET t == MapWindows(s, w, b)
           IN  /\ t \in Sound({}) /\ t.qvwmList = s.qvwmList /\ t.mapped[w]
               /\ t.focusQvwm = s.focusQvwm
               /\ t.flags = s.flags /\ t.flagsBak = s.flagsBak /\ t.status = s.status
               /\ s.mapped[w] => t = s
               /\ ~s.mapped[w] /\ NoHints => IsTransient(w) \/ (t.mapList # <<>> /\ t.mapList[1] = w)
  <1> DEFINE t == MapWindows(s, w, b)
             R == Reached(s, w, b)
             r == InsertHead(s.mapList, w)
             p == Remove(s.unmapList, w)
  <1>1. /\ s \in State /\ Base(s, new) /\ s.qvwmList \subseteq Window /\ w \in Window
        /\ s.mapList \in Seq(Window) /\ s.unmapList \in Seq(Window) /\ w \in Qvwm
        /\ s.mapped \in [Qvwm -> BOOLEAN] /\ Window \subseteq Qvwm /\ Root \in Qvwm
        /\ \A x \in Window : OnMapList(s, x)
        /\ Settled => \A x \in Window : OnUnmapList(s, x, new)
    BY PointerType DEF Sound, State
  <1>2. s.qvwmList \cap CloseSoon = {}
    BY <1>1 DEF Base
  <1>3. CASE s.mapped[w]
    <2>1. t = s
      BY <1>3, Zenon DEF MapWindows, CheckMapped
    <2>2. Settled => new = {}
      BY <1>1, <1>3 DEF OnUnmapList
    <2>3. Base(s, {})
      BY <1>1, <1>2 DEF Base
    <2>4. \A x \in Window : OnUnmapList(s, x, new) /\ new = {} => OnUnmapList(s, x, {})
      OBVIOUS
    <2>5. s \in Sound({})
      BY <1>1, <2>2, <2>3, <2>4 DEF Sound
    <2> QED
      BY <1>3, <2>1, <2>5
  <1>4. CASE ~s.mapped[w]
    <2>1. /\ t \in State
          /\ t.qvwmList = s.qvwmList /\ t.focusQvwm = s.focusQvwm
          /\ t.flags = s.flags /\ t.flagsBak = s.flagsBak /\ t.status = s.status
          /\ t.mapped = [x \in Qvwm |-> x \in R \/ s.mapped[x]]
          /\ IF "NO_FOCUS" \in s.flags[w] \/ IsTransient(w)
             THEN t.unmapList = s.unmapList /\ t.mapList = s.mapList
             ELSE t.unmapList = p /\ t.mapList = r
      BY <1>1, <1>4, MapWindowsEffect
    <2>2. w \in R /\ \A x \in R : x \in s.qvwmList /\ (x = w \/ IsTransient(x))
      BY <1>1, ReachedProperties, ReachedManaged DEF Base
    <2>3. t \in Tidy
      BY <1>1, TidyBegets, MappingLives DEF Base, Tidy
    <2>4. /\ r # <<>> /\ r[1] = w
          /\ \A x : Has(r, x) <=> x = w \/ Has(s.mapList, x)
          /\ \A x : x # w /\ AtMostOnce(s.mapList, x) => AtMostOnce(r, x)
          /\ \A x : x # w /\ AtMostTwice(s.mapList, x) => AtMostTwice(r, x)
          /\ AtMostOnce(s.mapList, w) => AtMostTwice(r, w)
      <3>1. r # <<>> /\ r[1] = w
        BY <1>1, ListTypes DEF InsertHead
      <3> QED
        BY <1>1, <3>1, InsertOccurs
    <2>5. /\ \A x : Has(p, x) => Has(s.unmapList, x)
          /\ \A x : x # w /\ Has(s.unmapList, x) => Has(p, x)
          /\ \A x : AtMostOnce(s.unmapList, x) => AtMostOnce(p, x)
          /\ AtMostOnce(s.unmapList, w) => ~Has(p, w)
      BY <1>1, RemoveOccurs
    <2> HIDE DEF t, R, r, p
    <2>6. /\ t.mapped[w] /\ t.mapped[Root]
          /\ \A x \in Qvwm : s.mapped[x] => t.mapped[x]
          /\ \A x \in Window : t.mapped[x] => x \in s.qvwmList
          /\ \A x \in Window \ {w} : ~IsTransient(x) => t.mapped[x] = s.mapped[x]
      BY <1>1, <2>1, <2>2 DEF Base
    <2>7. Base(t, {})
      BY <1>1, <1>2, <2>1, <2>3, <2>6 DEF Base, Willing
    <2>8. ASSUME NEW x \in Window PROVE OnMapList(t, x)
      <3>1. OnMapList(s, x) /\ OnMapList(s, w) /\ x \in Qvwm
        BY <1>1
      <3>2. CASE t.mapList = s.mapList
        BY <2>1, <2>6, <3>1, <3>2 DEF OnMapList
      <3>3. CASE t.mapList = r /\ ~IsTransient(w) /\ x = w
        BY <1>1, <1>4, <2>1, <2>4, <2>6, <3>1, <3>3 DEF OnMapList
      <3>4. CASE t.mapList = r /\ ~IsTransient(w) /\ x # w
        BY <2>1, <2>4, <2>6, <3>1, <3>4 DEF OnMapList
      <3> QED
        BY <2>1, <3>2, <3>3, <3>4
    <2>9. ASSUME Settled, NEW x \in Window PROVE OnUnmapList(t, x, {})
      <3>1. OnUnmapList(s, x, new) /\ OnUnmapList(s, w, new) /\ "NO_FOCUS" \notin s.flags[w]
        BY <1>1, <2>9 DEF Settled, Base, Willing
      <3>2. CASE IsTransient(w)
        BY <1>1, <2>1, <2>6, <3>1, <3>2 DEF OnUnmapList
      <3>3. CASE ~IsTransient(w) /\ x = w
        BY <1>1, <2>1, <2>4, <2>5, <2>6, <3>1, <3>3 DEF OnUnmapList
      <3>4. CASE ~IsTransient(w) /\ x # w
        BY SMTT(40), <1>1, <2>1, <2>4, <2>5, <2>6, <3>1, <3>4 DEF OnUnmapList
      <3> QED
        BY <3>2, <3>3, <3>4
    <2>10. t \in Sound({})
      BY <2>1, <2>7, <2>8, <2>9 DEF Sound
    <2>11. NoHints => IsTransient(w) \/ (t.mapList # <<>> /\ t.mapList[1] = w)
      <3>1. NoHints => "NO_FOCUS" \notin s.flags[w]
        BY <1>1 DEF Base, Willing
      <3> QED
        BY <2>1, <2>4, <3>1
    <2> QED
      BY <1>4, <2>1, <2>6, <2>10, <2>11 DEF t
  <1> QED
    BY <1>3, <1>4

\* UnmapWindows moves a main window that was mapped to unmapList.
LEMMA UnmapWindowsSound ==
    ASSUME NEW s \in Sound({}), NEW w \in s.qvwmList, NEW b \in BOOLEAN
    PROVE  LET t == UnmapWindows(s, w, b)
           IN  /\ t \in Sound({}) /\ t.qvwmList = s.qvwmList /\ ~t.mapped[w]
               /\ t.focusQvwm = s.focusQvwm
               /\ t.flags = s.flags /\ t.flagsBak = s.flagsBak /\ t.status = s.status
               /\ Top(s) /\ s.focusQvwm # w => Top(t)
  <1> DEFINE t == UnmapWindows(s, w, b)
             R == Reached(s, w, b)
             r == Remove(s.mapList, w)
             p == InsertTail(s.unmapList, w)
  <1>1. /\ s \in State /\ Base(s, {}) /\ s.qvwmList \subseteq Window /\ w \in Window
        /\ s.mapList \in Seq(Window) /\ s.unmapList \in Seq(Window) /\ w \in Qvwm
        /\ s.mapped \in [Qvwm -> BOOLEAN] /\ Window \subseteq Qvwm /\ Root \in Qvwm
        /\ \A x \in Window : OnMapList(s, x)
        /\ Settled => \A x \in Window : OnUnmapList(s, x, {})
    BY PointerType DEF Sound, State
  <1>2. CASE ~s.mapped[w]
    <2>1. t = s
      BY <1>2, Zenon DEF UnmapWindows, CheckMapped
    <2> QED
      BY <1>2, <2>1
  <1>3. CASE s.mapped[w]
    <2>1. /\ t \in State
          /\ t.qvwmList = s.qvwmList /\ t.focusQvwm = s.focusQvwm
          /\ t.flags = s.flags /\ t.flagsBak = s.flagsBak /\ t.status = s.status
          /\ t.mapped = [x \in Qvwm |-> x \notin R /\ s.mapped[x]]
          /\ IF IsTransient(w) THEN t.unmapList = s.unmapList /\ t.mapList = s.mapList
             ELSE t.unmapList = p /\ t.mapList = r
      BY <1>1, <1>3, UnmapWindowsChanges
    <2>2. w \in R /\ \A x \in R : x \in Window /\ (x = w \/ IsTransient(x))
      BY <1>1, ReachedProperties, ReachedManaged DEF Base
    <2>3. t \in Tidy
      BY <1>1, TidyBegets, MappingLives DEF Base, Tidy
    <2>4. /\ \A x : Has(r, x) => Has(s.mapList, x)
          /\ \A x : x # w /\ Has(s.mapList, x) => Has(r, x)
          /\ \A x : AtMostOnce(s.mapList, x) => AtMostOnce(r, x)
          /\ \A x : AtMostTwice(s.mapList, x) => AtMostTwice(r, x)
          /\ AtMostTwice(s.mapList, w) => AtMostOnce(r, w)
          /\ s.mapList # <<>> /\ s.mapList[1] # w => r # <<>> /\ r[1] = s.mapList[1]
      BY <1>1, RemoveOccurs
    <2>5. /\ \A x : Has(p, x) <=> x = w \/ Has(s.unmapList, x)
          /\ \A x : x # w /\ AtMostOnce(s.unmapList, x) => AtMostOnce(p, x)
          /\ ~Has(s.unmapList, w) => AtMostOnce(p, w)
      <3>1. p = InsertHead(s.unmapList, w) \/ p = InsertTail(s.unmapList, w)
        OBVIOUS
      <3>2. s.unmapList \in Seq(Window) /\ w \in Window
        BY <1>1
      <3> HIDE DEF p
      <3>3. /\ \A x : /\ Has(p, x) <=> x = w \/ Has(s.unmapList, x)
                      /\ x # w /\ AtMostOnce(s.unmapList, x) => AtMostOnce(p, x)
                      /\ x # w /\ AtMostTwice(s.unmapList, x) => AtMostTwice(p, x)
            /\ ~Has(s.unmapList, w) => AtMostOnce(p, w)
            /\ AtMostOnce(s.unmapList, w) => AtMostTwice(p, w)
        BY <3>1, <3>2, InsertOccurs
      <3> QED
        BY <3>3
    <2> HIDE DEF t, R, r, p
    <2>6. /\ ~t.mapped[w] /\ t.mapped[Root]
          /\ \A x \in Window : t.mapped[x] => x \in s.qvwmList
          /\ \A x \in Window \ {w} : ~IsTransient(x) => t.mapped[x] = s.mapped[x]
      <3>1. ~t.mapped[w]
        BY <1>1, <2>1, <2>2
      <3>2. t.mapped[Root]
        BY <1>1, <2>1, <2>2, RootIsNoWindow DEF Base
      <3>3. \A x \in Window : t.mapped[x] => x \in s.qvwmList
        BY <1>1, <2>1 DEF Base
      <3>4. \A x \in Window \ {w} : ~IsTransient(x) => t.mapped[x] = s.mapped[x]
        BY <1>1, <2>1, <2>2
      <3> QED
        BY <3>1, <3>2, <3>3, <3>4
    <2>7. Base(t, {})
      BY <1>1, <2>1, <2>3, <2>6 DEF Base, Willing
    <2>8. ASSUME NEW x \in Window PROVE OnMapList(t, x)
      <3>1. OnMapList(s, x)
        BY <1>1
      <3>2. IsTransient(x) => ~Has(t.mapList, x)
        BY <2>1, <2>4, <3>1 DEF OnMapList
      <3>3. ~Has(t.mapList, x) => AtMostOnce(t.mapList, x)
        BY SeldomIsOften
      <3>4. (Has(t.mapList, x) => Has(s.mapList, x)) /\ AtMostTwice(t.mapList, x)
        BY <2>1, <2>4, <3>1 DEF OnMapList
      <3>5. CASE IsTransient(x)
        BY <2>1, <3>1, <3>2, <3>3, <3>4, <3>5 DEF OnMapList
      <3>6. CASE ~IsTransient(x) /\ x = w
        BY <2>1, <2>4, <3>1, <3>4, <3>6 DEF OnMapList
      <3>7. CASE ~IsTransient(x) /\ x # w
        <4>1. t.mapped[x] = s.mapped[x]
          BY <2>6, <3>7
        <4>2. AtMostOnce(s.mapList, x) => AtMostOnce(t.mapList, x)
          BY <2>1, <2>4
        <4> QED
          BY <2>1, <3>1, <3>4, <4>1, <4>2 DEF OnMapList
      <3> QED
        BY <3>5, <3>6, <3>7
    <2>9. ASSUME Settled, NEW x \in Window PROVE OnUnmapList(t, x, {})
      <3>1. OnUnmapList(s, x, {}) /\ OnUnmapList(s, w, {})
        BY <1>1, <2>9
      <3>2. CASE IsTransient(w)
        BY <2>1, <2>6, <3>1, <3>2 DEF OnUnmapList
      <3>3. CASE ~IsTransient(w) /\ x = w
        BY <1>3, <2>1, <2>5, <2>6, <3>1, <3>3 DEF OnUnmapList
      <3>4. CASE ~IsTransient(w) /\ x # w
        BY <2>1, <2>4, <2>5, <2>6, <3>1, <3>4 DEF OnUnmapList
      <3> QED
        BY <3>2, <3>3, <3>4
    <2>10. t \in Sound({})
      BY <2>1, <2>7, <2>8, <2>9 DEF Sound
    <2>11. Top(s) /\ s.focusQvwm # w => Top(t)
      BY <2>1, <2>4 DEF Top
    <2> QED
      BY <2>1, <2>6, <2>10, <2>11 DEF t
  <1> QED
    BY <1>2, <1>3
-----------------------------------------------------------------------------
\* The functions of special resizing.

\* No window is minimized in t that is not in s.
Fewer(s, t) == \A x \in Window : Minimized(t, x) => Minimized(s, x)

\* Assignments to the attributes of one window.
LEMMA AssignFocus ==
    ASSUME NEW s \in State, NEW w \in Qvwm
    PROVE  /\ \A v \in SUBSET Status : SameFocus(s, [s EXCEPT !.status[w] = v])
           /\ \A f \in SUBSET Flag : SameFocus(s, [s EXCEPT !.flags[w] = f])
           /\ \A v \in SUBSET Status, f \in SUBSET Flag :
                /\ SameFocus(s, [s EXCEPT !.status[w] = v, !.flags[w] = f])
                /\ SameFocus(s, [s EXCEPT !.status[w] = v, !.flagsBak[w] = f])
           /\ SameFocus(s, [s EXCEPT !.frames = {}])
           /\ \A b \in BOOLEAN : SameFocus(s, [s EXCEPT !.trMapped[w] = b])
  <1> DEFINE Same(t) == /\ t.mapList = s.mapList /\ t.unmapList = s.unmapList
                        /\ t.focusQvwm = s.focusQvwm
  <1>1. /\ \A v : Same([s EXCEPT !.status[w] = v]) /\ Same([s EXCEPT !.flags[w] = v])
        /\ \A v, f : /\ Same([s EXCEPT !.status[w] = v, !.flags[w] = f])
                     /\ Same([s EXCEPT !.status[w] = v, !.flagsBak[w] = f])
        /\ Same([s EXCEPT !.frames = {}])
        /\ \A b : Same([s EXCEPT !.trMapped[w] = b])
    BY DEF State
  <1>2. \A t : SameLife(s, t) /\ Same(t) => SameFocus(s, t)
    BY DEF SameFocus
  <1> HIDE DEF Same
  <1> QED
    BY <1>1, <1>2, AssignLife

\* A window mapped and given the focus.
LEMMA ShowSound ==
    ASSUME NEW new, NEW s \in Sound(new), NEW w \in s.qvwmList \ CloseSoon, new \in {{}, {w}},
           NEW b \in BOOLEAN, ClickToFocus => NoHints
    PROVE  LET t == SetFocus(MapWindows(s, w, b), w)
           IN  /\ t \in Sound({}) /\ t.status = s.status
               /\ Top(s) \/ ~s.mapped[w] => Top(t)
               /\ NoHints => t.focusQvwm = w /\ (s.focusQvwm # w => Top(t))
  <1> DEFINE m == MapWindows(s, w, b)
             t == SetFocus(m, w)
  <1>1. /\ m \in Sound({}) /\ m.qvwmList = s.qvwmList /\ m.mapped[w]
        /\ m.focusQvwm = s.focusQvwm
        /\ m.flags = s.flags /\ m.flagsBak = s.flagsBak /\ m.status = s.status
        /\ s.mapped[w] => m = s
        /\ ~s.mapped[w] /\ NoHints => IsTransient(w) \/ (m.mapList # <<>> /\ m.mapList[1] = w)
    BY MapWindowsSound
  <1>2. m \in State /\ w \in Window /\ w \in Qvwm /\ Base(m, {})
    BY <1>1, PointerType DEF Sound, State
  <1> HIDE DEF m
  <1>3. /\ t \in Sound({})
        /\ Top(m) => Top(t)
        /\ "NO_FOCUS" \notin m.flags[w] => t.focusQvwm = w /\ (w # m.focusQvwm => Top(t))
    BY <1>1, SetFocusSound
  <1>4. /\ t.status = m.status
        /\ w = m.focusQvwm => t = m
    BY <1>2, SetFocusEffect
  <1>5. NoHints => "NO_FOCUS" \notin m.flags[w]
    BY <1>2 DEF Base, Willing
  <1> HIDE DEF t
  <1>6. ASSUME ~s.mapped[w] PROVE Top(t)
    <2>1. CASE ~ClickToFocus
      BY <2>1 DEF Top
    <2>2. CASE ClickToFocus
      BY <1>1, <1>3, <1>4, <1>5, <1>6, <2>2 DEF Top
    <2> QED
      BY <2>1, <2>2
  <1>7. ASSUME s.mapped[w], Top(s) PROVE Top(t)
    BY <1>1, <1>3, <1>7
  <1> QED
    BY <1>1, <1>3, <1>4, <1>5, <1>6, <1>7 DEF t, m

\* RestoreWindow: what was minimized or maximized gets the focus.
LEMMA RestoreSound ==
    ASSUME NEW s \in Sound({}), NEW w \in s.qvwmList \cup {Root}, NEW b \in BOOLEAN,
           ClickToFocus => NoHints
    PROVE  LET r == RestoreWindow(s, w, b)
           IN  /\ r \in Sound({}) /\ (Top(s) => Top(r))
               /\ Fewer(s, r) /\ (w \in Window => ~Minimized(r, w))
               /\ NoHints /\ w \in Window /\ s.status[w] # {} =>
                    r.focusQvwm = w /\ (s.focusQvwm # w => Top(r))
  <1> DEFINE t1 == [s EXCEPT !.status[w] = {"MAXIMIZE_WINDOW"}]
             t2 == [s EXCEPT !.status[w] = {}, !.flags[w] = s.flagsBak[w]]
             r == RestoreWindow(s, w, b)
  <1>1. s \in State /\ s.qvwmList \subseteq Window /\ w \in Qvwm /\ Base(s, {})
        /\ s.flagsBak[w] \in SUBSET Flag
    BY PointerType DEF Sound, State
  <1>2. CASE w = Root \/ s.status[w] = {}
    <2>1. r = s
      BY <1>2 DEF RestoreWindow
    <2>2. w \in Window => s.status[w] = {}
      BY <1>2, RootIsNoWindow
    <2> QED
      BY <2>1, <2>2 DEF Fewer, Minimized
  <1>3. CASE w # Root /\ s.status[w] # {}
    <2>1. w \in Window /\ w \in s.qvwmList \ CloseSoon
      BY <1>1, <1>3 DEF Base
    <2>2. r \in {SetFocus(MapWindows(t1, w, b), w), SetFocus(MapWindows(t2, w, b), w)}
      BY <1>3, Zenon DEF RestoreWindow
    <2>3. SameFocus(s, t1) /\ SameFocus(s, t2)
      BY <1>1, AssignFocus DEF Status
    <2>4. Willing(t1) /\ Willing(t2)
      <3>1. t1.flags = s.flags /\ t1.flagsBak = s.flagsBak /\ t2.flagsBak = s.flagsBak
            /\ t2.flags = [s.flags EXCEPT ![w] = s.flagsBak[w]]
        BY <1>1 DEF State
      <3>2. s.flags \in [Qvwm -> SUBSET Flag] /\ Window \subseteq Qvwm
        BY <1>1, PointerType DEF State
      <3> HIDE DEF t1, t2
      <3> QED
        BY <1>1, <1>3, <2>1, <3>1, <3>2 DEF Base, Willing
    <2>5. /\ t1.status = [s.status EXCEPT ![w] = {"MAXIMIZE_WINDOW"}]
          /\ t2.status = [s.status EXCEPT ![w] = {}]
          /\ s.status \in [Qvwm -> SUBSET Status]
      BY <1>1 DEF State
    <2> HIDE DEF t1, t2
    <2>6. ASSUME NEW t \in {t1, t2}
          PROVE  /\ t \in Sound({}) /\ (Top(s) => Top(t)) /\ t.qvwmList = s.qvwmList
                 /\ t.focusQvwm = s.focusQvwm
                 /\ \A x \in Window : "MINIMIZE_WINDOW" \in t.status[x] =>
                      x # w /\ "MINIMIZE_WINDOW" \in s.status[x]
      <3>1. t \in Sound({}) /\ (Top(s) => Top(t))
        BY <2>3, <2>4, AttributesSound
      <3>2. t.qvwmList = s.qvwmList /\ t.focusQvwm = s.focusQvwm
        BY <2>3 DEF SameFocus, SameLife
      <3>3. \A x \in Window : "MINIMIZE_WINDOW" \in t.status[x] =>
              x # w /\ "MINIMIZE_WINDOW" \in s.status[x]
        BY <1>1, <2>5, PointerType
      <3> QED
        BY <3>1, <3>2, <3>3
    <2>7. ASSUME NEW t \in {t1, t2}, r = SetFocus(MapWindows(t, w, b), w)
          PROVE  /\ r \in Sound({}) /\ (Top(s) => Top(r)) /\ r.status = t.status
                 /\ NoHints => r.focusQvwm = w /\ (s.focusQvwm # w => Top(r))
      <3>1. t \in Sound({}) /\ (Top(s) => Top(t)) /\ w \in t.qvwmList \ CloseSoon
            /\ t.focusQvwm = s.focusQvwm
        BY <2>1, <2>6
      <3> QED
        BY <2>7, <3>1, ShowSound
    <2> HIDE DEF r
    <2>8. PICK t \in {t1, t2} : r = SetFocus(MapWindows(t, w, b), w)
      BY <2>2
    <2>9. /\ r \in Sound({}) /\ (Top(s) => Top(r)) /\ r.status = t.status
          /\ NoHints => r.focusQvwm = w /\ (s.focusQvwm # w => Top(r))
      BY <2>7, <2>8
    <2>10. Fewer(s, r) /\ ~Minimized(r, w)
      BY <2>1, <2>6, <2>9 DEF Fewer, Minimized
    <2> QED
      BY <2>9, <2>10 DEF r
  <1> QED
    BY <1>2, <1>3

\* MaximizeWindow and ExpandWindow.
LEMMA MaximizeSound ==
    ASSUME NEW s \in Sound({}), NEW w \in s.qvwmList \cup {Root}, NEW b \in BOOLEAN,
           ClickToFocus => NoHints
    PROVE  /\ LET r == MaximizeWindow(s, w, b)
              IN  r \in Sound({}) /\ (Top(s) => Top(r)) /\ Fewer(s, r)
           /\ LET r == ExpandWindow(s, w)
              IN  r \in Sound({}) /\ (Top(s) => Top(r)) /\ Fewer(s, r)
  <1> DEFINE f == IF Minimized(s, w) THEN s.flagsBak[w] ELSE s.flags[w]
             t == [s EXCEPT !.status[w] = {"MAXIMIZE_WINDOW"}, !.flagsBak[w] = f]
  <1>1. s \in State /\ s.qvwmList \subseteq Window /\ w \in Qvwm /\ Base(s, {})
        /\ f \in SUBSET Flag
    BY PointerType DEF Sound, State
  <1>2. Fewer(s, s)
    BY DEF Fewer
  <1>3. CASE w = Root
    BY <1>2, <1>3 DEF MaximizeWindow, ExpandWindow
  <1>4. CASE w # Root
    <2>1. w \in Window /\ w \in s.qvwmList \ CloseSoon
      BY <1>1, <1>4 DEF Base
    <2>2. MaximizeWindow(s, w, b) \in {s, SetFocus(MapWindows(t, w, b), w)}
      <3>1. [s EXCEPT !.status[w] = {"MAXIMIZE_WINDOW"},
                      !.flagsBak[w] = IF Minimized(s, w) THEN @ ELSE s.flags[w]] = t
        BY <1>1 DEF State
      <3> QED
        BY <1>4, <3>1, Zenon DEF MaximizeWindow
    <2>3. ExpandWindow(s, w) = SetFocus(MapWindows(s, w, TRUE), w)
      BY <1>4 DEF ExpandWindow
    <2>4. SameFocus(s, t)
      BY <1>1, AssignFocus DEF Status
    <2>5. Willing(t)
      <3>1. t.flags = s.flags /\ t.flagsBak = [s.flagsBak EXCEPT ![w] = f]
        BY <1>1 DEF State
      <3>2. s.flagsBak \in [Qvwm -> SUBSET Flag] /\ Window \subseteq Qvwm
        BY <1>1, PointerType DEF State
      <3>3. f \in {s.flags[w], s.flagsBak[w]}
        OBVIOUS
      <3> HIDE DEF t, f
      <3> QED
        BY <1>1, <2>1, <3>1, <3>2, <3>3 DEF Base, Willing
    <2>6. /\ t.status = [s.status EXCEPT ![w] = {"MAXIMIZE_WINDOW"}]
          /\ s.status \in [Qvwm -> SUBSET Status]
      BY <1>1 DEF State
    <2> HIDE DEF t, f
    <2>7. t \in Sound({}) /\ (Top(s) => Top(t)) /\ t.qvwmList = s.qvwmList
      BY <2>4, <2>5, AttributesSound DEF SameFocus, SameLife
    <2>8. Fewer(s, t)
      BY <1>1, <2>6, PointerType DEF Fewer, Minimized
    <2>9. ASSUME NEW u \in {s, t}, NEW c \in BOOLEAN
          PROVE  LET r == SetFocus(MapWindows(u, w, c), w)
                 IN  r \in Sound({}) /\ (Top(s) => Top(r)) /\ Fewer(s, r)
      <3> DEFINE r == SetFocus(MapWindows(u, w, c), w)
      <3>1. u \in Sound({}) /\ (Top(s) => Top(u)) /\ w \in u.qvwmList \ CloseSoon /\ Fewer(s, u)
        BY <1>2, <2>1, <2>7, <2>8
      <3>2. r \in Sound({}) /\ (Top(u) => Top(r)) /\ r.status = u.status
        BY <3>1, ShowSound
      <3> HIDE DEF r
      <3>3. Fewer(s, r)
        BY <3>1, <3>2 DEF Fewer, Minimized
      <3> QED
        BY <3>1, <3>2, <3>3 DEF r
    <2>10. LET r == MaximizeWindow(s, w, b)
           IN  r \in Sound({}) /\ (Top(s) => Top(r)) /\ Fewer(s, r)
      BY <1>2, <2>2, <2>9
    <2>11. LET r == ExpandWindow(s, w)
           IN  r \in Sound({}) /\ (Top(s) => Top(r)) /\ Fewer(s, r)
      BY <2>3, <2>9
    <2> QED
      BY <2>10, <2>11
  <1> QED
    BY <1>3, <1>4
-----------------------------------------------------------------------------
\* A window just made is exempt until it is mapped or put on unmapList.
LEMMA NewIsSound ==
    ASSUME NEW s \in State, NEW w \in Window
    PROVE  /\ s \in Sound({w}) /\ w \notin CloseSoon /\ (Settled => s.mapped[w]) => s \in Sound({})
           /\ s \in Sound({}) /\ ~Settled => s \in Sound({w})
  <1>1. ASSUME s \in Sound({w}), w \notin CloseSoon, Settled => s.mapped[w]
        PROVE  s \in Sound({})
    <2>1. Base(s, {w}) /\ \A x \in Window : OnMapList(s, x)
      BY <1>1 DEF Sound
    <2>2. ~Settled
      <3> SUFFICES ASSUME Settled PROVE FALSE
        OBVIOUS
      <3> QED
        BY <1>1 DEF Sound, OnUnmapList
    <2>3. Base(s, {})
      BY <1>1, <2>1 DEF Base
    <2> QED
      BY <2>1, <2>2, <2>3 DEF Sound
  <1>2. ASSUME s \in Sound({}), ~Settled
        PROVE  s \in Sound({w})
    <2>1. Base(s, {}) /\ \A x \in Window : OnMapList(s, x)
      BY <1>2 DEF Sound
    <2>2. Base(s, {w})
      BY <2>1 DEF Base
    <2> QED
      BY <1>2, <2>1, <2>2 DEF Sound
  <1> QED
    BY <1>1, <1>2

\* mapList as YieldFocus turns it.
LEMMA YieldedSound ==
    ASSUME NEW new, NEW s \in Sound(new), NEW w \in s.qvwmList
    PROVE  LET t == Yielded(s, w)
           IN  /\ t \in Sound(new) /\ SameLife(s, t)
               /\ t.focusQvwm = s.focusQvwm /\ t.status = s.status /\ t.unmapList = s.unmapList
               /\ t.flags = s.flags /\ t.mapList = YieldedList(s, w)
               /\ Top(s) /\ w # s.focusQvwm => Top(t)
  <1> DEFINE q == YieldedList(s, w)
             r == InsertTail(Remove(s.mapList, w), w)
             t == Yielded(s, w)
  <1>1. s \in State /\ w \in Window /\ s.mapList \in Seq(Window) /\ w \in Qvwm
    BY PointerType DEF Sound, State
  <1>2. q \in Seq(Window) /\ t = [s EXCEPT !.mapList = q]
    BY <1>1, YieldFocusCases DEF Yielded
  <1>3. q = IF Has(s.mapList, w) THEN r ELSE s.mapList
    BY DEF YieldedList
  <1>4. /\ s.mapList # <<>> /\ s.mapList[1] # w => r # <<>> /\ r[1] = s.mapList[1]
        /\ \A x : /\ Has(r, x) <=> x = w \/ Has(s.mapList, x)
                  /\ AtMostOnce(s.mapList, x) => AtMostOnce(r, x)
                  /\ AtMostTwice(s.mapList, x) => AtMostTwice(r, x)
    <2> DEFINE p == InsertHead(Remove(s.mapList, w), w)
    <2>0. s.mapList \in Seq(Window) /\ w \in Window
      BY <1>1
    <2>1. /\ /\ p \in Seq(Window) /\ p # <<>> /\ p[1] = w
             /\ \A x : /\ Has(p, x) <=> x = w \/ Has(s.mapList, x)
                       /\ AtMostOnce(s.mapList, x) => AtMostOnce(p, x)
                       /\ AtMostTwice(s.mapList, x) => AtMostTwice(p, x)
          /\ /\ r \in Seq(Window)
             /\ s.mapList # <<>> /\ s.mapList[1] # w => r # <<>> /\ r[1] = s.mapList[1]
             /\ \A x : /\ Has(r, x) <=> x = w \/ Has(s.mapList, x)
                       /\ AtMostOnce(s.mapList, x) => AtMostOnce(r, x)
                       /\ AtMostTwice(s.mapList, x) => AtMostTwice(r, x)
      BY ZenonT(60), <2>0, RaiseOccurs
    <2> HIDE DEF p, r
    <2> QED
      BY <2>1
  <1>5. SameLife(s, [s EXCEPT !.mapList = q])
    BY <1>1, <1>2, AssignLife
  <1>6. LET v == [s EXCEPT !.mapList = q]
        IN  /\ v.focusQvwm = s.focusQvwm /\ v.status = s.status /\ v.unmapList = s.unmapList
            /\ v.flags = s.flags /\ v.mapList = q
    BY <1>1 DEF State
  <1> HIDE DEF q, r
  <1>7. \A x : /\ Has(q, x) <=> Has(s.mapList, x)
               /\ AtMostOnce(s.mapList, x) => AtMostOnce(q, x)
               /\ AtMostTwice(s.mapList, x) => AtMostTwice(q, x)
    BY <1>3, <1>4
  <1>8. [s EXCEPT !.mapList = q] \in Sound(new)
    BY <1>2, <1>7, TurnSound
  <1> HIDE DEF t
  <1>9. t \in Sound(new) /\ SameLife(s, t)
        /\ t.focusQvwm = s.focusQvwm /\ t.status = s.status /\ t.unmapList = s.unmapList
        /\ t.flags = s.flags /\ t.mapList = q
    BY <1>2, <1>5, <1>6, <1>8
  <1>10. Top(s) /\ w # s.focusQvwm => Top(t)
    BY <1>3, <1>4, <1>9 DEF Top
  <1> QED
    BY <1>9, <1>10 DEF t, q

\* YieldFocus takes the focus from the window and gives it to the next main window,
\* which is managed, and minimized if it is unmapped, or to the desktop.
LEMMA YieldSound ==
    ASSUME NEW new, NEW s \in Sound(new), NEW w \in s.qvwmList, NoneLostBut(s, w),
           new = {} \/ s.focusQvwm # w, ClickToFocus => NoHints
    PROVE  LET y == YieldFocus(s, w)
           IN  /\ y \in Sound(new) /\ y.qvwmList = s.qvwmList
               /\ y.focusQvwm # w /\ (Top(s) => Top(y)) /\ Fewer(s, y)
               /\ s.focusQvwm # w => y = Yielded(s, w)
  <1> DEFINE t == Yielded(s, w)
             y == YieldFocus(s, w)
             next == NextOf(s, w)
  <1>1. s \in State /\ w \in Window /\ w # Root /\ Base(s, new)
        /\ \A x \in Window : OnMapList(s, x)
    BY RootIsNoWindow DEF Sound, State
  <1>2. /\ YieldedList(s, w) \in Seq(Window) /\ next \in Qvwm \ {w}
        /\ y = IF w # s.focusQvwm THEN t
               ELSE IF ~ClickToFocus THEN SetFocus(t, Root)
               ELSE IF CheckMapped(t, next) THEN SetFocus(t, next)
               ELSE RestoreWindow(t, next, TRUE)
    BY <1>1, YieldFocusCases
  <1>3. /\ t \in Sound(new) /\ SameLife(s, t)
        /\ t.focusQvwm = s.focusQvwm /\ t.status = s.status /\ t.unmapList = s.unmapList
        /\ t.flags = s.flags /\ t.mapList = YieldedList(s, w)
        /\ Top(s) /\ w # s.focusQvwm => Top(t)
    BY YieldedSound
  <1>4. next # Root => /\ next \in s.qvwmList /\ ~IsTransient(next)
    <2> HAVE next # Root
    <2>1. YieldedList(s, w) # <<>> /\ next = Head(YieldedList(s, w))
      BY DEF NextOf
    <2>2. next = t.mapList[1] /\ 1 \in DOMAIN t.mapList /\ next \in Window
      BY <1>2, <1>3, <2>1, EmptySeq, ElementOfSeq, LenProperties
    <2>3. Has(t.mapList, next)
      BY <2>2 DEF Has
    <2>4. OnMapList(t, next)
      BY <1>3, <2>2 DEF Sound
    <2> QED
      BY <1>3, <2>3, <2>4 DEF OnMapList, SameLife
  <1>5. y \in State /\ y.qvwmList = s.qvwmList
    BY <1>1, YieldFocusManaged
  <1> HIDE DEF t, y, next
  <1>6. t \in State /\ Base(t, new) /\ t.qvwmList = s.qvwmList /\ t.mapped = s.mapped
    BY <1>3 DEF Sound, SameLife
  <1>7. Fewer(s, t)
    BY <1>3 DEF Fewer, Minimized
  <1>8. CASE w # s.focusQvwm
    BY <1>2, <1>3, <1>5, <1>7, <1>8 DEF y, t
  <1>9. ASSUME NEW v \in t.qvwmList \cup {Root}, v # w, y = SetFocus(t, v), w = s.focusQvwm,
               v = Root \/ ClickToFocus
        PROVE  y \in Sound(new) /\ y.focusQvwm # w /\ Top(y) /\ Fewer(s, y)
    <2>1. /\ y \in Sound(new)
          /\ "NO_FOCUS" \notin t.flags[v] => y.focusQvwm = v /\ (v # t.focusQvwm => Top(y))
      BY <1>3, <1>9, SetFocusSound
    <2>2. v \in Qvwm /\ "NO_FOCUS" \notin t.flags[v]
      BY <1>1, <1>6, <1>9, PointerType DEF Base, Willing, State
    <2>3. y.status = t.status
      BY <1>6, <1>9, <2>2, SetFocusEffect
    <2> QED
      BY <1>3, <1>9, <2>1, <2>2, <2>3 DEF Fewer, Minimized
  <1>10. CASE w = s.focusQvwm /\ ~ClickToFocus
    BY <1>1, <1>2, <1>5, <1>9, <1>10 DEF y
  <1>11. CASE w = s.focusQvwm /\ ClickToFocus /\ CheckMapped(t, next)
    <2>1. next \in t.qvwmList \cup {Root} /\ next # w
      BY <1>2, <1>4, <1>6
    <2> QED
      BY <1>2, <1>5, <1>9, <1>11, <2>1 DEF y
  <1>12. CASE w = s.focusQvwm /\ ClickToFocus /\ ~CheckMapped(t, next)
    <2>1. next # Root
      BY <1>6, <1>12 DEF CheckMapped, Base
    <2>2. next \in Window /\ next \in t.qvwmList /\ next # w
      BY <1>1, <1>2, <1>4, <1>6, <2>1 DEF State
    <2>3. t.status[next] # {}
      BY <1>3, <1>4, <1>6, <1>12, <2>1, <2>2 DEF NoneLostBut, Unlost, CheckMapped, Minimized
    <2>4. y = RestoreWindow(t, next, TRUE) /\ t \in Sound({}) /\ NoHints
      BY <1>2, <1>3, <1>12
    <2>5. /\ y \in Sound({}) /\ Fewer(t, y)
          /\ NoHints /\ next \in Window /\ t.status[next] # {} =>
               y.focusQvwm = next /\ (t.focusQvwm # next => Top(y))
      BY <2>2, <2>4, RestoreSound
    <2> QED
      BY <1>3, <1>5, <1>7, <1>12, <2>2, <2>3, <2>4, <2>5 DEF Fewer, y
  <1> QED
    BY <1>8, <1>10, <1>11, <1>12

\* ChangeFocusToCursor finds no unmapped window.
LEMMA CursorSound ==
    ASSUME NEW new, NEW s \in Sound(new), NEW pointer \in Qvwm
    PROVE  LET t == ChangeFocusToCursor(s, pointer)
           IN  /\ t \in Sound(new) /\ (Top(s) => Top(t)) /\ Fewer(s, t)
               /\ \A x \in Window : s.focusQvwm # x /\ ~s.mapped[x] => t.focusQvwm # x
               /\ t.qvwmList = s.qvwmList
  <1> DEFINE v == IF pointer # Root /\ CheckMapped(s, pointer) THEN pointer ELSE Root
             t == ChangeFocusToCursor(s, pointer)
  <1>1. s \in State /\ Base(s, new)
    BY DEF Sound
  <1>2. v \in s.qvwmList \cup {Root} /\ v \in Qvwm /\ t = SetFocus(s, v)
        /\ (v = Root \/ s.mapped[v])
    BY <1>1, PointerType DEF Base, CheckMapped, Qvwm, ChangeFocusToCursor
  <1> HIDE DEF v, t
  <1>3. t \in Sound(new) /\ (Top(s) => Top(t))
    BY <1>2, SetFocusSound
  <1>4. /\ t.status = s.status /\ SameLife(s, t)
        /\ t = s \/ t.focusQvwm = v
    BY <1>1, <1>2, SetFocusEffect
  <1>5. \A x \in Window : s.focusQvwm # x /\ ~s.mapped[x] => t.focusQvwm # x
    BY <1>2, <1>4, RootIsNoWindow
  <1> QED
    BY <1>3, <1>4, <1>5 DEF t, Fewer, Minimized, SameLife

\* A step minimizes no window that has the focus after it.
Fades(s, t) == \A x \in Window : ~Minimized(s, x) /\ Minimized(t, x) => t.focusQvwm # x

\* What MinimizeWindow does to a window of flags that let it be minimized: to a new one
\* it gives the attribute only.
LEMMA HideSound ==
    ASSUME NEW w \in Window, NEW new, NEW s \in Sound(new), w \in s.qvwmList,
           NoneLostBut(s, w), new = {} \/ (new = {w} /\ s.focusQvwm # w /\ w \notin CloseSoon),
           ClickToFocus => NoHints, NEW b \in BOOLEAN
    PROVE  LET u == UnmapWindows(YieldFocus(s, w), w, b)
           IN  /\ u \in Sound(new) /\ u.qvwmList = s.qvwmList /\ ~u.mapped[w]
               /\ u.focusQvwm # w /\ (Top(s) => Top(u)) /\ Fewer(s, u)
               /\ s.focusQvwm # w => u.status = s.status
  <1> DEFINE y == YieldFocus(s, w)
             u == UnmapWindows(y, w, b)
  <1>1. /\ y \in Sound(new) /\ y.qvwmList = s.qvwmList
        /\ y.focusQvwm # w /\ (Top(s) => Top(y)) /\ Fewer(s, y)
        /\ s.focusQvwm # w => y = Yielded(s, w)
    BY YieldSound
  <1>0. s.focusQvwm # w => y.status = s.status
    BY <1>1, YieldedSound
  <1> HIDE DEF y
  <1>2. y \in State
    BY <1>1 DEF Sound
  <1>3. CASE ~y.mapped[w]
    <2>1. u = y
      BY <1>3, Zenon DEF UnmapWindows, CheckMapped
    <2> QED
      BY <1>0, <1>1, <1>3, <2>1 DEF y
  <1>4. CASE y.mapped[w]
    <2>1. y \in Sound({}) /\ (new = {w} => ~Settled)
      <3>1. CASE new = {}
        BY <1>1, <3>1
      <3>2. CASE new = {w}
        <4>1. ~Settled
          <5> SUFFICES ASSUME Settled PROVE FALSE
            OBVIOUS
          <5> QED
            BY <1>1, <1>4, <3>2 DEF Sound, OnUnmapList
        <4> QED
          BY <1>1, <1>2, <1>4, <3>2, <4>1, NewIsSound
      <3> QED
        BY <3>1, <3>2
    <2>2. /\ u \in Sound({}) /\ u.qvwmList = y.qvwmList /\ ~u.mapped[w]
          /\ u.focusQvwm = y.focusQvwm /\ u.status = y.status
          /\ Top(y) /\ y.focusQvwm # w => Top(u)
      BY <1>1, <2>1, UnmapWindowsSound
    <2> HIDE DEF u
    <2>3. u \in State /\ u \in Sound(new)
      BY <2>1, <2>2, NewIsSound DEF Sound
    <2>4. Fewer(s, u)
      BY <1>1, <2>2 DEF Fewer, Minimized
    <2> QED
      BY <1>0, <1>1, <2>2, <2>3, <2>4 DEF u, y
  <1> QED
    BY <1>3, <1>4

\* MinimizeWindow hides its window, and leaves the focus on no window it minimized.
LEMMA MinimizeSound ==
    ASSUME NEW w \in Qvwm, NEW new, NEW s \in Sound(new),
           w \in s.qvwmList \cup {Root}, NoneLostBut(s, w),
           new = {} \/ (new = {w} /\ s.focusQvwm # w /\ w \notin CloseSoon),
           ClickToFocus => NoHints, NEW b \in BOOLEAN, NEW pointer \in Qvwm
    PROVE  LET r == MinimizeWindow(s, w, b, pointer)
           IN  /\ r \in Sound(new) /\ r.qvwmList = s.qvwmList
               /\ (Top(s) => Top(r)) /\ Fades(s, r)
               /\ \A x \in Window \ {w} : Minimized(r, x) => Minimized(s, x)
               /\ w \in Window /\ s.focusQvwm # w /\ "NO_TBUTTON" \notin s.flags[w] => Minimized(r, w)
  <1> DEFINE f == IF Maximized(s, w) THEN s.flagsBak[w] ELSE s.flags[w]
             m == s.status[w] \cup {"MINIMIZE_WINDOW"}
             t == [s EXCEPT !.status[w] = m, !.flagsBak[w] = f]
             u == UnmapWindows(YieldFocus(t, w), w, b)
             r == MinimizeWindow(s, w, b, pointer)
  <1>1. s \in State /\ Base(s, new) /\ f \in SUBSET Flag /\ m \in SUBSET Status
        /\ s.status \in [Qvwm -> SUBSET Status]
    BY DEF Sound, State, Status
  <1>2. (r = s /\ (w = Root \/ Minimized(s, w) \/ "NO_TBUTTON" \in s.flags[w])) \/ (w # Root /\ r = IF ClickToFocus THEN u ELSE ChangeFocusToCursor(u, pointer))
    <2>1. [s EXCEPT !.status[w] = @ \cup {"MINIMIZE_WINDOW"},
                    !.flagsBak[w] = IF Maximized(s, w) THEN @ ELSE s.flags[w]] = t
      BY <1>1 DEF State
    <2> QED
      BY <2>1, Zenon DEF MinimizeWindow
  <1>3. CASE r = s /\ (w = Root \/ Minimized(s, w) \/ "NO_TBUTTON" \in s.flags[w])
    BY <1>3, RootIsNoWindow DEF Fades
  <1>4. CASE w # Root /\ r = IF ClickToFocus THEN u ELSE ChangeFocusToCursor(u, pointer)
    <2>1. w \in Window
      BY <1>4 DEF Qvwm
    <2>2. SameFocus(s, t)
      BY <1>1, AssignFocus
    <2>3. Willing(t)
      <3>1. t.flags = s.flags /\ t.flagsBak = [s.flagsBak EXCEPT ![w] = f]
        BY <1>1 DEF State
      <3>2. s.flagsBak \in [Qvwm -> SUBSET Flag] /\ Window \subseteq Qvwm
        BY <1>1, PointerType DEF State
      <3>3. f \in {s.flags[w], s.flagsBak[w]}
        OBVIOUS
      <3> HIDE DEF t, f
      <3> QED
        BY <1>1, <2>1, <3>1, <3>2, <3>3 DEF Base, Willing
    <2>4. t.status = [s.status EXCEPT ![w] = m]
      BY <1>1 DEF State
    <2> HIDE DEF t, f, m
    <2>5. t \in Sound(new) /\ (Top(s) => Top(t)) /\ t.qvwmList = s.qvwmList
          /\ t.focusQvwm = s.focusQvwm /\ t.mapped = s.mapped
      BY <2>2, <2>3, AttributesSound DEF SameFocus, SameLife
    <2>6. \A x \in Window \ {w} : t.status[x] = s.status[x]
      BY <1>1, <2>4, PointerType
    <2>7. NoneLostBut(t, w)
      BY <2>5, <2>6 DEF NoneLostBut, Unlost, CheckMapped, Minimized
    <2>8. /\ w \in t.qvwmList /\ t \in Sound(new)
          /\ new = {} \/ (new = {w} /\ t.focusQvwm # w /\ w \notin CloseSoon)
      BY <1>4, <2>5
    <2>9. /\ u \in Sound(new) /\ u.qvwmList = t.qvwmList /\ ~u.mapped[w]
          /\ u.focusQvwm # w /\ (Top(t) => Top(u)) /\ Fewer(t, u)
          /\ t.focusQvwm # w => u.status = t.status
      BY <2>1, <2>7, <2>8, HideSound
    <2> HIDE DEF u
    <2> DEFINE c == ChangeFocusToCursor(u, pointer)
    <2>10. /\ c \in Sound(new) /\ (Top(u) => Top(c)) /\ Fewer(u, c)
           /\ c.focusQvwm # w /\ c.qvwmList = u.qvwmList /\ c.status = u.status
      <3>1. c.status = u.status
        BY <2>9, PointerType, SetFocusEffect DEF ChangeFocusToCursor, Sound
      <3> QED
        BY <2>1, <2>9, <3>1, CursorSound
    <2> HIDE DEF c
    <2>11. /\ r \in Sound(new) /\ r.qvwmList = s.qvwmList /\ (Top(s) => Top(r))
           /\ r.focusQvwm # w /\ Fewer(t, r)
           /\ t.focusQvwm # w => r.status = t.status
      <3>1. r = u \/ r = c
        BY <1>4 DEF c
      <3> HIDE DEF r
      <3>2. Fewer(t, c)
        BY <2>9, <2>10 DEF Fewer
      <3> QED
        BY <2>5, <2>9, <2>10, <3>1, <3>2
    <2> HIDE DEF r
    <2>12. \A x \in Window \ {w} : Minimized(r, x) => Minimized(s, x)
      BY <2>6, <2>11 DEF Fewer, Minimized
    <2>13. Fades(s, r)
      BY <2>11, <2>12 DEF Fades
    <2>14. s.focusQvwm # w => Minimized(r, w)
      <3>1. "MINIMIZE_WINDOW" \in t.status[w]
        BY <1>1, <2>4 DEF m
      <3> QED
        BY <2>5, <2>11, <3>1 DEF Minimized
    <2> QED
      BY <2>11, <2>12, <2>13, <2>14 DEF r
  <1> QED
    BY <1>2, <1>3, <1>4

\* The functions that toggle an attribute end with the window restored.
LEMMA ToggleSound ==
    ASSUME NEW s \in Sound({}), NEW w \in s.qvwmList \cup {Root}, NoneLost(s),
           ClickToFocus => NoHints, NEW pointer \in Qvwm
    PROVE  LET r == Toggle(s, w, pointer)
           IN  r \in Sound({}) /\ (Top(s) => Top(r)) /\ Fewer(s, r)
  <1> DEFINE m == MinimizeWindow(s, w, TRUE, pointer)
             r == RestoreWindow(m, w, TRUE)
  <1>1. w \in Qvwm /\ NoneLostBut(s, w)
    BY PointerType DEF Sound, State, NoneLost, NoneLostBut
  <1>2. /\ m \in Sound({}) /\ m.qvwmList = s.qvwmList
        /\ (Top(s) => Top(m)) /\ Fades(s, m)
        /\ \A x \in Window \ {w} : Minimized(m, x) => Minimized(s, x)
        /\ w \in Window /\ s.focusQvwm # w /\ "NO_TBUTTON" \notin s.flags[w] => Minimized(m, w)
    <2>1. TRUE \in BOOLEAN
      OBVIOUS
    <2> QED
      BY <1>1, <2>1, MinimizeSound, Zenon
  <1> HIDE DEF m
  <1>3. /\ r \in Sound({}) /\ (Top(m) => Top(r)) /\ Fewer(m, r)
        /\ w \in Window => ~Minimized(r, w)
    BY <1>2, RestoreSound
  <1> HIDE DEF r
  <1>4. Fewer(s, r)
    BY <1>2, <1>3 DEF Fewer
  <1> QED
    BY <1>2, <1>3, <1>4 DEF Toggle, r, m
-----------------------------------------------------------------------------
\* What a function does that takes the window it minimizes the focus, if it minimizes any,
\* and what one does that minimizes none.
Stern(s, r) == r \in Sound({}) /\ (Top(s) => Top(r)) /\ Fades(s, r)
Mild(s, r) == r \in Sound({}) /\ (Top(s) => Top(r)) /\ Fewer(s, r)

\* A new value of the flags.
LEMMA FlagsSound ==
    ASSUME NEW s \in Sound({}), NEW w \in Window, NEW f \in SUBSET Flag,
           NoHints => "NO_FOCUS" \notin f
    PROVE  LET t == [s EXCEPT !.flags[w] = f]
           IN  /\ Mild(s, t) /\ t.qvwmList = s.qvwmList /\ t.focusQvwm = s.focusQvwm
               /\ t.flags = [s.flags EXCEPT ![w] = f]
  <1> DEFINE t == [s EXCEPT !.flags[w] = f]
  <1>1. s \in State /\ Base(s, {}) /\ w \in Qvwm /\ w # Root
    BY PointerType, RootIsNoWindow DEF Sound
  <1>2. SameFocus(s, t)
    BY <1>1, AssignFocus
  <1>3. t.flags = [s.flags EXCEPT ![w] = f] /\ t.flagsBak = s.flagsBak /\ t.status = s.status
    BY <1>1 DEF State
  <1>4. s.flags \in [Qvwm -> SUBSET Flag] /\ Window \subseteq Qvwm /\ Root \in Qvwm
    BY <1>1, PointerType DEF State
  <1> HIDE DEF t
  <1>5. Willing(t)
    BY <1>1, <1>3, <1>4 DEF Base, Willing
  <1>6. Mild(s, t)
    BY <1>2, <1>3, <1>5, AttributesSound DEF Mild, Fewer, Minimized
  <1> QED
    BY <1>2, <1>3, <1>6 DEF t, SameFocus, SameLife

\* What the server knows, and the frames a handler has mapped, are no concern of the focus.
LEMMA ServerSound ==
    ASSUME NEW new, NEW s \in Sound(new), NEW w \in Window, NEW b \in BOOLEAN,
           NEW t, t = [s EXCEPT !.xmapped[w] = b] \/ t = [s EXCEPT !.frames = {}]
    PROVE  /\ t \in Sound(new) /\ (Top(s) => Top(t)) /\ t.status = s.status
           /\ t.qvwmList = s.qvwmList /\ t.focusQvwm = s.focusQvwm
           /\ t.mapped = s.mapped /\ t.mapList = s.mapList
  <1>1. s \in State /\ Base(s, new)
    BY DEF Sound
  <1>2. /\ t \in State
        /\ t.status = s.status /\ t.qvwmList = s.qvwmList /\ t.focusQvwm = s.focusQvwm
        /\ t.mapped = s.mapped /\ t.mapList = s.mapList /\ t.unmapList = s.unmapList
        /\ t.flags = s.flags /\ t.flagsBak = s.flagsBak
        /\ t.qvMain = s.qvMain /\ t.trList = s.trList
    <2>1. CASE t = [s EXCEPT !.xmapped[w] = b]
      BY <1>1, <2>1 DEF State
    <2>2. CASE t = [s EXCEPT !.frames = {}]
      BY <1>1, <2>2 DEF State
    <2> QED
      BY <2>1, <2>2
  <1>3. t \in Tidy
    BY <1>1, <1>2 DEF Base, Tidy
  <1>4. Base(t, new)
    BY <1>1, <1>2, <1>3 DEF Base, Willing
  <1>5. \A x \in Window : OnMapList(s, x) => OnMapList(t, x)
    BY <1>2 DEF OnMapList
  <1>6. \A x \in Window : OnUnmapList(s, x, new) => OnUnmapList(t, x, new)
    BY <1>2 DEF OnUnmapList
  <1>7. t \in Sound(new)
    BY <1>2, <1>4, <1>5, <1>6 DEF Sound
  <1> QED
    BY <1>2, <1>7 DEF Top

\* Shown, Rolled and Flagged of the focus.
LEMMA ShownSound ==
    ASSUME ClickToFocus => NoHints, NEW s \in Sound({}), NEW w \in s.qvwmList \cup {Root},
           NEW b \in BOOLEAN
    PROVE  /\ Mild(s, SetFocus(s, w)) /\ Mild(s, RestoreWindow(s, w, b))
           /\ Mild(s, MaximizeWindow(s, w, b)) /\ Mild(s, ExpandWindow(s, w))
           /\ \A pointer \in Qvwm : Mild(s, ChangeFocusToCursor(s, pointer))
  <1>1. s \in State /\ w \in Qvwm
    BY PointerType DEF Sound, State
  <1>2. Mild(s, SetFocus(s, w))
    <2> DEFINE t == SetFocus(s, w)
    <2>1. t \in Sound({}) /\ (Top(s) => Top(t))
      BY SetFocusSound
    <2>2. t.status = s.status
      BY <1>1, SetFocusEffect
    <2> HIDE DEF t
    <2>3. Mild(s, t)
      BY <2>1, <2>2 DEF Mild, Fewer, Minimized
    <2> QED
      BY <2>3 DEF t
  <1>3. Mild(s, RestoreWindow(s, w, b))
    BY RestoreSound DEF Mild
  <1>4. Mild(s, MaximizeWindow(s, w, b)) /\ Mild(s, ExpandWindow(s, w))
    BY MaximizeSound DEF Mild
  <1>5. \A pointer \in Qvwm : Mild(s, ChangeFocusToCursor(s, pointer))
    BY CursorSound DEF Mild
  <1> QED
    BY <1>2, <1>3, <1>4, <1>5

\* RollFocus focuses the head of the list it turned, or the desktop.
LEMMA RolledSound ==
    ASSUME ClickToFocus => NoHints, NEW s \in Sound({}), NEW q \in Turns(Window, s.mapList),
           NEW w, w = Root \/ (q # <<>> /\ w = q[1])
    PROVE  LET r == SetFocus([s EXCEPT !.mapList = q], w)
           IN  r \in Sound({}) /\ Top(r) /\ Fewer(s, r)
  <1> DEFINE t == [s EXCEPT !.mapList = q]
             r == SetFocus(t, w)
  <1>1. s \in State /\ s.mapList \in Seq(Window) /\ q \in Seq(Window)
    BY DEF Sound, State, Turns
  <1>2. t \in Sound({})
    <2>1. \A x : /\ Has(q, x) <=> Has(s.mapList, x)
                 /\ AtMostOnce(s.mapList, x) => AtMostOnce(q, x)
                 /\ AtMostTwice(s.mapList, x) => AtMostTwice(q, x)
      BY <1>1, TurnsKeepItems
    <2> QED
      BY <1>1, <2>1, TurnSound
  <1>3. t.mapList = q /\ t.status = s.status
    BY <1>1 DEF State
  <1> HIDE DEF t
  <1>4. t \in State /\ Base(t, {}) /\ \A x \in Window : OnMapList(t, x)
    BY <1>2 DEF Sound
  <1>5. w \in t.qvwmList \cup {Root}
    <2>1. CASE q # <<>> /\ w = q[1]
      <3>1. w \in Window /\ Has(q, w)
        BY <1>1, <2>1, EmptySeq, ElementOfSeq, LenProperties DEF Has
      <3> QED
        BY <1>3, <1>4, <3>1 DEF OnMapList
    <2> QED
      BY <2>1
  <1>6. w \in Qvwm
    BY <1>4, <1>5, PointerType DEF State
  <1>7. /\ r \in Sound({})
        /\ "NO_FOCUS" \notin t.flags[w] => r.focusQvwm = w /\ (w # t.focusQvwm => Top(r))
    BY <1>2, <1>5, SetFocusSound
  <1>8. r.status = t.status /\ (w = t.focusQvwm => r = t)
    BY <1>4, <1>6, SetFocusEffect
  <1>9. ClickToFocus \/ w = Root => "NO_FOCUS" \notin t.flags[w]
    BY <1>4, <1>5 DEF Base, Willing, State
  <1> HIDE DEF r
  <1>10. Top(r)
    BY <1>3, <1>7, <1>8, <1>9 DEF Top
  <1>11. Fewer(s, r)
    BY <1>3, <1>8 DEF Fewer, Minimized
  <1> QED
    BY <1>7, <1>10, <1>11 DEF r, t

\* The functions that change an attribute; FocusOnce lifts NO_FOCUS and puts it back.
LEMMA FlaggedSound ==
    ASSUME ClickToFocus => NoHints, NEW s \in Sound({}), NEW w \in s.qvwmList
    PROVE  /\ Mild(s, [s EXCEPT !.flags[w] = @ \cup {"NO_TBUTTON"}])
           /\ Mild(s, Flip(s, w, "NO_TBUTTON"))
           /\ "Q_TOGGLE_FOCUS" \in Bound => Mild(s, Flip(s, w, "NO_FOCUS"))
           /\ Mild(s, FocusOnce(s, w))
  <1>1. s \in State /\ w \in Window /\ s.flags[w] \in SUBSET Flag
        /\ (NoHints => "NO_FOCUS" \notin s.flags[w])
    BY PointerType DEF Sound, State, Base, Willing
  <1>2. /\ s.flags[w] \cup {"NO_TBUTTON"} \in SUBSET Flag
        /\ \A x : s.flags[w] \ {x} \in SUBSET Flag
        /\ s.flags[w] \cup {"NO_FOCUS"} \in SUBSET Flag
        /\ NoHints => /\ "NO_FOCUS" \notin s.flags[w] \cup {"NO_TBUTTON"}
                      /\ \A x : "NO_FOCUS" \notin s.flags[w] \ {x}
    BY <1>1 DEF Flag
  <1>3. Mild(s, [s EXCEPT !.flags[w] = s.flags[w] \cup {"NO_TBUTTON"}])
    BY <1>1, <1>2, FlagsSound
  <1>4. [s EXCEPT !.flags[w] = @ \cup {"NO_TBUTTON"}]
          = [s EXCEPT !.flags[w] = s.flags[w] \cup {"NO_TBUTTON"}]
    BY <1>1 DEF State
  <1>5. Mild(s, Flip(s, w, "NO_TBUTTON"))
    <2> DEFINE f == IF "NO_TBUTTON" \in s.flags[w] THEN s.flags[w] \ {"NO_TBUTTON"}
                    ELSE s.flags[w] \cup {"NO_TBUTTON"}
    <2>1. Flip(s, w, "NO_TBUTTON") = [s EXCEPT !.flags[w] = f]
      BY <1>1 DEF Flip, State
    <2>2. f \in SUBSET Flag /\ (NoHints => "NO_FOCUS" \notin f)
      BY <1>2
    <2> HIDE DEF f
    <2>3. Mild(s, [s EXCEPT !.flags[w] = f])
      BY <1>1, <2>2, FlagsSound
    <2> QED
      BY <2>1, <2>3
  <1>6. ASSUME "Q_TOGGLE_FOCUS" \in Bound PROVE Mild(s, Flip(s, w, "NO_FOCUS"))
    <2> DEFINE f == IF "NO_FOCUS" \in s.flags[w] THEN s.flags[w] \ {"NO_FOCUS"}
                    ELSE s.flags[w] \cup {"NO_FOCUS"}
    <2>1. Flip(s, w, "NO_FOCUS") = [s EXCEPT !.flags[w] = f]
      BY <1>1 DEF Flip, State
    <2>2. f \in SUBSET Flag /\ ~NoHints
      BY <1>2, <1>6 DEF NoHints
    <2> HIDE DEF f
    <2>3. Mild(s, [s EXCEPT !.flags[w] = f])
      BY <1>1, <2>2, FlagsSound
    <2> QED
      BY <2>1, <2>3
  <1>7. Mild(s, FocusOnce(s, w))
    <2> DEFINE f == s.flags[w] \ {"NO_FOCUS"}
               t == [s EXCEPT !.flags[w] = f]
               u == SetFocus(t, w)
               v == [u EXCEPT !.flags[w] = s.flags[w]]
    <2>1. FocusOnce(s, w) = v
      <3>1. [s EXCEPT !.flags[w] = @ \ {"NO_FOCUS"}] = t
        BY <1>1 DEF State
      <3> QED
        BY <3>1, Zenon DEF FocusOnce
    <2>2. f \in SUBSET Flag /\ (NoHints => "NO_FOCUS" \notin f)
      BY <1>2
    <2> HIDE DEF f
    <2>3. Mild(s, t) /\ t.qvwmList = s.qvwmList
      BY <1>1, <2>2, FlagsSound
    <2> HIDE DEF t
    <2>4. Mild(t, u)
      <3>1. t \in Sound({}) /\ w \in t.qvwmList \cup {Root}
        BY <2>3 DEF Mild
      <3> QED
        BY <3>1, ShownSound
    <2> HIDE DEF u
    <2>5. Mild(u, v)
      BY <1>1, <2>4, FlagsSound DEF Mild
    <2> HIDE DEF v
    <2>6. Mild(s, v)
      BY <2>3, <2>4, <2>5 DEF Mild, Fewer
    <2> QED
      BY <2>1, <2>6
  <1> QED
    BY <1>3, <1>4, <1>5, <1>6, <1>7
-----------------------------------------------------------------------------
\* Birth: a new Qvwm is on neither list.
LEMMA NewSound ==
    ASSUME NEW s \in Sound({}), NEW w \in alive \ s.qvwmList, w \in Window, NEW junk \in BOOLEAN
    PROVE  LET t == NewQvwm(s, w, junk)
           IN  /\ t \in Sound({w}) /\ t.qvwmList = s.qvwmList \cup {w}
               /\ t.focusQvwm # w /\ (Top(s) => Top(t)) /\ Fewer(s, t)
               /\ ~t.mapped[w] /\ ~Has(t.mapList, w) /\ (Settled => ~Has(t.unmapList, w))
               /\ t.status[w] = {} /\ t.flags[w] = InitFlags[w]
  <1> DEFINE t == NewQvwm(s, w, junk)
  <1>1. /\ s \in State /\ Base(s, {}) /\ w \in Qvwm /\ w # Root
        /\ \A x \in Window : OnMapList(s, x)
        /\ Settled => \A x \in Window : OnUnmapList(s, x, {})
    BY PointerType, RootIsNoWindow DEF Sound
  <1>2. t \in Tidy
    BY <1>1, TidyBegets DEF Base, Begets
  <1>3. /\ t.qvwmList = s.qvwmList \cup {w} /\ t.focusQvwm = s.focusQvwm
        /\ t.mapped = [s.mapped EXCEPT ![w] = FALSE]
        /\ t.status = [s.status EXCEPT ![w] = {}]
        /\ t.flags = [s.flags EXCEPT ![w] = InitFlags[w]] /\ t.flagsBak = s.flagsBak
        /\ t.mapList = s.mapList /\ t.unmapList = s.unmapList
    BY <1>1 DEF NewQvwm, State
  <1>4. /\ s.mapped \in [Qvwm -> BOOLEAN] /\ s.status \in [Qvwm -> SUBSET Status]
        /\ s.flags \in [Qvwm -> SUBSET Flag]
        /\ Window \subseteq Qvwm /\ Root \in Qvwm
    BY <1>1, PointerType DEF State
  <1> HIDE DEF t
  <1>5. t.mapped = s.mapped /\ ~s.mapped[w] /\ t.status[w] = {} /\ t.flags[w] = InitFlags[w]
    <2>1. ~s.mapped[w]
      BY <1>1 DEF Base
    <2>2. t.mapped = s.mapped
      <3> DEFINE f == s.mapped
      <3>1. f \in [Qvwm -> BOOLEAN] /\ w \in Qvwm /\ t.mapped = [f EXCEPT ![w] = FALSE]
        BY <1>1, <1>3, <1>4
      <3>2. ~f[w]
        BY <2>1
      <3> HIDE DEF f
      <3>3. [f EXCEPT ![w] = FALSE] = f
        <4>1. f[w] = FALSE
          BY <3>1, <3>2
        <4> QED
          BY <3>1, <4>1
      <3> QED
        BY <3>1, <3>3 DEF f
    <2>3. t.status[w] = {} /\ t.flags[w] = InitFlags[w]
      BY <1>1, <1>3, <1>4
    <2> QED
      BY <2>1, <2>2, <2>3
  <1>6. Willing(t)
    BY <1>1, <1>3, <1>4 DEF Base, Willing, NoHints
  <1>7. Base(t, {w})
    BY <1>1, <1>2, <1>3, <1>5, <1>6 DEF Base
  <1>8. ~Has(t.mapList, w) /\ (Settled => ~Has(t.unmapList, w))
    BY <1>1, <1>3 DEF OnMapList, OnUnmapList
  <1>9. \A x \in Window : OnMapList(t, x)
    BY <1>1, <1>3, <1>5 DEF OnMapList
  <1>10. ASSUME Settled, NEW x \in Window PROVE OnUnmapList(t, x, {w})
    BY <1>1, <1>3, <1>5, <1>8, <1>10 DEF OnUnmapList
  <1>11. t \in Sound({w})
    BY <1>2, <1>7, <1>9, <1>10 DEF Sound, Tidy
  <1>12. t.focusQvwm # w
    BY <1>1, <1>3 DEF Base
  <1>13. (Top(s) => Top(t)) /\ Fewer(s, t)
    BY <1>1, <1>3, <1>4 DEF Top, Fewer, Minimized
  <1> QED
    BY <1>3, <1>5, <1>8, <1>11, <1>12, <1>13 DEF t

\* Death: of a window that is on neither list and has not the focus.
LEMMA DeleteSound ==
    ASSUME NEW w \in Window, NEW s \in Sound({w}), w \in s.qvwmList, s.focusQvwm # w,
           ~Has(s.mapList, w), Settled => ~Has(s.unmapList, w)
    PROVE  Mild(s, DeleteQvwm(s, w))
  <1> DEFINE t == DeleteQvwm(s, w)
  <1>1. /\ s \in State /\ Base(s, {w}) /\ w \in Qvwm /\ w # Root
        /\ \A x \in Window : OnMapList(s, x)
        /\ Settled => \A x \in Window : OnUnmapList(s, x, {w})
    BY PointerType, RootIsNoWindow DEF Sound
  <1>2. t \in Tidy
    BY <1>1, TidyBegets DEF Base, Begets
  <1>3. /\ t.qvwmList = s.qvwmList \ {w} /\ t.focusQvwm = s.focusQvwm
        /\ t.mapped = [s.mapped EXCEPT ![w] = FALSE]
        /\ t.status = [s.status EXCEPT ![w] = {}]
        /\ t.flags = [s.flags EXCEPT ![w] = {}] /\ t.flagsBak = [s.flagsBak EXCEPT ![w] = {}]
        /\ t.mapList = s.mapList /\ t.unmapList = s.unmapList
    BY <1>1 DEF DeleteQvwm, State
  <1>4. /\ s.mapped \in [Qvwm -> BOOLEAN] /\ s.status \in [Qvwm -> SUBSET Status]
        /\ s.flags \in [Qvwm -> SUBSET Flag] /\ s.flagsBak \in [Qvwm -> SUBSET Flag]
        /\ Window \subseteq Qvwm /\ Root \in Qvwm
    BY <1>1, PointerType DEF State
  <1> HIDE DEF t
  <1>5. ~t.mapped[w] /\ t.mapped[Root] /\ \A x \in Window \ {w} : t.mapped[x] = s.mapped[x]
    BY <1>1, <1>3, <1>4 DEF Base
  <1>6. Willing(t)
    <2>1. \A x \in Window : t.flags[x] \in {{}, s.flags[x]} /\ t.flagsBak[x] \in {{}, s.flagsBak[x]}
      BY <1>3, <1>4
    <2>2. t.flags[Root] = s.flags[Root]
      BY <1>1, <1>3, <1>4
    <2> QED
      BY <1>1, <2>1, <2>2 DEF Base, Willing
  <1>7. Base(t, {})
    BY <1>1, <1>2, <1>3, <1>5, <1>6 DEF Base
  <1>8. ASSUME NEW x \in Window PROVE OnMapList(t, x)
    <2>1. CASE x = w
      BY <1>3, <2>1, SeldomIsOften DEF OnMapList
    <2>2. CASE x # w
      BY <1>1, <1>3, <1>5, <2>2 DEF OnMapList
    <2> QED
      BY <2>1, <2>2
  <1>9. ASSUME Settled, NEW x \in Window PROVE OnUnmapList(t, x, {})
    <2>1. CASE x = w
      BY <1>3, <1>9, <2>1, SeldomIsOften DEF OnUnmapList
    <2>2. CASE x # w
      BY <1>1, <1>3, <1>5, <1>9, <2>2 DEF OnUnmapList
    <2> QED
      BY <2>1, <2>2
  <1>10. t \in Sound({})
    BY <1>2, <1>7, <1>8, <1>9 DEF Sound, Tidy
  <1>11. (Top(s) => Top(t)) /\ Fewer(s, t)
    BY <1>3, <1>4 DEF Top, Fewer, Minimized
  <1> QED
    BY <1>10, <1>11 DEF t, Mild

\* A new window that was minimized goes on unmapList.
LEMMA AppendSound ==
    ASSUME NEW w \in Window, NEW s \in Sound({w}), w \in s.qvwmList \ CloseSoon
    PROVE  LET t == [s EXCEPT !.unmapList = InsertTail(@, w)]
           IN  t \in Sound({}) /\ (Top(s) => Top(t)) /\ t.status = s.status
               /\ t.focusQvwm = s.focusQvwm
  <1> DEFINE p == InsertTail(s.unmapList, w)
             t == [s EXCEPT !.unmapList = p]
  <1>1. /\ s \in State /\ Base(s, {w}) /\ s.unmapList \in Seq(Window) /\ w \in Qvwm
        /\ \A x \in Window : OnMapList(s, x)
        /\ Settled => \A x \in Window : OnUnmapList(s, x, {w})
    BY PointerType DEF Sound, State
  <1>2. p \in Seq(Window)
    BY <1>1, ListTypes
  <1>3. /\ \A x : Has(p, x) <=> x = w \/ Has(s.unmapList, x)
        /\ \A x : x # w /\ AtMostOnce(s.unmapList, x) => AtMostOnce(p, x)
        /\ ~Has(s.unmapList, w) => AtMostOnce(p, w)
    <2>1. p = InsertHead(s.unmapList, w) \/ p = InsertTail(s.unmapList, w)
      OBVIOUS
    <2>2. s.unmapList \in Seq(Window) /\ w \in Window
      BY <1>1
    <2> HIDE DEF p
    <2>3. /\ \A x : /\ Has(p, x) <=> x = w \/ Has(s.unmapList, x)
                    /\ x # w /\ AtMostOnce(s.unmapList, x) => AtMostOnce(p, x)
                    /\ x # w /\ AtMostTwice(s.unmapList, x) => AtMostTwice(p, x)
          /\ ~Has(s.unmapList, w) => AtMostOnce(p, w)
          /\ AtMostOnce(s.unmapList, w) => AtMostTwice(p, w)
      BY <2>1, <2>2, InsertOccurs
    <2> QED
      BY <2>3
  <1>4. [s EXCEPT !.unmapList = InsertTail(@, w)] = t
    BY <1>1 DEF State
  <1> HIDE DEF p
  <1>5. SameLife(s, t)
    BY <1>1, <1>2, AssignLife
  <1>6. /\ t.mapList = s.mapList /\ t.unmapList = p /\ t.focusQvwm = s.focusQvwm
        /\ t.status = s.status /\ t.flags = s.flags /\ t.flagsBak = s.flagsBak
    BY <1>1 DEF State
  <1> HIDE DEF t
  <1>7. t \in Tidy
    BY <1>1, <1>5, TidyBegets DEF Base, Lives
  <1>8. Base(t, {})
    BY <1>1, <1>5, <1>6, <1>7 DEF Base, Willing, SameLife
  <1>9. \A x \in Window : OnMapList(t, x)
    BY <1>1, <1>5, <1>6 DEF OnMapList, SameLife
  <1>10. ASSUME Settled, NEW x \in Window PROVE OnUnmapList(t, x, {})
    <2>1. OnUnmapList(s, x, {w}) /\ OnUnmapList(s, w, {w})
      BY <1>1, <1>10
    <2>2. t.qvwmList = s.qvwmList /\ t.mapped = s.mapped
      BY <1>5 DEF SameLife
    <2>3. CASE x = w
      BY <1>3, <1>6, <2>1, <2>2, <2>3 DEF OnUnmapList
    <2>4. CASE x # w
      BY <1>3, <1>6, <2>1, <2>2, <2>4 DEF OnUnmapList
    <2> QED
      BY <2>3, <2>4
  <1>11. t \in Sound({})
    BY <1>5, <1>8, <1>9, <1>10 DEF Sound, SameLife
  <1>12. Top(s) => Top(t)
    BY <1>6 DEF Top
  <1> QED
    BY <1>4, <1>6, <1>11, <1>12

\* How the handlers that make a Qvwm end.
LEMMA MadeSound ==
    ASSUME ClickToFocus => NoHints, NEW w \in Window \ CloseSoon, NEW s, NEW u \in State,
           w \in u.qvwmList, Top(s) => Top(u),
           \A x \in Window \ {w} : Minimized(u, x) => Minimized(s, x), Fades(s, u),
           IF Minimized(u, w) THEN u \in Sound({w}) ELSE u \in Sound({}), NEW c \in BOOLEAN
    PROVE  Stern(s, IF Minimized(u, w) THEN [u EXCEPT !.unmapList = InsertTail(@, w)]
                    ELSE IF c THEN SetFocus(u, w) ELSE u)
  <1>1. CASE Minimized(u, w)
    <2> DEFINE t == [u EXCEPT !.unmapList = InsertTail(@, w)]
    <2>1. t \in Sound({}) /\ (Top(u) => Top(t)) /\ t.status = u.status /\ t.focusQvwm = u.focusQvwm
      BY <1>1, AppendSound
    <2> HIDE DEF t
    <2>2. Stern(s, t)
      BY <2>1 DEF Stern, Fades, Minimized
    <2> QED
      BY <1>1, <2>2 DEF t
  <1>2. CASE ~Minimized(u, w)
    <2>1. Fewer(s, u)
      BY <1>2 DEF Fewer
    <2>2. u \in Sound({}) /\ Mild(u, SetFocus(u, w))
      BY <1>2, ShownSound
    <2>3. Stern(s, SetFocus(u, w)) /\ Stern(s, u)
      BY <2>1, <2>2 DEF Stern, Mild, Fewer, Fades
    <2> QED
      BY <1>2, <2>3
  <1> QED
    BY <1>1, <1>2
-----------------------------------------------------------------------------
\* A window as its constructor leaves it.
Fresh(t, w) ==
    /\ t \in Sound({w}) /\ t.focusQvwm # w /\ ~Has(t.mapList, w)
    /\ Settled => ~Has(t.unmapList, w)
    /\ t.status[w] = {} /\ t.flags[w] = InitFlags[w]

\* From s a handler has come to t, in which it is about to show w or to hide it.
Ready(s, t, w) ==
    /\ w \in t.qvwmList /\ (t \in Sound({}) \/ Fresh(t, w))
    /\ Top(s) => Top(t)
    /\ Fewer(s, t) /\ NoneLostBut(t, w)

\* So it is once the window has its Qvwm.
LEMMA NewReady ==
    ASSUME NEW s \in Sound({}), NoneLost(s), NEW w \in alive, w \in Window, NEW junk \in BOOLEAN
    PROVE  /\ w \in s.qvwmList => Ready(s, s, w) /\ w \notin CloseSoon
           /\ w \notin s.qvwmList => LET t == NewQvwm(s, w, junk)
                                     IN  Ready(s, t, w) /\ Fresh(t, w)
  <1>1. w \in s.qvwmList => Ready(s, s, w) /\ w \notin CloseSoon
    BY DEF Ready, Fewer, NoneLost, NoneLostBut, Sound, Base
  <1>2. ASSUME w \notin s.qvwmList
        PROVE  LET t == NewQvwm(s, w, junk) IN Ready(s, t, w) /\ Fresh(t, w)
    <2> DEFINE t == NewQvwm(s, w, junk)
    <2>1. /\ t \in Sound({w}) /\ t.qvwmList = s.qvwmList \cup {w}
          /\ t.focusQvwm # w /\ (Top(s) => Top(t)) /\ Fewer(s, t)
          /\ ~t.mapped[w] /\ ~Has(t.mapList, w) /\ (Settled => ~Has(t.unmapList, w))
          /\ t.status[w] = {} /\ t.flags[w] = InitFlags[w]
      BY <1>2, NewSound
    <2>2. NoneLostBut(t, w)
      <3>1. s \in State
        BY DEF Sound
      <3> QED
        BY <3>1, NewQvwmRestorable
    <2> HIDE DEF t
    <2>3. Ready(s, t, w) /\ Fresh(t, w)
      BY <2>1, <2>2 DEF Ready, Fresh
    <2> QED
      BY <2>3 DEF t
  <1> QED
    BY <1>1, <1>2

\* A window with CLOSE_SOON is deleted at once.
LEMMA DoomedSound ==
    ASSUME NEW s, NEW t, NEW w \in Window, Ready(s, t, w), Fresh(t, w)
    PROVE  Stern(s, DeleteQvwm(t, w))
  <1>1. Mild(t, DeleteQvwm(t, w))
    BY DeleteSound DEF Ready, Fresh
  <1> QED
    BY <1>1 DEF Ready, Mild, Stern, Fewer, Fades

\* What the handler comes to before its last step.
Made(s, u, w) ==
    /\ u \in State /\ w \in u.qvwmList
    /\ Top(s) => Top(u)
    /\ Fades(s, u) /\ \A x \in Window \ {w} : Minimized(u, x) => Minimized(s, x)
    /\ IF Minimized(u, w) THEN u \in Sound({w}) ELSE u \in Sound({})

\* A window that starts iconic is minimized.
LEMMA IconicMade ==
    ASSUME ClickToFocus => NoHints, NEW s, NEW t, NEW w \in Window \ CloseSoon, Ready(s, t, w),
           NEW b \in BOOLEAN, NEW pointer \in Qvwm, ~Settled \/ Fresh(t, w),
           "NO_TBUTTON" \notin InitFlags[w]
    PROVE  Made(s, MinimizeWindow(t, w, b, pointer), w)
  <1> DEFINE u == MinimizeWindow(t, w, b, pointer)
  <1>1. w \in Qvwm
    BY DEF Qvwm
  <1>2. CASE Fresh(t, w)
    <2>1. /\ u \in Sound({w}) /\ u.qvwmList = t.qvwmList
          /\ (Top(t) => Top(u)) /\ Fades(t, u)
          /\ \A x \in Window \ {w} : Minimized(u, x) => Minimized(t, x)
          /\ w \in Window /\ t.focusQvwm # w /\ "NO_TBUTTON" \notin t.flags[w] => Minimized(u, w)
      BY <1>1, <1>2, MinimizeSound DEF Ready, Fresh
    <2> HIDE DEF u
    <2>2. Minimized(u, w)
      BY <1>2, <2>1 DEF Fresh
    <2>3. Made(s, u, w)
      BY <2>1, <2>2 DEF Made, Ready, Fewer, Fades, Sound
    <2> QED
      BY <2>3 DEF u
  <1>3. CASE ~Settled /\ t \in Sound({})
    <2>1. /\ u \in Sound({}) /\ u.qvwmList = t.qvwmList
          /\ (Top(t) => Top(u)) /\ Fades(t, u)
          /\ \A x \in Window \ {w} : Minimized(u, x) => Minimized(t, x)
      BY <1>1, <1>3, MinimizeSound DEF Ready
    <2> HIDE DEF u
    <2>2. u \in State /\ u \in Sound({w})
      BY <1>3, <2>1, NewIsSound DEF Sound
    <2>3. Made(s, u, w)
      BY <2>1, <2>2 DEF Made, Ready, Fewer, Fades
    <2> QED
      BY <2>3 DEF u
  <1> QED
    BY <1>2, <1>3 DEF Ready

\* One that starts maximized is.
LEMMA MaximizedMade ==
    ASSUME ClickToFocus => NoHints, NEW s, NEW t, NEW w \in Window \ CloseSoon, Ready(s, t, w),
           NEW b \in BOOLEAN, ~Settled
    PROVE  Made(s, MaximizeWindow(t, w, b), w)
  <1> DEFINE u == MaximizeWindow(t, w, b)
  <1>1. t \in Sound({}) /\ t \in State /\ w \in Qvwm
    <2>1. t \in State /\ w \in Qvwm
      BY DEF Ready, Fresh, Sound, Qvwm
    <2> QED
      BY <2>1, NewIsSound DEF Ready, Fresh
  <1>2. u \in Sound({}) /\ (Top(t) => Top(u)) /\ Fewer(t, u)
    BY <1>1, MaximizeSound DEF Ready
  <1>3. u.qvwmList = t.qvwmList
    BY <1>1, ShowManaged
  <1> HIDE DEF u
  <1>4. u \in State /\ u \in Sound({w})
    BY <1>2, NewIsSound DEF Sound
  <1>5. Made(s, u, w)
    BY <1>2, <1>3, <1>4 DEF Made, Ready, Fewer, Fades
  <1> QED
    BY <1>5 DEF u

\* One that comes back from an icon is restored.
LEMMA RestoredMade ==
    ASSUME ClickToFocus => NoHints, NEW s, NEW t, NEW w \in Window \ CloseSoon, Ready(s, t, w),
           NEW b \in BOOLEAN, Minimized(t, w)
    PROVE  Made(s, RestoreWindow(t, w, b), w)
  <1> DEFINE u == RestoreWindow(t, w, b)
  <1>1. t \in Sound({}) /\ t \in State /\ w \in Qvwm
    <2>1. ~Fresh(t, w)
      BY DEF Fresh, Minimized
    <2> QED
      BY <2>1 DEF Ready, Sound, Qvwm
  <1>2. /\ u \in Sound({}) /\ (Top(t) => Top(u)) /\ Fewer(t, u)
        /\ ~Minimized(u, w)
    <2>1. /\ u \in Sound({}) /\ (Top(t) => Top(u))
          /\ Fewer(t, u) /\ (w \in Window => ~Minimized(u, w))
          /\ NoHints /\ w \in Window /\ t.status[w] # {} =>
               u.focusQvwm = w /\ (t.focusQvwm # w => Top(u))
      BY <1>1, RestoreSound DEF Ready
    <2> QED
      BY <2>1
  <1>3. u.qvwmList = t.qvwmList
    BY <1>1, ShowManaged
  <1> HIDE DEF u
  <1>4. u \in State
    BY <1>2 DEF Sound
  <1>5. Made(s, u, w)
    BY <1>2, <1>3, <1>4 DEF Made, Ready, Fewer, Fades
  <1> QED
    BY <1>5 DEF u

\* Any other is mapped, and focused where c says so.
LEMMA MappedSound ==
    ASSUME ClickToFocus => NoHints, NEW s, NEW t, NEW w \in Window \ CloseSoon, Ready(s, t, w),
           ~Minimized(t, w), NEW c \in BOOLEAN, ClickToFocus => c, NEW b \in BOOLEAN
    PROVE  LET u == MapWindows(t, w, b)
           IN  Stern(s, IF Minimized(u, w) THEN [u EXCEPT !.unmapList = InsertTail(@, w)]
                        ELSE IF c THEN SetFocus(u, w) ELSE u)
  <1> DEFINE u == MapWindows(t, w, b)
             f == SetFocus(u, w)
  <1>1. PICK new : (new = {} \/ new = {w}) /\ t \in Sound(new)
    BY DEF Ready, Fresh
  <1>2. t \in Sound(new) /\ new \in {{}, {w}} /\ w \in t.qvwmList \ CloseSoon
    BY <1>1 DEF Ready
  <1>3. u \in Sound({}) /\ u.status = t.status
    BY <1>2, MapWindowsSound
  <1>4. f \in Sound({}) /\ f.status = t.status /\ (Top(t) => Top(f))
    BY <1>2, ShowSound
  <1> HIDE DEF f, u
  <1>5. Stern(s, f)
    BY <1>4 DEF Ready, Stern, Fewer, Fades, Minimized
  <1>6. ~c => Stern(s, u)
    BY <1>3 DEF Ready, Stern, Fewer, Fades, Minimized, Top
  <1>7. ~Minimized(u, w)
    BY <1>3 DEF Minimized
  <1>8. Stern(s, IF Minimized(u, w) THEN [u EXCEPT !.unmapList = InsertTail(@, w)]
                 ELSE IF c THEN f ELSE u)
    BY <1>5, <1>6, <1>7
  <1> QED
    BY <1>8 DEF f, u

\* MapRequestProc and CaptureAllWindows.
LEMMA MapRequestSound ==
    ASSUME ClickToFocus => NoHints, IconicHasButton, NEW s \in Sound({}), NoneLost(s),
           NEW w \in alive, w \in Window, NEW junk \in BOOLEAN, NEW pointer \in Qvwm
    PROVE  Stern(s, MapRequestResult(s, w, junk, pointer))
  <1> DEFINE t == IF w \in s.qvwmList THEN s ELSE NewQvwm(s, w, junk)
             u == IF w \in InitIconic THEN MinimizeWindow(t, w, TRUE, pointer)
                  ELSE IF w \in InitMaximize THEN MaximizeWindow(t, w, FALSE)
                  ELSE IF Minimized(t, w) THEN RestoreWindow(t, w, FALSE)
                  ELSE MapWindows(t, w, TRUE)
             c == ClickToFocus \/ FocusOnMap
             v == IF Minimized(u, w) THEN [u EXCEPT !.unmapList = InsertTail(@, w)]
                  ELSE IF c THEN SetFocus(u, w) ELSE u
  <1>1. MapRequestResult(s, w, junk, pointer) = IF w \in CloseSoon THEN DeleteQvwm(t, w) ELSE v
    BY Zenon DEF MapRequestResult
  <1>2. Ready(s, t, w) /\ (w \in CloseSoon => Fresh(t, w))
    BY NewReady
  <1>3. c \in BOOLEAN /\ (ClickToFocus => c)
    OBVIOUS
  <1> HIDE DEF t
  <1>4. CASE w \in CloseSoon
    BY <1>1, <1>2, <1>4, DoomedSound
  <1>5. CASE w \notin CloseSoon
    <2>1. ASSUME w \in InitIconic \/ w \in InitMaximize \/ Minimized(t, w)
          PROVE  Made(s, u, w)
      <3>1. CASE w \in InitIconic
        <4>1. ~Settled /\ "NO_TBUTTON" \notin InitFlags[w]
          BY <3>1 DEF Settled, IconicHasButton
        <4>2. Made(s, MinimizeWindow(t, w, TRUE, pointer), w)
          BY <1>2, <1>5, <4>1, IconicMade
        <4> QED
          BY <3>1, <4>2
      <3>2. CASE w \notin InitIconic /\ w \in InitMaximize
        <4>1. ~Settled
          BY <3>2 DEF Settled
        <4>2. Made(s, MaximizeWindow(t, w, FALSE), w)
          BY <1>2, <1>5, <4>1, MaximizedMade
        <4> QED
          BY <3>2, <4>2
      <3>3. CASE w \notin InitIconic /\ w \notin InitMaximize /\ Minimized(t, w)
        <4>1. Made(s, RestoreWindow(t, w, FALSE), w)
          BY <1>2, <1>5, <3>3, RestoredMade
        <4> QED
          BY <3>3, <4>1
      <3> QED
        BY <2>1, <3>1, <3>2, <3>3
    <2>2. CASE w \in InitIconic \/ w \in InitMaximize \/ Minimized(t, w)
      <3>1. Made(s, u, w)
        BY <2>1, <2>2
      <3> HIDE DEF u, c
      <3>2. Stern(s, v)
        BY <1>3, <1>5, <3>1, MadeSound DEF Made
      <3> QED
        BY <1>1, <1>5, <3>2
    <2>3. CASE ~(w \in InitIconic \/ w \in InitMaximize \/ Minimized(t, w))
      <3>1. u = MapWindows(t, w, TRUE)
        BY <2>3
      <3> HIDE DEF u, c
      <3>2. Stern(s, v)
        BY <1>2, <1>3, <1>5, <2>3, <3>1, MappedSound
      <3> QED
        BY <1>1, <1>5, <3>2
    <2> QED
      BY <2>2, <2>3
  <1> QED
    BY <1>4, <1>5

\* CaptureAllWindows manages a window that was there before.
LEMMA CaptureSound ==
    ASSUME ClickToFocus => NoHints, IconicHasButton, NEW s \in Sound({}), NoneLost(s),
           NEW w \in alive \ s.qvwmList, w \in Window, NEW junk \in BOOLEAN, NEW pointer \in Qvwm
    PROVE  Stern(s, CaptureResult(s, w, junk, pointer))
  <1> DEFINE t == NewQvwm(s, w, junk)
             u == IF w \in WasIconic \cup InitIconic THEN MinimizeWindow(t, w, FALSE, pointer)
                  ELSE IF w \in InitMaximize THEN MaximizeWindow(t, w, FALSE)
                  ELSE MapWindows(t, w, TRUE)
             c == ClickToFocus
             v == IF Minimized(u, w) THEN [u EXCEPT !.unmapList = InsertTail(@, w)]
                  ELSE IF c THEN SetFocus(u, w) ELSE u
  <1>1. CaptureResult(s, w, junk, pointer) = IF w \in CloseSoon THEN DeleteQvwm(t, w) ELSE v
    BY Zenon DEF CaptureResult
  <1>2. Ready(s, t, w) /\ Fresh(t, w)
    BY NewReady
  <1>3. c \in BOOLEAN /\ (ClickToFocus => c)
    BY HintsType
  <1> HIDE DEF t
  <1>4. CASE w \in CloseSoon
    BY <1>1, <1>2, <1>4, DoomedSound
  <1>5. CASE w \notin CloseSoon
    <2>1. ASSUME w \in WasIconic \cup InitIconic \/ w \in InitMaximize
          PROVE  Made(s, u, w)
      <3>1. CASE w \in WasIconic \cup InitIconic
        <4>1. "NO_TBUTTON" \notin InitFlags[w]
          BY <3>1 DEF IconicHasButton
        <4>2. Made(s, MinimizeWindow(t, w, FALSE, pointer), w)
          BY <1>2, <1>5, <4>1, IconicMade
        <4> QED
          BY <3>1, <4>2
      <3>2. CASE w \notin WasIconic \cup InitIconic /\ w \in InitMaximize
        <4>1. ~Settled
          BY <3>2 DEF Settled
        <4>2. Made(s, MaximizeWindow(t, w, FALSE), w)
          BY <1>2, <1>5, <4>1, MaximizedMade
        <4> QED
          BY <3>2, <4>2
      <3> QED
        BY <2>1, <3>1, <3>2
    <2>3. CASE w \in WasIconic \cup InitIconic \/ w \in InitMaximize
      <3>1. Made(s, u, w)
        BY <2>1, <2>3
      <3> HIDE DEF u, c
      <3>2. Stern(s, v)
        BY <1>3, <1>5, <3>1, MadeSound DEF Made
      <3> QED
        BY <1>1, <1>5, <3>2
    <2>2. CASE ~(w \in WasIconic \cup InitIconic \/ w \in InitMaximize)
      <3>1. u = MapWindows(t, w, TRUE) /\ ~Minimized(t, w)
        BY <1>2, <2>2 DEF Fresh, Minimized
      <3> HIDE DEF u, c
      <3>2. Stern(s, v)
        BY <1>2, <1>3, <1>5, <3>1, MappedSound
      <3> QED
        BY <1>1, <1>5, <3>2
    <2> QED
      BY <2>2, <2>3
  <1> QED
    BY <1>4, <1>5

\* MapNotifyProc shows a window as RestoreWindow or MapWindow does.
LEMMA MapNotifySound ==
    ASSUME ClickToFocus => NoHints, NEW s \in Sound({}), NEW w \in s.qvwmList, w \in Window
    PROVE  Mild(s, MapNotifyResult(s, w))
  <1> DEFINE t == IF Minimized(s, w) THEN RestoreWindow(s, w, FALSE) ELSE MapWindows(s, w, TRUE)
             c == ClickToFocus \/ FocusOnMap
  <1>1. MapNotifyResult(s, w) =
          IF CheckMapped(s, w) THEN s ELSE IF c THEN SetFocus(t, w) ELSE t
    BY Zenon DEF MapNotifyResult
  <1>2. s \in State /\ w \in Qvwm /\ w \in s.qvwmList \ CloseSoon
    BY DEF Sound, Base, Qvwm
  <1>3. CASE CheckMapped(s, w)
    BY <1>1, <1>3 DEF Mild, Fewer
  <1>4. CASE ~CheckMapped(s, w) /\ Minimized(s, w)
    <2>1. t = RestoreWindow(s, w, FALSE) /\ t.qvwmList = s.qvwmList
      BY <1>2, <1>4, ShowManaged
    <2>2. Mild(s, t)
      BY <2>1, ShownSound
    <2> HIDE DEF t, c
    <2>3. Mild(t, SetFocus(t, w))
      BY <2>1, <2>2, ShownSound DEF Mild
    <2> QED
      BY <1>1, <1>4, <2>2, <2>3 DEF Mild, Fewer
  <1>5. CASE ~CheckMapped(s, w) /\ ~Minimized(s, w)
    <2> DEFINE f == SetFocus(t, w)
    <2>1. t = MapWindows(s, w, TRUE)
      BY <1>5
    <2>2. t \in Sound({}) /\ t.status = s.status
      <3>1. PICK new : new = {}
        OBVIOUS
      <3>2. s \in Sound(new) /\ new \in {{}, {w}}
        BY <3>1
      <3>3. \A b \in BOOLEAN : MapWindows(s, w, b) \in Sound({})
                             /\ MapWindows(s, w, b).status = s.status
        BY <1>2, <3>2, MapWindowsSound
      <3> QED
        BY <2>1, <3>3
    <2>3. f \in Sound({}) /\ f.status = s.status /\ (Top(s) => Top(f))
      <3>1. ASSUME NEW b \in BOOLEAN, NEW m, m = SetFocus(MapWindows(s, w, b), w)
            PROVE  m \in Sound({}) /\ m.status = s.status /\ (Top(s) => Top(m))
        BY <1>2, <3>1, ShowSound
      <3>2. PICK b \in BOOLEAN : b = TRUE
        OBVIOUS
      <3>3. f = SetFocus(MapWindows(s, w, b), w)
        BY <2>1, <3>2
      <3> QED
        BY <3>1, <3>3
    <2> HIDE DEF t
    <2>4. Mild(s, f) /\ (~c => Mild(s, t))
      BY <2>2, <2>3 DEF Mild, Fewer, Minimized, Top
    <2> HIDE DEF c
    <2> QED
      BY <1>1, <1>5, <2>4
  <1> QED
    BY <1>3, <1>4, <1>5
-----------------------------------------------------------------------------
\* DestroyQvwm takes an unmapped window off both lists.
LEMMA ForgetSound ==
    ASSUME NEW s \in Sound({}), NEW w \in s.qvwmList, w \in Window, ~s.mapped[w],
           s.focusQvwm # w
    PROVE  LET t == [s EXCEPT !.unmapList = Remove(@, w), !.mapList = Remove(@, w)]
           IN  /\ t \in Sound({w}) /\ t.qvwmList = s.qvwmList /\ t.focusQvwm = s.focusQvwm
               /\ t.status = s.status
               /\ ~Has(t.mapList, w) /\ (Settled => ~Has(t.unmapList, w))
               /\ (Top(s) => Top(t))
  <1> DEFINE p == Remove(s.unmapList, w)
             q == Remove(s.mapList, w)
             t == [s EXCEPT !.unmapList = p, !.mapList = q]
  <1>1. /\ s \in State /\ Base(s, {}) /\ w \in Qvwm
        /\ s.unmapList \in Seq(Window) /\ s.mapList \in Seq(Window)
        /\ \A x \in Window : OnMapList(s, x)
        /\ Settled => \A x \in Window : OnUnmapList(s, x, {})
    BY PointerType DEF Sound, State
  <1>2. /\ p \in Seq(Window)
        /\ \A x : /\ Has(p, x) => Has(s.unmapList, x)
                  /\ x # w /\ Has(s.unmapList, x) => Has(p, x)
                  /\ AtMostOnce(s.unmapList, x) => AtMostOnce(p, x)
        /\ AtMostOnce(s.unmapList, w) => ~Has(p, w)
    BY <1>1, RemoveOccurs
  <1>3. /\ q \in Seq(Window)
        /\ \A x : /\ Has(q, x) => Has(s.mapList, x)
                  /\ x # w /\ Has(s.mapList, x) => Has(q, x)
                  /\ AtMostOnce(s.mapList, x) => AtMostOnce(q, x)
                  /\ AtMostTwice(s.mapList, x) => AtMostTwice(q, x)
        /\ AtMostOnce(s.mapList, w) => ~Has(q, w)
        /\ s.mapList # <<>> /\ s.mapList[1] # w => q # <<>> /\ q[1] = s.mapList[1]
    BY <1>1, RemoveOccurs
  <1>4. [s EXCEPT !.unmapList = Remove(@, w), !.mapList = Remove(@, w)] = t
    BY <1>1 DEF State
  <1> HIDE DEF p, q
  <1>5. t \in State
    BY <1>1, <1>2, <1>3 DEF State
  <1>6. /\ t.mapList = q /\ t.unmapList = p /\ t.focusQvwm = s.focusQvwm
        /\ t.status = s.status /\ t.flags = s.flags /\ t.flagsBak = s.flagsBak
        /\ t.qvwmList = s.qvwmList /\ t.mapped = s.mapped
        /\ t.qvMain = s.qvMain /\ t.trList = s.trList
    BY <1>1 DEF State
  <1> HIDE DEF t
  <1>7. t \in Tidy
    BY <1>1, <1>5, <1>6 DEF Base, Tidy
  <1>8. Base(t, {w})
    BY <1>1, <1>6, <1>7 DEF Base, Willing
  <1>9. ~Has(q, w)
    BY <1>1, <1>3 DEF OnMapList
  <1>10. \A x \in Window : OnMapList(t, x)
    BY <1>1, <1>3, <1>6 DEF OnMapList
  <1>11. ASSUME Settled PROVE ~Has(p, w)
    BY <1>1, <1>2, <1>11 DEF OnUnmapList
  <1>12. ASSUME Settled, NEW x \in Window PROVE OnUnmapList(t, x, {w})
    <2>1. OnUnmapList(s, x, {})
      BY <1>1, <1>12
    <2>2. CASE x = w
      BY <1>2, <1>6, <1>11, <1>12, <2>1, <2>2 DEF OnUnmapList
    <2>3. CASE x # w
      BY <1>2, <1>3, <1>6, <2>1, <2>3 DEF OnUnmapList
    <2> QED
      BY <2>2, <2>3
  <1>13. t \in Sound({w})
    BY <1>5, <1>8, <1>10, <1>12 DEF Sound
  <1>14. Top(s) => Top(t)
    BY <1>3, <1>6 DEF Top
  <1> QED
    BY <1>4, <1>6, <1>9, <1>11, <1>13, <1>14

\* Event::DestroyQvwm.
LEMMA DestroySound ==
    ASSUME ClickToFocus => NoHints, NEW s \in Sound({}), NoneLost(s),
           NEW w \in s.qvwmList, w \in Window, NEW pointer \in Qvwm
    PROVE  Mild(s, DestroyQvwm(s, w, pointer))
  <1> DEFINE t == IF w = s.focusQvwm THEN YieldFocus(s, w) ELSE s
             u == UnmapWindows(t, w, TRUE)
             v == [u EXCEPT !.unmapList = Remove(@, w), !.mapList = Remove(@, w)]
             d == DeleteQvwm(v, w)
             e == ChangeFocusToCursor(d, pointer)
  <1>1. DestroyQvwm(s, w, pointer) = d \/ DestroyQvwm(s, w, pointer) = e
    BY Zenon DEF DestroyQvwm
  <1>2. NoneLostBut(s, w)
    BY DEF NoneLost, NoneLostBut
  <1>3. /\ t \in Sound({}) /\ t.qvwmList = s.qvwmList /\ t.focusQvwm # w
        /\ (Top(s) => Top(t)) /\ Fewer(s, t)
    <2> DEFINE y == YieldFocus(s, w)
    <2>1. \A new : new = {} =>
            /\ y \in Sound(new) /\ y.qvwmList = s.qvwmList
            /\ y.focusQvwm # w /\ (Top(s) => Top(y)) /\ Fewer(s, y)
            /\ s.focusQvwm # w => y = Yielded(s, w)
      BY <1>2, YieldSound
    <2> HIDE DEF y
    <2>2. t = IF w = s.focusQvwm THEN y ELSE s
      BY DEF y
    <2> QED
      BY <2>1, <2>2 DEF Fewer
  <1> HIDE DEF t
  <1>4. /\ u \in Sound({}) /\ u.qvwmList = t.qvwmList /\ ~u.mapped[w]
        /\ u.focusQvwm = t.focusQvwm /\ u.status = t.status
        /\ Top(t) /\ t.focusQvwm # w => Top(u)
    BY <1>3, UnmapWindowsSound
  <1> HIDE DEF u
  <1>5. /\ v \in Sound({w}) /\ v.qvwmList = u.qvwmList /\ v.focusQvwm = u.focusQvwm
        /\ v.status = u.status
        /\ ~Has(v.mapList, w) /\ (Settled => ~Has(v.unmapList, w))
        /\ (Top(u) => Top(v))
    BY <1>3, <1>4, ForgetSound
  <1> HIDE DEF v
  <1>6. Mild(v, d)
    BY <1>3, <1>4, <1>5, DeleteSound
  <1> HIDE DEF d
  <1>7. Mild(d, e)
    BY <1>6, CursorSound DEF Mild
  <1> HIDE DEF e
  <1>8. Mild(s, d) /\ Mild(s, e)
    BY <1>3, <1>4, <1>5, <1>6, <1>7 DEF Mild, Fewer, Minimized
  <1> QED
    BY <1>1, <1>8
-----------------------------------------------------------------------------
\* What these theorems suppose of clients and hints: no managed window becomes
\* override-redirect, one that starts iconic has a taskbar button, and where a click
\* gives the focus no window refuses it.
Steady == Override = {} /\ IconicHasButton /\ (ClickToFocus => NoHints)

\* The inductive invariant; and the states a handler that found v may go through
\* before it hides a window, and end in.
Good == {s \in Sound({}) : Top(s) /\ NoneLost(s)}
From(v) == {s \in Good : Fewer(v, s)}
To(v) == {s \in Good : Fades(v, s)}

\* A function that shows a window goes on, one that hides one ends.
LEMMA GoodGoesOn ==
    ASSUME NEW v, NEW s \in From(v), NEW r
    PROVE  /\ s \in Good /\ s \in State /\ s \in Sound({}) /\ s \in Kept /\ NoneLost(s)
           /\ Mild(s, r) /\ r \in Kept => r \in From(v) /\ r \in To(v)
           /\ Stern(s, r) /\ r \in Kept => r \in To(v)
  <1>1. s \in Good /\ s \in Sound({}) /\ Top(s) /\ NoneLost(s) /\ Fewer(v, s)
    BY DEF From, Good
  <1>2. s \in State /\ s \in Kept
    BY <1>1 DEF Sound, Kept
  <1>3. Mild(s, r) /\ r \in Kept => r \in From(v) /\ r \in To(v)
    BY <1>1 DEF Mild, From, To, Good, Fewer, Fades, Kept
  <1>4. Stern(s, r) /\ r \in Kept => r \in To(v)
    BY <1>1 DEF Stern, To, Good, Fewer, Fades, Kept
  <1> QED
    BY <1>1, <1>2, <1>3, <1>4

\* The functions lead from the one to the other.
LEMMA GoodShown ==
    ASSUME Steady, NEW v
    PROVE  Shown(From(v)) /\ Rolled(From(v)) /\ Flagged(From(v))
  <1>1. Shown(Kept) /\ Rolled(Kept) /\ Flagged(Kept)
    BY ShownKept
  <1>2. ASSUME NEW s \in From(v), NEW w \in Qvwm, NEW b \in BOOLEAN, w \in s.qvwmList \cup {Root}
        PROVE  /\ SetFocus(s, w) \in From(v) /\ RestoreWindow(s, w, b) \in From(v)
               /\ MaximizeWindow(s, w, b) \in From(v) /\ ExpandWindow(s, w) \in From(v)
    <2>1. s \in Sound({}) /\ s \in Kept
      BY GoodGoesOn
    <2>2. /\ Mild(s, SetFocus(s, w)) /\ Mild(s, RestoreWindow(s, w, b))
          /\ Mild(s, MaximizeWindow(s, w, b)) /\ Mild(s, ExpandWindow(s, w))
          /\ \A pointer \in Qvwm : Mild(s, ChangeFocusToCursor(s, pointer))
      BY <1>2, <2>1, ShownSound DEF Steady
    <2>3. /\ SetFocus(s, w) \in Kept /\ RestoreWindow(s, w, b) \in Kept
          /\ MaximizeWindow(s, w, b) \in Kept /\ ExpandWindow(s, w) \in Kept
      BY <1>1, <1>2, <2>1 DEF Shown
    <2> QED
      BY <2>2, <2>3, GoodGoesOn
  <1>3. ASSUME NEW s \in From(v), NEW pointer \in Qvwm
        PROVE  ChangeFocusToCursor(s, pointer) \in From(v)
    <2>1. s \in Sound({}) /\ s \in Kept
      BY GoodGoesOn
    <2>2. Mild(s, ChangeFocusToCursor(s, pointer))
      BY <2>1, CursorSound DEF Mild
    <2>3. ChangeFocusToCursor(s, pointer) \in Kept
      BY <1>1, <2>1 DEF Shown
    <2> QED
      BY <2>2, <2>3, GoodGoesOn
  <1>4. ASSUME NEW s \in From(v), NEW q \in Turns(Window, s.mapList), NEW w,
               w = Root \/ (q # <<>> /\ w = q[1])
        PROVE  SetFocus([s EXCEPT !.mapList = q], w) \in From(v)
    <2> DEFINE r == SetFocus([s EXCEPT !.mapList = q], w)
    <2>1. s \in Sound({}) /\ s \in Kept
      BY GoodGoesOn
    <2>2. r \in Sound({}) /\ Top(r) /\ Fewer(s, r)
      BY <1>4, <2>1, RolledSound DEF Steady
    <2>3. r \in Kept
      BY <1>1, <1>4, <2>1 DEF Rolled
    <2> HIDE DEF r
    <2>4. Mild(s, r)
      BY <2>2 DEF Mild
    <2>5. r \in From(v)
      BY <2>3, <2>4, GoodGoesOn
    <2> QED
      BY <2>5 DEF r
  <1>5. ASSUME NEW s \in From(v), NEW w \in Window, w \in s.qvwmList
        PROVE  /\ [s EXCEPT !.flags[w] = @ \cup {"NO_TBUTTON"}] \in From(v)
               /\ Flip(s, w, "NO_TBUTTON") \in From(v)
               /\ "Q_TOGGLE_FOCUS" \in Bound => Flip(s, w, "NO_FOCUS") \in From(v)
               /\ FocusOnce(s, w) \in From(v)
    <2>1. s \in Sound({}) /\ s \in Kept
      BY GoodGoesOn
    <2>2. /\ Mild(s, [s EXCEPT !.flags[w] = @ \cup {"NO_TBUTTON"}])
          /\ Mild(s, Flip(s, w, "NO_TBUTTON"))
          /\ "Q_TOGGLE_FOCUS" \in Bound => Mild(s, Flip(s, w, "NO_FOCUS"))
          /\ Mild(s, FocusOnce(s, w))
      BY <1>5, <2>1, FlaggedSound DEF Steady
    <2>3. /\ [s EXCEPT !.flags[w] = @ \cup {"NO_TBUTTON"}] \in Kept
          /\ Flip(s, w, "NO_TBUTTON") \in Kept
          /\ "Q_TOGGLE_FOCUS" \in Bound => Flip(s, w, "NO_FOCUS") \in Kept
          /\ FocusOnce(s, w) \in Kept
      BY <1>1, <1>5, <2>1 DEF Flagged
    <2> QED
      BY <2>2, <2>3, GoodGoesOn
  <1>6. Shown(From(v))
    BY <1>2, <1>3 DEF Shown
  <1>7. Rolled(From(v))
    BY <1>4 DEF Rolled
  <1>8. Flagged(From(v))
    BY <1>5 DEF Flagged
  <1> QED
    BY <1>6, <1>7, <1>8

\* Those that hide a window, make a Qvwm or delete one lead from From to To.
LEMMA GoodHidden ==
    ASSUME Steady, NEW v
    PROVE  Hidden(From(v), To(v)) /\ Born(From(v), To(v)) /\ Dead(From(v), To(v))
  <1>1. Hidden(Kept, Kept) /\ Born(Kept, Kept) /\ Dead(Kept, Kept)
    BY KeptLeads DEF Steady, Leads
  <1>2. /\ ClickToFocus => NoHints
        /\ IconicHasButton /\ Override = {}
    BY DEF Steady
  <1>3. ASSUME NEW s \in From(v), NEW w \in Qvwm, NEW b \in BOOLEAN, NEW pointer \in Qvwm,
               w \in s.qvwmList \cup {Root}
        PROVE  MinimizeWindow(s, w, b, pointer) \in To(v) /\ Toggle(s, w, pointer) \in To(v)
    <2> DEFINE m == MinimizeWindow(s, w, b, pointer)
               t == Toggle(s, w, pointer)
    <2>1. s \in Sound({}) /\ s \in Kept /\ NoneLost(s) /\ NoneLostBut(s, w)
      BY GoodGoesOn DEF NoneLost, NoneLostBut
    <2>2. \A new : new = {} =>
            /\ m \in Sound(new) /\ m.qvwmList = s.qvwmList
            /\ (Top(s) => Top(m)) /\ Fades(s, m)
            /\ \A x \in Window \ {w} : Minimized(m, x) => Minimized(s, x)
            /\ w \in Window /\ s.focusQvwm # w /\ "NO_TBUTTON" \notin s.flags[w] => Minimized(m, w)
      BY <1>2, <1>3, <2>1, MinimizeSound
    <2>3. t \in Sound({}) /\ (Top(s) => Top(t)) /\ Fewer(s, t)
      BY <1>2, <1>3, <2>1, ToggleSound
    <2>4. m \in Kept /\ t \in Kept
      BY <1>1, <1>3, <2>1 DEF Hidden
    <2> HIDE DEF m, t
    <2>5. Stern(s, m) /\ Mild(s, t)
      BY <2>2, <2>3 DEF Stern, Mild
    <2>6. m \in To(v) /\ t \in To(v)
      BY <2>4, <2>5, GoodGoesOn
    <2> QED
      BY <2>6 DEF m, t
  <1>4. ASSUME NEW s \in From(v), NEW w \in Window, NEW junk \in BOOLEAN, NEW pointer \in Qvwm
        PROVE  /\ w \in alive => MapRequestResult(s, w, junk, pointer) \in To(v)
               /\ w \in alive \ s.qvwmList => CaptureResult(s, w, junk, pointer) \in To(v)
               /\ w \in s.qvwmList => MapNotifyResult(s, w) \in To(v)
    <2>1. s \in Sound({}) /\ s \in Kept /\ NoneLost(s)
      BY GoodGoesOn
    <2>2. w \in alive => Stern(s, MapRequestResult(s, w, junk, pointer))
      BY <1>2, <2>1, MapRequestSound
    <2>3. w \in alive \ s.qvwmList => Stern(s, CaptureResult(s, w, junk, pointer))
      BY <1>2, <2>1, CaptureSound
    <2>4. w \in s.qvwmList => Mild(s, MapNotifyResult(s, w))
      BY <1>2, <2>1, MapNotifySound
    <2>5. /\ w \in alive => MapRequestResult(s, w, junk, pointer) \in Kept
          /\ w \in alive \ s.qvwmList => CaptureResult(s, w, junk, pointer) \in Kept
          /\ w \in s.qvwmList => MapNotifyResult(s, w) \in Kept
      BY <1>1, <2>1 DEF Born
    <2> QED
      BY <2>2, <2>3, <2>4, <2>5, GoodGoesOn
  <1>5. ASSUME NEW s \in From(v), NEW w \in Window, NEW pointer \in Qvwm,
               w \in s.qvwmList \cap Leaving
        PROVE  /\ DestroyQvwm(s, w, pointer) \in To(v)
               /\ DestroyQvwm([s EXCEPT !.xmapped[w] = FALSE], w, pointer) \in To(v)
    <2> DEFINE t == [s EXCEPT !.xmapped[w] = FALSE]
    <2>1. s \in Sound({}) /\ s \in Kept /\ NoneLost(s)
      BY GoodGoesOn
    <2>2. /\ t \in Sound({}) /\ (Top(s) => Top(t)) /\ t.status = s.status
          /\ t.qvwmList = s.qvwmList /\ t.focusQvwm = s.focusQvwm
          /\ t.mapped = s.mapped /\ t.mapList = s.mapList
      <3>1. PICK b \in BOOLEAN : b = FALSE
        OBVIOUS
      <3> DEFINE y == [s EXCEPT !.xmapped[w] = b]
      <3>2. /\ y \in Sound({}) /\ (Top(s) => Top(y)) /\ y.status = s.status
            /\ y.qvwmList = s.qvwmList /\ y.focusQvwm = s.focusQvwm
            /\ y.mapped = s.mapped /\ y.mapList = s.mapList
        BY <2>1, ServerSound
      <3>3. y = t
        BY <3>1
      <3> HIDE DEF y, t
      <3> QED
        BY <3>2, <3>3
    <2>3. DestroyQvwm(s, w, pointer) \in Kept /\ DestroyQvwm(t, w, pointer) \in Kept
      BY <1>1, <1>5, <2>1 DEF Dead
    <2> HIDE DEF t
    <2>4. NoneLost(t)
      BY <2>1, <2>2, SameRestorable
    <2>5. Mild(s, DestroyQvwm(s, w, pointer)) /\ Mild(t, DestroyQvwm(t, w, pointer))
      BY <1>2, <1>5, <2>1, <2>2, <2>4, DestroySound
    <2>6. Mild(s, DestroyQvwm(t, w, pointer))
      BY <2>2, <2>5 DEF Mild, Fewer, Minimized
    <2>7. DestroyQvwm(s, w, pointer) \in To(v) /\ DestroyQvwm(t, w, pointer) \in To(v)
      BY <2>3, <2>5, <2>6, GoodGoesOn
    <2> QED
      BY <2>7 DEF t
  <1>6. Hidden(From(v), To(v))
    BY <1>3 DEF Hidden
  <1>7. Born(From(v), To(v))
    BY <1>4 DEF Born
  <1>8. Dead(From(v), To(v))
    BY <1>2, <1>5 DEF Dead
  <1> QED
    BY <1>6, <1>7, <1>8

\* Where a handler that found v ends is again good, and a window it minimized has
\* not the focus.
LEMMA FocusLeads ==
    ASSUME Steady, NEW v
    PROVE  Leads(From(v), To(v))
  <1>1. /\ Shown(From(v)) /\ Rolled(From(v)) /\ Flagged(From(v))
        /\ Hidden(From(v), To(v)) /\ Born(From(v), To(v)) /\ Dead(From(v), To(v))
    BY GoodShown, GoodHidden
  <1>2. From(v) \subseteq To(v)
    BY DEF From, To, Fewer, Fades
  <1>3. ASSUME NEW s \in To(v) PROVE [s EXCEPT !.frames = {}] \in To(v)
    <2> DEFINE t == [s EXCEPT !.frames = {}]
    <2>1. s \in Sound({}) /\ Top(s) /\ NoneLost(s) /\ Fades(v, s) /\ s \in Kept
      BY DEF To, Good, Kept, Sound
    <2>2. t \in Kept
      BY <2>1, KeptLeads DEF Steady, Leads
    <2>3. t \in Sound({}) /\ Top(t) /\ t.status = s.status /\ t.focusQvwm = s.focusQvwm
      <3>1. s \in State
        BY <2>1 DEF Sound
      <3>2. t \in Sound({}) /\ t.status = s.status /\ t.focusQvwm = s.focusQvwm
            /\ t.mapList = s.mapList
        <4>1. SameFocus(s, t) /\ t.status = s.status /\ t.flags = s.flags /\ t.flagsBak = s.flagsBak
          BY <3>1, PointerType, AssignFocus DEF State
        <4> HIDE DEF t
        <4>2. Willing(t)
          BY <2>1, <4>1 DEF Sound, Base, Willing
        <4> QED
          BY <2>1, <4>1, <4>2, AttributesSound DEF SameFocus
      <3> HIDE DEF t
      <3> QED
        BY <2>1, <3>2 DEF Top
    <2> HIDE DEF t
    <2>4. t \in To(v)
      BY <2>1, <2>2, <2>3 DEF To, Good, Kept, Fades, Minimized
    <2> QED
      BY <2>4 DEF t
  <1>4. From(v) \subseteq State /\ To(v) \subseteq State
    BY DEF From, To, Good, Sound
  <1> QED
    BY <1>1, <1>2, <1>3 DEF Leads
-----------------------------------------------------------------------------
\* qvwm starts with empty lists and the focus on the desktop.
LEMMA InitGood == Init => wm \in Good
  <1> SUFFICES ASSUME Init PROVE wm \in Good
    OBVIOUS
  <1>1. wm \in State
    BY InitType DEF TypeInv
  <1>2. /\ wm.qvwmList = {} /\ wm.focusQvwm = Root /\ wm.mapList = <<>> /\ wm.unmapList = <<>>
        /\ wm.mapped = [w \in Qvwm |-> w = Root] /\ wm.trList = [w \in Qvwm |-> {}]
        /\ wm.flags = [w \in Qvwm |-> {}] /\ wm.flagsBak = [w \in Qvwm |-> {}]
    BY DEF Init, InitState
  <1>3. Root \in Qvwm /\ Window \subseteq Qvwm /\ Root \notin Window
    BY PointerType, RootIsNoWindow
  <1>4. wm \in Tidy
    BY <1>1, <1>2 DEF Tidy
  <1>5. Base(wm, {})
    BY <1>2, <1>3, <1>4 DEF Base, Willing
  <1>6. /\ \A w : ~Has(wm.mapList, w) /\ ~Has(wm.unmapList, w)
        /\ \A w : /\ AtMostOnce(wm.mapList, w) /\ AtMostTwice(wm.mapList, w)
                  /\ AtMostOnce(wm.unmapList, w)
    BY <1>2 DEF Has, AtMostOnce, AtMostTwice
  <1>7. \A w \in Window : OnMapList(wm, w) /\ OnUnmapList(wm, w, {})
    BY <1>2, <1>6 DEF OnMapList, OnUnmapList
  <1>8. Top(wm) /\ NoneLost(wm)
    BY <1>2 DEF Top, NoneLost, Unlost
  <1> QED
    BY <1>1, <1>5, <1>7, <1>8 DEF Good, Sound

\* Every step leads from good to good, and takes the focus from what it minimizes.
LEMMA StepGood ==
    ASSUME Steady, TypeInv, LoopInv, wm \in Good, [Next]_vars
    PROVE  wm' \in Good /\ Fades(wm, wm')
  <1>1. wm \in Sound({}) /\ Top(wm) /\ NoneLost(wm)
    BY DEF Good
  <1>2. CASE UNCHANGED vars
    BY <1>2 DEF vars, Fades
  <1>3. CASE ClientStep
    <2>1. PICK w \in Window, b \in BOOLEAN : wm' \in {wm, [wm EXCEPT !.xmapped[w] = b]}
      BY <1>3, ClientEffect
    <2>2. CASE wm' = wm
      BY <2>2 DEF Fades
    <2>3. CASE wm' = [wm EXCEPT !.xmapped[w] = b]
      <3> DEFINE t == [wm EXCEPT !.xmapped[w] = b]
      <3>1. /\ t \in Sound({}) /\ (Top(wm) => Top(t)) /\ t.status = wm.status
            /\ t.qvwmList = wm.qvwmList /\ t.focusQvwm = wm.focusQvwm
            /\ t.mapped = wm.mapped /\ t.mapList = wm.mapList
        BY <1>1, ServerSound
      <3> HIDE DEF t
      <3>2. NoneLost(t)
        BY <1>1, <3>1, SameRestorable
      <3>3. t \in Good /\ Fades(wm, t)
        BY <1>1, <3>1, <3>2 DEF Good, Fades, Minimized
      <3> QED
        BY <2>3, <3>3 DEF t
    <2> QED
      BY <2>1, <2>2, <2>3
  <1>4. CASE Next /\ ~ClientStep
    <2>1. wm \in From(wm)
      BY DEF From, Fewer
    <2>2. Leads(From(wm), To(wm)) /\ From(wm) \in SUBSET State /\ To(wm) \in SUBSET State
      <3>1. From(wm) \in SUBSET State /\ To(wm) \in SUBSET State
        BY DEF From, To, Good, Sound
      <3> QED
        BY <3>1, FocusLeads
    <2>3. wm' \in To(wm)
      BY <1>4, <2>1, <2>2, HandlersLead
    <2> QED
      BY <2>3 DEF To
  <1> QED
    BY <1>2, <1>3, <1>4

\* Good is an invariant.
LEMMA GoodCorrect ==
    ASSUME Steady
    PROVE  Spec => [](wm \in Good)
  <1>1. Init => wm \in Good
    BY InitGood
  <1>2. TypeInv /\ LoopInv /\ wm \in Good /\ [Next]_vars => (wm \in Good)'
    BY StepGood
  <1> QED
    BY <1>1, <1>2, TypeCorrect, PTL DEF Spec

\* Where a click gives the focus, the focused main window is the top of the stack
\* that RollFocus turns and YieldFocus pops, whichever handler moved the focus.
THEOREM FocusIsTopCorrect ==
    ASSUME Steady, ClickToFocus
    PROVE  Spec => []FocusIsTop
  <1>1. TypeInv /\ wm \in Good => FocusIsTop
    <2> SUFFICES ASSUME TypeInv, wm \in Good PROVE FocusIsTop
      OBVIOUS
    <2>1. wm.mapList \in Seq(Window) /\ Top(wm)
      BY DEF TypeInv, State, Good
    <2>2. wm.mapList # <<>> => GetHead(wm.mapList) = wm.mapList[1]
      BY <2>1 DEF GetHead
    <2> QED
      BY <2>1, <2>2 DEF Top, FocusIsTop
  <1> QED
    BY <1>1, TypeCorrect, GoodCorrect, PTL

\* Whichever function minimizes a window, and in whatever state, the focus is not
\* on that window when the handler ends: YieldFocus finds another window or the
\* desktop to give it to, and no later call of the handler gives it back.
THEOREM MinimizeYieldsCorrect ==
    ASSUME Steady
    PROVE  Spec => MinimizeYieldsFocus
  <1>1. TypeInv /\ LoopInv /\ wm \in Good /\ [Next]_vars =>
          [\A w \in Window : ~Minimized(wm, w) /\ Minimized(wm', w) => wm'.focusQvwm # w]_vars
    BY StepGood DEF Fades
  <1> QED
    BY <1>1, TypeCorrect, GoodCorrect, PTL DEF Spec, MinimizeYieldsFocus

\* focusQvwm and mapList never lead to a deleted Qvwm, whatever the hints: the Qvwm
\* that MapNotifyProc deletes under Override is the only one that can be left there.
THEOREM FocusYieldedCorrect ==
    ASSUME Steady
    PROVE  Spec => [](FocusYielded /\ \A i \in DOMAIN wm.mapList : wm.mapList[i] \in wm.qvwmList)
  <1>1. TypeInv /\ wm \in Good =>
          FocusYielded /\ \A i \in DOMAIN wm.mapList : wm.mapList[i] \in wm.qvwmList
    <2> SUFFICES ASSUME TypeInv, wm \in Good
                 PROVE  FocusYielded /\ \A i \in DOMAIN wm.mapList : wm.mapList[i] \in wm.qvwmList
      OBVIOUS
    <2>1. Base(wm, {}) /\ \A w \in Window : OnMapList(wm, w)
      BY DEF Good, Sound
    <2>2. FocusYielded
      BY <2>1 DEF Base, FocusYielded
    <2>3. ASSUME NEW i \in DOMAIN wm.mapList PROVE wm.mapList[i] \in wm.qvwmList
      <3>1. wm.mapList[i] \in Window
        BY DEF TypeInv, State
      <3>2. Has(wm.mapList, wm.mapList[i])
        BY DEF Has
      <3> QED
        BY <2>1, <3>1, <3>2 DEF OnMapList
    <2> QED
      BY <2>2, <2>3
  <1> QED
    BY <1>1, TypeCorrect, GoodCorrect, PTL

\* A main window is on mapList while it is mapped and on unmapList, once, while it is
\* not; a transient window is on neither, but for one found iconic; and a window that
\* is not managed is on none: where no window refuses the focus or starts minimized
\* or maximized.
THEOREM FocusListsCorrect ==
    ASSUME Steady, Settled
    PROVE  Spec => []FocusLists
  <1>1. wm \in Good => FocusLists
    <2> SUFFICES ASSUME wm \in Good PROVE FocusLists
      OBVIOUS
    <2>1. /\ wm.qvwmList \subseteq Window
          /\ \A w \in Window : OnMapList(wm, w) /\ OnUnmapList(wm, w, {})
      BY DEF Good, Sound, State
    <2>2. ASSUME NEW w \in wm.qvwmList
          PROVE  IF IsTransient(w) THEN ~Has(wm.mapList, w) /\ AtMostOnce(wm.unmapList, w)
                 ELSE OnFocusList(w)
      BY <2>1 DEF OnMapList, OnUnmapList, OnFocusList, CheckMapped
    <2>3. ASSUME NEW w \in Window \ wm.qvwmList
          PROVE  ~Has(wm.mapList, w) /\ ~Has(wm.unmapList, w)
      BY <2>1 DEF OnMapList, OnUnmapList
    <2> QED
      BY <2>2, <2>3 DEF FocusLists
  <1> QED
    BY <1>1, GoodCorrect, PTL

\* No pointer qvwm keeps leads to a deleted Qvwm: whatever order windows are mapped,
\* minimized, rolled and destroyed in, Event::DestroyQvwm clears the last one.
THEOREM NoDanglingCorrect ==
    ASSUME Steady, Settled, NoNested
    PROVE  Spec => []NoDangling
  <1>1. TypeInv /\ wm \in Good /\ TransientLinks => NoDangling
    <2> SUFFICES ASSUME TypeInv, wm \in Good, TransientLinks PROVE NoDangling
      OBVIOUS
    <2>1. /\ Base(wm, {})
          /\ \A w \in Window : OnMapList(wm, w) /\ OnUnmapList(wm, w, {})
      BY DEF Good, Sound
    <2>2. /\ \A i \in DOMAIN wm.mapList : wm.mapList[i] \in Window
          /\ \A i \in DOMAIN wm.unmapList : wm.unmapList[i] \in Window
      BY DEF TypeInv, State
    <2>3. /\ \A i \in DOMAIN wm.mapList : Has(wm.mapList, wm.mapList[i])
          /\ \A i \in DOMAIN wm.unmapList : Has(wm.unmapList, wm.unmapList[i])
      BY DEF Has
    <2>4. /\ \A i \in DOMAIN wm.mapList : wm.mapList[i] \in wm.qvwmList
          /\ \A i \in DOMAIN wm.unmapList : wm.unmapList[i] \in wm.qvwmList
      BY <2>1, <2>2, <2>3 DEF OnMapList, OnUnmapList
    <2>5. \A w \in wm.qvwmList : wm.qvMain[w] \in wm.qvwmList \cup {Root, NULL}
      BY DEF TransientLinks, Managed
    <2>6. wm.focusQvwm \in wm.qvwmList \cup {Root}
      BY <2>1 DEF Base
    <2> QED
      BY <2>4, <2>5, <2>6 DEF NoDangling, PointersValid
  <1> QED
    BY <1>1, TypeCorrect, GoodCorrect, LinksCorrect, PTL
=============================================================================
