------------------------------ MODULE WindowOps ------------------------------
(***************************************************************************)
(* The state that class Qvwm, FocusMgr and Desktop share about the managed *)
(* windows, and the member functions that change it: focus.cc,             *)
(* focus_mgr.cc, window.cc, resize_sp.cc, the constructor and destructor   *)
(* of qvwm.cc.  Each operator takes the state s and returns the state the  *)
(* function leaves, the calls it makes included.                           *)
(*                                                                         *)
(* Abstracted: geometry, drawing, sound, stacking order and the pager.     *)
(***************************************************************************)
EXTENDS QvList

CONSTANTS
    Window,          \* client windows (their X ids)
    Root,            \* rootQvwm
    NULL,
    TransientFor,    \* WM_TRANSIENT_FOR of each window, NULL when it has none
    InitFlags,       \* NO_FOCUS and NO_TBUTTON, as the hints and qvwmrc give them
    ClickToFocus

ASSUME RootIsNoWindow == Root \notin Window /\ NULL \notin Window \cup {Root}
ASSUME HintsType ==
    /\ TransientFor \in [Window -> Window \cup {Root, NULL}]
    /\ InitFlags \in [Window -> SUBSET {"NO_FOCUS", "NO_TBUTTON"}]
    /\ ClickToFocus \in BOOLEAN
\* MapWindow and UnmapWindow recur along trList and never mark where they were.
ASSUME TransientForest ==
    \A S \in SUBSET Window : S = {} \/ \E w \in S : TransientFor[w] \notin S

Qvwm == Window \cup {Root}
Flag == {"NO_FOCUS", "NO_TBUTTON"}
Status == {"MINIMIZE_WINDOW", "MAXIMIZE_WINDOW"}

IsTransient(w) == w # Root /\ TransientFor[w] # NULL

State ==
    [ qvwmList  : SUBSET Window,                       \* Desktop::qvwmList
      mapped    : [Qvwm -> BOOLEAN],
      trMapped  : [Qvwm -> BOOLEAN],
      status    : [Qvwm -> SUBSET Status],
      flags     : [Qvwm -> SUBSET Flag],
      flagsBak  : [Qvwm -> SUBSET Flag],
      qvMain    : [Qvwm -> Window \cup {Root, NULL}],
      trList    : [Qvwm -> SUBSET Window],
      mapList   : Seq(Window),                         \* FocusMgr
      unmapList : Seq(Window),
      focusQvwm : Qvwm,
      xmapped   : [Window -> BOOLEAN],                 \* the server's map state of wOrig
      frames    : SUBSET Window ]                      \* frames this handler has mapped

\* What main.cc leaves before CaptureAllWindows: the root Qvwm alone, focused.
InitState(mappedOnServer) ==
    [ qvwmList  |-> {},
      mapped    |-> [w \in Qvwm |-> w = Root],
      trMapped  |-> [w \in Qvwm |-> FALSE],
      status    |-> [w \in Qvwm |-> {}],
      flags     |-> [w \in Qvwm |-> {}],
      flagsBak  |-> [w \in Qvwm |-> {}],
      qvMain    |-> [w \in Qvwm |-> NULL],
      trList    |-> [w \in Qvwm |-> {}],
      mapList   |-> <<>>,
      unmapList |-> <<>>,
      focusQvwm |-> Root,
      xmapped   |-> [w \in Window |-> w \in mappedOnServer],
      frames    |-> {} ]

CheckMapped(s, w) == s.mapped[w]
Minimized(s, w) == "MINIMIZE_WINDOW" \in s.status[w]
Maximized(s, w) == "MAXIMIZE_WINDOW" \in s.status[w]
-----------------------------------------------------------------------------
(* Input focus: focus_mgr.cc and focus.cc *)

\* Mutant: SetFocus without Remove and Push.
FocusMgrSetFocusNoPush(s, w) == [s EXCEPT !.focusQvwm = w]

FocusMgrSetFocus(s, w) ==
    [s EXCEPT !.focusQvwm = w,
              !.mapList = IF w = Root \/ IsTransient(w) THEN @
                          ELSE InsertHead(Remove(@, w), w)]

SetFocus(s, w) ==
    IF w = s.focusQvwm \/ "NO_FOCUS" \in s.flags[w] THEN s ELSE FocusMgrSetFocus(s, w)

\* The windows MapWindow and UnmapWindow reach from w: its transients that are
\* marked trMapped, theirs, and so on.
Transients == {x \in Window : IsTransient(x)}
Cascade(s, w) ==
    {w} \cup {x \in Transients : \A C \in SUBSET Transients :
        (\A y \in {w} \cup C : \A t \in s.trList[y] : s.trMapped[t] => t \in C) => x \in C}

Reached(s, w, transients) == IF transients THEN Cascade(s, w) ELSE {w}

MapWindow(s, w, mapTransient) ==
    LET R == Reached(s, w, mapTransient)
    IN  [s EXCEPT !.mapped = [x \in Qvwm |-> x \in R \/ s.mapped[x]],
                  !.xmapped = [x \in Window |-> x \in R \/ s.xmapped[x]],
                  !.frames = @ \cup {x \in Window : x \in R /\ ~s.mapped[x]}]

\* Mutant: without RemoveUnmapList.
MapWindowsKeepUnmapList(s, w, mapTransient) ==
    IF CheckMapped(s, w) THEN s
    ELSE LET t == [MapWindow(s, w, mapTransient) EXCEPT !.trMapped[w] = TRUE]
         IN  IF "NO_FOCUS" \in s.flags[w] \/ IsTransient(w) THEN t
             ELSE [t EXCEPT !.mapList = InsertHead(@, w)]

MapWindows(s, w, mapTransient) ==
    IF CheckMapped(s, w) THEN s
    ELSE LET t == [MapWindow(s, w, mapTransient) EXCEPT !.trMapped[w] = TRUE]
         IN  IF "NO_FOCUS" \in s.flags[w] \/ IsTransient(w) THEN t
             ELSE [t EXCEPT !.unmapList = Remove(@, w), !.mapList = InsertHead(@, w)]

UnmapWindow(s, w, unmapTransient) ==
    LET R == Reached(s, w, unmapTransient)
    IN  [s EXCEPT !.mapped = [x \in Qvwm |-> x \notin R /\ s.mapped[x]],
                  !.xmapped = [x \in Window |-> x \notin R /\ s.xmapped[x]]]

UnmapWindows(s, w, unmapTransient) ==
    IF ~CheckMapped(s, w) THEN s
    ELSE LET t == [UnmapWindow(s, w, unmapTransient) EXCEPT !.trMapped[w] = FALSE]
         IN  IF IsTransient(w) THEN t
             ELSE [t EXCEPT !.mapList = Remove(@, w), !.unmapList = InsertTail(@, w)]
-----------------------------------------------------------------------------
(* Special resizing: resize_sp.cc *)

\* Mutant: without MapWindows.
RestoreWindowNoMap(s, w, mapTransient) ==
    IF w = Root \/ s.status[w] = {} THEN s
    ELSE SetFocus([s EXCEPT !.status[w] = @ \ {"MINIMIZE_WINDOW"}], w)

\* min -> max keeps the flags; min -> normal and max -> normal take flagsBak.
RestoreWindow(s, w, mapTransient) ==
    IF w = Root \/ s.status[w] = {} THEN s
    ELSE LET t == IF Minimized(s, w) /\ Maximized(s, w)
                  THEN [s EXCEPT !.status[w] = {"MAXIMIZE_WINDOW"}]
                  ELSE [s EXCEPT !.status[w] = {}, !.flags[w] = s.flagsBak[w]]
         IN  SetFocus(MapWindows(t, w, mapTransient), w)

\* Mutant: without MapWindows.
MaximizeWindowNoMap(s, w, mapTransient) ==
    IF w = Root \/ Maximized(s, w) THEN s
    ELSE SetFocus([s EXCEPT !.status[w] = {"MAXIMIZE_WINDOW"},
                            !.flagsBak[w] = IF Minimized(s, w) THEN @ ELSE s.flags[w]], w)

MaximizeWindow(s, w, mapTransient) ==
    IF w = Root \/ Maximized(s, w) THEN s
    ELSE LET t == [s EXCEPT !.status[w] = {"MAXIMIZE_WINDOW"},
                            !.flagsBak[w] = IF Minimized(s, w) THEN @ ELSE s.flags[w]]
         IN  SetFocus(MapWindows(t, w, mapTransient), w)

\* Off the screen ExpandWindow returns at once, which leaves s.
ExpandWindow(s, w) ==
    IF w = Root THEN s ELSE SetFocus(MapWindows(s, w, TRUE), w)

YieldFocus(s, w) ==
    LET t == [s EXCEPT !.mapList = IF Has(@, w) THEN InsertTail(Remove(@, w), w) ELSE @]
        next == IF t.mapList = <<>> \/ Head(t.mapList) = w THEN Root ELSE Head(t.mapList)
    IN  IF w # s.focusQvwm THEN t
        ELSE IF ~ClickToFocus THEN SetFocus(t, Root)
        ELSE IF CheckMapped(t, next) THEN SetFocus(t, next)
        ELSE RestoreWindow(t, next, TRUE)

\* pointer is where XQueryPointer finds the cursor: an unmapped frame cannot hold it.
ChangeFocusToCursor(s, pointer) ==
    SetFocus(s, IF pointer # Root /\ CheckMapped(s, pointer) THEN pointer ELSE Root)

\* Mutant: without YieldFocus.
MinimizeWindowNoYield(s, w, unmapTransient, pointer) ==
    IF w = Root \/ Minimized(s, w) \/ "NO_TBUTTON" \in s.flags[w] THEN s
    ELSE UnmapWindows([s EXCEPT !.status[w] = @ \cup {"MINIMIZE_WINDOW"}], w, unmapTransient)

MinimizeWindow(s, w, unmapTransient, pointer) ==
    IF w = Root \/ Minimized(s, w) \/ "NO_TBUTTON" \in s.flags[w] THEN s
    ELSE LET t == [s EXCEPT !.status[w] = @ \cup {"MINIMIZE_WINDOW"},
                            !.flagsBak[w] = IF Maximized(s, w) THEN @ ELSE s.flags[w]]
             u == UnmapWindows(YieldFocus(t, w), w, unmapTransient)
         IN  IF ClickToFocus THEN u ELSE ChangeFocusToCursor(u, pointer)
-----------------------------------------------------------------------------
(* Birth and death of a Qvwm: qvwm.cc *)

\* GetTransientForHint finds a main window that is already managed, SetTransient
\* the transients that came before their main window.  trMapped is not
\* initialized: junk is what the new object's memory held.
NewQvwm(s, w, junk) ==
    LET leader == IF TransientFor[w] \in s.qvwmList \cup {Root} THEN TransientFor[w] ELSE NULL
        orphans == {x \in s.qvwmList :
                       IsTransient(x) /\ s.qvMain[x] = NULL /\ TransientFor[x] = w}
    IN  [s EXCEPT !.qvwmList = @ \cup {w},
                  !.mapped[w] = FALSE,
                  !.trMapped[w] = junk,
                  !.status[w] = {},
                  !.flags[w] = InitFlags[w],
                  !.qvMain = [x \in Qvwm |-> IF x = w THEN leader
                                             ELSE IF x \in orphans THEN w ELSE s.qvMain[x]],
                  !.trList = [x \in Qvwm |-> (IF x = w THEN orphans ELSE s.trList[x])
                                             \cup (IF x = leader THEN {w} ELSE {})]]

\* Mutant: the transients keep the qvMain that is deleted.
DeleteQvwmKeepMain(s, w) ==
    LET leader == s.qvMain[w]
    IN  [s EXCEPT !.qvwmList = @ \ {w},
                  !.mapped[w] = FALSE, !.trMapped[w] = FALSE, !.status[w] = {},
                  !.flags[w] = {}, !.flagsBak[w] = {}, !.qvMain[w] = NULL,
                  !.trList = [x \in Qvwm |->
                      IF x = w THEN {} ELSE IF x = leader THEN s.trList[x] \ {w}
                      ELSE s.trList[x]]]

\* The destructor, and the state of the freed object back to its default.
DeleteQvwm(s, w) ==
    LET leader == s.qvMain[w]
        linked == IsTransient(w) /\ leader # NULL
    IN  [s EXCEPT !.qvwmList = @ \ {w},
                  !.mapped[w] = FALSE,
                  !.trMapped[w] = FALSE,
                  !.status[w] = {},
                  !.flags[w] = {},
                  !.flagsBak[w] = {},
                  !.qvMain = [x \in Qvwm |->
                      IF x = w \/ (~linked /\ x \in s.trList[w]) THEN NULL ELSE s.qvMain[x]],
                  !.trList = [x \in Qvwm |->
                      IF x = w THEN {} ELSE IF linked /\ x = leader THEN s.trList[x] \ {w}
                      ELSE s.trList[x]]]

\* Mutant: without RemoveUnmapList and Remove.
DestroyQvwmKeepLists(s, w, pointer) ==
    LET t == IF w = s.focusQvwm THEN YieldFocus(s, w) ELSE s
    IN  DeleteQvwm(UnmapWindows(t, w, TRUE), w)

\* Mutant: the focus is cleared, not yielded.
DestroyQvwmNoFocus(s, w, pointer) ==
    LET u == UnmapWindows(s, w, TRUE)
        v == [u EXCEPT !.unmapList = Remove(@, w), !.mapList = Remove(@, w),
                       !.focusQvwm = IF @ = w THEN NULL ELSE @]
    IN  DeleteQvwm(v, w)

\* Event::DestroyQvwm
DestroyQvwm(s, w, pointer) ==
    LET t == IF w = s.focusQvwm THEN YieldFocus(s, w) ELSE s
        u == UnmapWindows(t, w, TRUE)
        v == [u EXCEPT !.unmapList = Remove(@, w), !.mapList = Remove(@, w)]
        d == DeleteQvwm(v, w)
    IN  IF w = s.focusQvwm /\ ~ClickToFocus THEN ChangeFocusToCursor(d, pointer) ELSE d
=============================================================================
