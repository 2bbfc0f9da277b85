----------------------------- MODULE TaskSwitcher -----------------------------
(***************************************************************************)
(* The task switcher: Q_SWITCH_TASK maps a list of all the tasks and runs  *)
(* an event loop of its own, in which the key moves a highlight along the  *)
(* list and the release of the modifier switches to the task chosen.  The  *)
(* events of other windows are dispatched meanwhile, by the same handlers  *)
(* as in MainLoop, so windows appear, go and change places in the lists    *)
(* the switcher walks; the timer of MainLoop stands still.                 *)
(***************************************************************************)
EXTENDS Stacking, Integers

CONSTANTS
    Toggled,         \* windows whose layer is changed, and in which a page
                     \* switch may leave the pointer
    ToggleIconic,    \* also while they are minimized
    MaxDestroyed     \* bound of the model: windows whose clients destroy them

ASSUME SwitcherType == Toggled \subseteq Window /\ ToggleIconic \in BOOLEAN /\ MaxDestroyed \in Nat

VARIABLES
    s,       \* the state of WindowOps and Stacking
    sw,      \* the TaskSwitcher
    input,   \* the window the server sends keys to
    gone     \* destroyed windows, each with its DestroyNotify to come or not

vars == <<s, sw, input, gone>>

Switcher == "switcher"

\* look: LookMapList.  atMap, atUnmap: the window at which iterMap and iterUnmap
\* stand, NULL when they stand nowhere or on an item freed since.  named: the
\* task the item painted as chosen names, NULL before any is drawn.  intact (a history
\* variable): no list has changed since the items were made.
SwitcherState ==
    [ open : BOOLEAN, qvWm : Window \cup {NULL}, focusWin : Nat,
      winNum : Nat, look : BOOLEAN, forward : BOOLEAN,
      atMap : Window \cup {NULL}, atUnmap : Window \cup {NULL},
      named : Window \cup {NULL}, intact : BOOLEAN ]

\* With qvWm NULL the next list sets the other fields anew: they start equal here.
NoSwitcher ==
    [open |-> FALSE, qvWm |-> NULL, focusWin |-> 0, winNum |-> 0, look |-> FALSE,
     forward |-> TRUE, atMap |-> NULL, atUnmap |-> NULL, named |-> NULL, intact |-> FALSE]

\* Where a list has changed under it the walk may stand on a freed item, on one
\* that has moved or on one that has not: from there on the model lets the key
\* lead to any task, and forgets the count.
Loose(t) ==
    [t EXCEPT !.focusWin = 0, !.atMap = NULL, !.atUnmap = NULL, !.named = NULL, !.intact = FALSE]

TaskList(st) == st.mapList \o st.unmapList

\* A freed Qvwm (on a list of FocusMgr, focused or on top) or StackWindows past its
\* array: the model stops there, and where a list holds a window twice (after Switch
\* has focused a lone iconic task and restored it), since an iterator's place is
\* told by the window.
Defined ==
    /\ \A w \in s.qvwmList : AtMostOnce(TaskList(s), w)
    /\ \A i \in DOMAIN TaskList(s) : TaskList(s)[i] \in s.qvwmList
    /\ s.focusQvwm \in s.qvwmList \cup {Root}
    /\ \A i \in DOMAIN s.onTopList : s.onTopList[i] \in s.qvwmList
    /\ ~s.overrun

Init ==
    /\ s = [f \in DOMAIN InitState({}) \cup DOMAIN InitStack |->
               IF f \in DOMAIN InitStack THEN InitStack[f] ELSE InitState({})[f]]
    /\ sw = NoSwitcher
    /\ input = Root
    /\ gone = [pending |-> {}, noticed |-> {}]
-----------------------------------------------------------------------------
(* The walk along mapList and unmapList *)

Advance(q, i, step) == IF i + step \in DOMAIN q THEN q[i + step] ELSE NULL
HeadOf(q) == IF q = <<>> THEN NULL ELSE GetHead(q)
TailOf(q) == IF q = <<>> THEN NULL ELSE GetTail(q)

\* GetNextFocus and GetPrevFocus: one list to its end, then the other from its start.
Walk(t, st) ==
    LET step == IF t.forward THEN 1 ELSE -1
        First(q) == IF t.forward THEN HeadOf(q) ELSE TailOf(q)
        here == IF t.look THEN st.mapList ELSE st.unmapList
        there == IF t.look THEN st.unmapList ELSE st.mapList
        at == IF t.look THEN t.atMap ELSE t.atUnmap
        next == Advance(here, FirstIndex(here, at), step)
        onMap == IF next # NULL \/ there = <<>> THEN t.look ELSE ~t.look
        found == IF next # NULL THEN next ELSE IF there # <<>> THEN First(there) ELSE First(here)
    IN  [t EXCEPT !.qvWm = found, !.look = onMap,
                  !.atMap = IF onMap THEN found ELSE IF t.look THEN NULL ELSE @,
                  !.atUnmap = IF onMap THEN (IF t.look THEN @ ELSE NULL) ELSE found]

\* Mutant: the window that has the focus is offered first.
GetFirstFocusSelf(t, st) ==
    IF st.mapList = <<>>
    THEN [t EXCEPT !.qvWm = GetHead(st.unmapList), !.look = FALSE, !.atMap = NULL,
                   !.atUnmap = GetHead(st.unmapList)]
    ELSE [t EXCEPT !.qvWm = GetHead(st.mapList), !.look = TRUE, !.atMap = GetHead(st.mapList)]

GetFirstFocus(t, st) ==
    IF st.mapList = <<>>
    THEN [t EXCEPT !.qvWm = GetHead(st.unmapList), !.look = FALSE, !.atMap = NULL,
                   !.atUnmap = GetHead(st.unmapList)]
    ELSE LET h == GetHead(st.mapList)
             u == [t EXCEPT !.qvWm = h, !.look = TRUE, !.atMap = h]
         IN  IF st.focusQvwm = h THEN Walk(u, st) ELSE u

\* Mutant: backwards, the item before the first.
OpenListBelow(t, st, num, isKept) ==
    LET u == [t EXCEPT !.open = TRUE, !.winNum = num, !.named = NULL, !.intact = t.qvWm = NULL]
    IN  IF t.qvWm # NULL THEN u
        ELSE [GetFirstFocus(u, st) EXCEPT !.focusWin = IF t.forward THEN 1 ELSE -1]

\* MapSwitcher, SetInputFocus and the choice of the first task.
OpenList(t, st, num, isKept) ==
    LET u == [t EXCEPT !.open = TRUE, !.winNum = num, !.named = NULL,
                       !.intact = t.qvWm = NULL \/ isKept]
    IN  IF t.qvWm # NULL THEN (IF isKept THEN u ELSE Loose(u))
        ELSE [GetFirstFocus(u, st) EXCEPT
                 !.focusWin = IF st.focusQvwm = Root THEN 0
                              ELSE IF t.forward THEN 1 ELSE num - 1]

\* The end of every way to a window: focus it and raise it, or restore it.
SwitchTo(st, w) ==
    LET t == SetFocus(st, w)
    IN  IF CheckMapped(st, w) THEN RaiseWindow(t, w, TRUE) ELSE Restore(t, w)

\* A lone task is switched to at once, and stays in qvWm.
Switch(t, st, isKept) ==
    LET num == Len(TaskList(st))
        lone == IF st.mapList # <<>> THEN GetHead(st.mapList) ELSE GetHead(st.unmapList)
    IN  IF num = 0 THEN [sw |-> [t EXCEPT !.winNum = 0], s |-> st]
        ELSE IF num = 1 THEN [sw |-> [t EXCEPT !.winNum = 1, !.qvWm = lone],
                                  s |-> SwitchTo(st, lone)]
        ELSE [sw |-> OpenList(t, st, num, isKept), s |-> st]

\* Unmap
Closed(t) == [t EXCEPT !.open = FALSE, !.named = NULL, !.intact = FALSE]

\* FindApplication walks mapList in both its passes.
Found(t, st) == t.qvWm # NULL /\ Has(st.mapList, t.qvWm)

Restart(t, st) ==
    LET u == [Closed(t) EXCEPT !.atMap = NULL, !.atUnmap = NULL]
    IN  IF Found(t, st)
        THEN Switch([u EXCEPT !.atMap = t.qvWm, !.focusWin = FirstIndex(st.mapList, t.qvWm) - 1],
                    st, TRUE)
        ELSE Switch([u EXCEPT !.atMap = HeadOf(st.mapList), !.qvWm = NULL], st, FALSE)
-----------------------------------------------------------------------------
(* The handlers of other windows' events, which both event loops call *)

InputAfter(t) == IF t.focusQvwm # s.focusQvwm THEN t.focusQvwm ELSE input

\* Which items of the lists a handler that leaves t has linked anew: those of the
\* window it is about and of the window that gets the focus.
Relinked(t, w) ==
    IF <<t.mapList, t.unmapList, t.focusQvwm>> = <<s.mapList, s.unmapList, s.focusQvwm>> THEN {}
    ELSE {w} \cup ({t.focusQvwm} \ {s.focusQvwm})

Disturbed(t, w) == IF sw.qvWm = NULL \/ Relinked(t, w) = {} THEN sw ELSE Loose(sw)

Handle(t, w) ==
    /\ Defined
    /\ s' = [t EXCEPT !.frames = {}]
    /\ sw' = Disturbed(t, w)
    /\ input' = InputAfter(t)

Pointer == IF ClickToFocus THEN {Root} ELSE Window \cup {Root}

MapRequestProc(w) ==
    LET t == MapRaised(New(s, w), w)
    IN  /\ w \notin s.qvwmList \cup gone.pending \cup gone.noticed
        /\ Handle(IF ClickToFocus THEN SetFocus(t, w) ELSE t, w)
        /\ UNCHANGED gone

\* The client withdraws the window, and has destroyed it or does so later: the
\* DestroyNotify may be long in coming.
UnmapNotifyProc(w) ==
    /\ w \in s.qvwmList /\ CheckMapped(s, w) /\ w \notin gone.pending
    /\ Cardinality(gone.pending \cup gone.noticed) < MaxDestroyed
    /\ \E pointer \in Pointer : Handle(Destroy(s, w, pointer), w)
    /\ gone' = [gone EXCEPT !.pending = @ \cup {w}]

\* An iconic window is destroyed without an UnmapNotify.
ClientDestroy(w) ==
    /\ w \in s.qvwmList /\ ~CheckMapped(s, w) /\ w \notin gone.pending
    /\ Cardinality(gone.pending \cup gone.noticed) < MaxDestroyed
    /\ gone' = [gone EXCEPT !.pending = @ \cup {w}]
    /\ UNCHANGED <<s, sw, input>>

\* The loop of the switcher reads the number of tasks before it dispatches the
\* event and starts again when that is not the number it shows.
RestartIfStale(t, w) ==
    /\ Defined
    /\ IF sw.open /\ Len(TaskList(s)) # sw.winNum
       THEN \E r \in {Restart(sw, t)} :
              /\ s' = [r.s EXCEPT !.frames = {}] /\ sw' = r.sw
              /\ input' = IF r.sw.open THEN Switcher ELSE r.s.focusQvwm
       ELSE Handle(t, w)

DestroyNotifyProc(w) ==
    /\ w \in gone.pending
    /\ gone' = [pending |-> gone.pending \ {w}, noticed |-> gone.noticed \cup {w}]
    /\ RestartIfStale(IF w \in s.qvwmList THEN Destroy(s, w, Root) ELSE s, w)

\* Any client creates any window.
CreateNotify == sw.open /\ \E w \in Window : RestartIfStale(s, w) /\ UNCHANGED gone

Managed(w) == w \in s.qvwmList
Act(t, w) == Handle(t, w) /\ UNCHANGED gone

Button1Press(w) == Managed(w) /\ CheckMapped(s, w) /\ Act(RaiseWindow(SetFocus(s, w), w, TRUE), w)
Button2Release(w) == Managed(w) /\ CheckMapped(s, w) /\ Act(LowerWindow(s, w), w)
WM_CHANGE_STATE(w) == Managed(w) /\ \E pointer \in Pointer : Act(Minimize(s, w, pointer), w)
TaskbarButton(w) == Managed(w) /\ ~IsTransient(w) /\ Minimized(s, w) /\ Act(Restore(s, w), w)
MayToggle(w) == w \in Toggled /\ (ToggleIconic \/ ~Minimized(s, w))

Layer(w) ==
    \E layer \in {"WIN_LAYER_BELOW", "WIN_LAYER_NORMAL", "WIN_LAYER_ONTOP"} :
        Managed(w) /\ MayToggle(w) /\ Act(ProcessLayerChange(s, w, layer), w)
\* Bound of the model: one callout at a time.
SwitchPage(pointer) ==
    pointer \in Toggled /\ Managed(pointer) /\ ~sw.open /\ s.soon = {} /\ Act(FocusToCursor(s, pointer), pointer)
DesktopFocus == Handle(SetFocus(s, Root), Root) /\ UNCHANGED gone
ToggleOnTop(w) ==
    Managed(w) /\ MayToggle(w) /\ ~sw.open /\ Act(IF w \in s.ontop THEN ResetOnTop(s, w) ELSE SetOnTop(s, w), w)

\* The callout of a deleted window reads freed memory.
RaiseSoonCallout(w) == w \in s.soon /\ Managed(w) /\ ~sw.open /\ Act(RaiseSoon(s, w), w)
-----------------------------------------------------------------------------
(* The events of the switcher itself *)

SwitchTask(forward) ==
    /\ Defined /\ ~sw.open
    /\ \E r \in {Switch([sw EXCEPT !.forward = forward], s, FALSE)} :
         /\ s' = [r.s EXCEPT !.frames = {}] /\ sw' = r.sw
         /\ input' = IF r.sw.open THEN Switcher ELSE InputAfter(r.s)
    /\ UNCHANGED gone

\* DrawSwitcherContents; past winNum it draws in windows that are not there.
Expose ==
    /\ Defined /\ sw.open /\ Len(TaskList(s)) <= sw.winNum
    /\ sw' = IF sw.intact THEN [sw EXCEPT !.named = TaskList(s)[sw.focusWin + 1]] ELSE sw
    /\ UNCHANGED <<s, input, gone>>

StandsSomewhere == (IF sw.look THEN sw.atMap ELSE sw.atUnmap) # NULL

PressTo(t, focusWin) ==
    /\ Defined /\ sw.open /\ Managed(sw.qvWm)
    /\ sw' = [t EXCEPT !.focusWin = focusWin, !.named = IF t.intact THEN t.qvWm ELSE NULL]
    /\ UNCHANGED <<s, input, gone>>

KeyPress ==
    \/ /\ sw.intact /\ StandsSomewhere
       /\ PressTo(Walk(sw, s), (sw.focusWin + (IF sw.forward THEN 1 ELSE sw.winNum - 1)) % sw.winNum)
    \/ /\ sw.open /\ ~sw.intact
       /\ \E w \in s.qvwmList : Has(TaskList(s), w) /\ PressTo(Loose([sw EXCEPT !.qvWm = w]), 0)

\* Escape closes the list; with ClickToFocus the keys go to the task it showed.
Escape ==
    /\ Defined /\ sw.open /\ Managed(sw.qvWm)
    /\ sw' = NoSwitcher
    /\ input' = IF ClickToFocus THEN sw.qvWm ELSE Root
    /\ UNCHANGED <<s, gone>>

\* Mutant: the window is only restored, a mapped one not focused.
SwitchToAndUnmapRestore ==
    /\ Defined /\ sw.open /\ Managed(sw.qvWm)
    /\ \E t \in {Restore(s, sw.qvWm)} : s' = [t EXCEPT !.frames = {}]
    /\ sw' = NoSwitcher
    /\ input' = sw.qvWm
    /\ UNCHANGED gone

\* Return, or the release of the modifier.  AdjustPage follows: SwitchPage.
SwitchToAndUnmap ==
    /\ Defined /\ sw.open /\ Managed(sw.qvWm)
    /\ \E t \in {IF CheckMapped(s, sw.qvWm) THEN SwitchTo(s, sw.qvWm) ELSE Restore(s, sw.qvWm)} :
         s' = [t EXCEPT !.frames = {}]
    /\ sw' = NoSwitcher
    /\ input' = IF CheckMapped(s, sw.qvWm) THEN sw.qvWm ELSE s'.focusQvwm
    /\ UNCHANGED gone
-----------------------------------------------------------------------------
WindowStep ==
    \/ \E w \in Window :
         \/ MapRequestProc(w) \/ UnmapNotifyProc(w) \/ ClientDestroy(w) \/ DestroyNotifyProc(w)
         \/ Button1Press(w) \/ Button2Release(w) \/ WM_CHANGE_STATE(w) \/ TaskbarButton(w)
         \/ Layer(w) \/ SwitchPage(w) \/ ToggleOnTop(w) \/ RaiseSoonCallout(w)
    \/ CreateNotify \/ DesktopFocus

SwitcherStep ==
    \/ \E forward \in BOOLEAN : SwitchTask(forward)
    \/ Expose \/ KeyPress \/ Escape \/ SwitchToAndUnmap

Next == WindowStep \/ SwitcherStep
Spec == Init /\ [][Next]_vars
-----------------------------------------------------------------------------
(* Properties *)

\* The switcher and the stack keep their types.
TypeInv ==
    /\ sw \in SwitcherState
    /\ [f \in DOMAIN InitStack |-> s[f]] \in StackState
    /\ input \in Window \cup {Root, Switcher}

\* As long as the lists stay as they were when the items were made (also after a
\* restart), the item the switcher paints as chosen names the task it switches to,
\* however often and in whichever direction the key is pressed: the count of
\* items and the walk along two lists never get out of step.  Transients have no
\* item, and one that has the focus puts them out of step from the start.
LitIsChosen ==
    sw.open /\ sw.intact /\ ~(s.focusQvwm # Root /\ IsTransient(s.focusQvwm))
      => /\ TaskList(s)[sw.focusWin + 1] = sw.qvWm
         /\ sw.named \in {sw.qvWm, NULL}

\* The task switched to is mapped, focused and above every window that is not
\* ONTOP or a transient; one on unmapList is minimized, so RestoreWindow maps it.
TaskSwitched ==
    [][SwitchToAndUnmap =>
         LET w == sw.qvWm
         IN  /\ CheckMapped(s', w) /\ s'.focusQvwm = w /\ input' = w
             /\ \A x \in s'.qvwmList :
                  x # w /\ x \notin s'.ontop /\ ~Has(s'.onTopList, x) /\ CheckMapped(s', x)
                    => IsTransient(x) \/ FirstIndex(s'.zorder, w) < FirstIndex(s'.zorder, x)]_vars

Above(st, x, y) == FirstIndex(st.zorder, x) < FirstIndex(st.zorder, y)
\* Mapped windows whose place among the ONTOP ones is settled.
OnTop(st) == {x \in st.qvwmList : CheckMapped(st, x) /\ x \in st.ontop /\ Has(st.onTopList, x)}
Plain(st) == {x \in st.qvwmList : CheckMapped(st, x) /\ x \notin st.ontop /\ ~Has(st.onTopList, x)
                                     /\ ~IsTransient(x)}

\* No step brings a plain window above an ONTOP window it was below: whatever is
\* raised, focused, mapped, restored or lowered, onTopList is stacked first.
OnTopKept ==
    [][\A x \in OnTop(s) \cap OnTop(s'), y \in Plain(s) \cap Plain(s') :
          Above(s, x, y) => Above(s', x, y)]_vars
=============================================================================
