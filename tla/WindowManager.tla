---------------------------- MODULE WindowManager ----------------------------
(***************************************************************************)
(* qvwm as one process: Event::MainLoop dispatches the events of the X     *)
(* queue one at a time to handlers that run to completion, while clients   *)
(* map, unmap and destroy their windows behind its back.  Input (buttons,  *)
(* keys, crossings) may reach a handler at any moment between two events;  *)
(* what it finds there is the state the earlier handlers left.             *)
(***************************************************************************)
EXTENDS WindowOps, FiniteSets

CONSTANTS
    FocusOnMap, RestoreMinimize, NoDesktopFocus,   \* qvwmrc variables
    InitIconic,      \* windows with an IconicState hint or INIT_MINIMIZE
    InitMaximize,    \* windows with INIT_MAXIMIZE
    CloseSoon,       \* windows with CLOSE_SOON
    FocusOnClick,    \* windows with FOCUS_ON_CLICK
    Override,        \* windows whose client may set override_redirect later
    Existing,        \* children of the root window when qvwm starts
    WasIconic,       \* those of them an earlier window manager left iconic
    Bound,           \* frame buttons windows have, functions bound to keys and menus,
                     \* messages clients send
    StaleInput,      \* an input event may reach a window unmapped since
    MaxEvents,       \* bound of the model: clients wait while so many events are unhandled,
                     \* input while there are more
    MaxListed        \* bound of the model: qvwm stops once a focus list is longer than this

ASSUME SettingsType ==
    /\ {FocusOnMap, RestoreMinimize, NoDesktopFocus, StaleInput} \subseteq BOOLEAN
    /\ WasIconic \subseteq Existing
    /\ UNION {InitIconic, InitMaximize, CloseSoon, FocusOnClick, Override, Existing}
         \subseteq Window
    /\ MaxEvents \in Nat /\ MaxListed \in Nat
ASSUME WindowFinite == IsFiniteSet(Window)

VARIABLES
    wm,        \* what qvwm knows (WindowOps!State)
    queue,     \* events the server has sent and MainLoop has not dispatched
    alive,     \* windows whose client has not destroyed them
    wanted,    \* windows whose client asked for a map last, not for an unmap
    pass,      \* the loop over windows a handler is in, "none" between events
    todo,      \* windows that loop has still to visit
    running    \* FALSE once the process dereferenced the head of an empty list

vars == <<wm, queue, alive, wanted, pass, todo, running>>

EventType == {"MapRequest", "MapNotify", "MapNotifyOverride", "UnmapNotify", "DestroyNotify",
              "WM_CHANGE_STATE", "WIN_STATE_MINIMIZED", "~WIN_STATE_MINIMIZED",
              "WIN_STATE_MAXIMIZED", "~WIN_STATE_MAXIMIZED", "WIN_STATE_HIDDEN"}
ClientMessage == {"WM_CHANGE_STATE", "WIN_STATE_MINIMIZED", "~WIN_STATE_MINIMIZED",
                  "WIN_STATE_MAXIMIZED", "~WIN_STATE_MAXIMIZED", "WIN_STATE_HIDDEN"}
Event == [type : EventType, window : Window]
Pass == {"none", "capture", "minimizeAll", "restoreAll"}

\* Where the cursor may be when a handler asks; with ClickToFocus none of the
\* handlers below asks but SwitchPage and CaptureAllWindows.
Pointer == IF ClickToFocus THEN {Root} ELSE Qvwm

XEvent(type, w) == [type |-> type, window |-> w]

\* The root window selects SubstructureNotifyMask (main.cc), so the server reports
\* every frame qvwm maps with a MapNotify, in one order or another.
Notices(frames) ==
    {[i \in DOMAIN f |-> XEvent("MapNotify", f[i])] :
        f \in {g \in [1..Cardinality(frames) -> frames] :
                  \A i, j \in DOMAIN g : g[i] = g[j] => i = j}}

\* The end of a handler that leaves the state s, with the events of q to come.
Leave(s, q) ==
    /\ wm' = [s EXCEPT !.frames = {}]
    /\ \E notices \in Notices(s.frames) : queue' = q \o notices

\* No pointer qvwm keeps leads to a deleted Qvwm.
PointersValid(s) ==
    /\ s.focusQvwm \in s.qvwmList \cup {Root}
    /\ \A i \in DOMAIN s.mapList : s.mapList[i] \in s.qvwmList
    /\ \A i \in DOMAIN s.unmapList : s.unmapList[i] \in s.qvwmList
    /\ \A w \in s.qvwmList : s.qvMain[w] \in s.qvwmList \cup {Root, NULL}

\* Past a dangling pointer the behaviour is undefined: the model stops there, and
\* where a list that keeps growing has outgrown the bound.
Defined ==
    /\ running /\ PointersValid(wm)
    /\ Len(wm.mapList) <= MaxListed /\ Len(wm.unmapList) <= MaxListed

Init ==
    /\ wm = InitState(Existing \ WasIconic)
    /\ queue = <<>>
    /\ alive = Window
    /\ wanted = Existing
    /\ pass = "capture"
    /\ todo = Existing
    /\ running = TRUE
-----------------------------------------------------------------------------
(* Clients, through the X server *)

ClientMap(w) ==
    /\ w \in alive /\ ~wm.xmapped[w]
    /\ Len(queue) < MaxEvents
    /\ queue' = Append(queue, XEvent("MapRequest", w))
    /\ wanted' = wanted \cup {w}
    /\ UNCHANGED <<wm, alive, pass, todo, running>>

\* override_redirect keeps the server from redirecting the request.
ClientMapOverride(w) ==
    /\ w \in Override \cap alive \cap wm.qvwmList
    /\ ~wm.xmapped[w] /\ Len(queue) < MaxEvents
    /\ wm' = [wm EXCEPT !.xmapped[w] = TRUE]
    /\ queue' = Append(queue, XEvent("MapNotifyOverride", w))
    /\ UNCHANGED <<alive, wanted, pass, todo, running>>

\* StructureNotifyMask is selected on managed windows alone (ChangeOrigWindow).
ClientUnmap(w) ==
    /\ w \in alive /\ wm.xmapped[w] /\ Len(queue) < MaxEvents
    /\ wm' = [wm EXCEPT !.xmapped[w] = FALSE]
    /\ queue' = IF w \in wm.qvwmList THEN Append(queue, XEvent("UnmapNotify", w)) ELSE queue
    /\ wanted' = wanted \ {w}
    /\ UNCHANGED <<alive, pass, todo, running>>

\* The server unmaps a mapped window before it destroys it.
ClientDestroy(w) ==
    LET unmap == IF wm.xmapped[w] THEN <<XEvent("UnmapNotify", w)>> ELSE <<>>
        sent == IF w \in wm.qvwmList THEN Append(unmap, XEvent("DestroyNotify", w)) ELSE <<>>
    IN  /\ w \in alive /\ Len(queue) < MaxEvents
        /\ alive' = alive \ {w}
        /\ wm' = [wm EXCEPT !.xmapped[w] = FALSE]
        /\ queue' = queue \o sent
        /\ wanted' = wanted \ {w}
        /\ UNCHANGED <<pass, todo, running>>

ClientSendsMessage(w, message) ==
    /\ w \in alive \cap wm.qvwmList /\ message \in Bound /\ Len(queue) < MaxEvents
    /\ queue' = Append(queue, XEvent(message, w))
    /\ UNCHANGED <<wm, alive, wanted, pass, todo, running>>
-----------------------------------------------------------------------------
(* Event::DispatchEvent: the handlers of the event at the head of the queue *)

EventWindow == Head(queue).window

Dispatch(type) ==
    /\ Defined /\ pass = "none"
    /\ queue # <<>> /\ Head(queue).type = type
    /\ UNCHANGED <<alive, wanted, pass, todo, running>>

\* What MapRequestProc does with a window XGetGeometry still knows.
MapRequestResult(s, w, junk, pointer) ==
    LET t == IF w \in s.qvwmList THEN s ELSE NewQvwm(s, w, junk)
        u == IF w \in InitIconic THEN MinimizeWindow(t, w, TRUE, pointer)
             ELSE IF w \in InitMaximize THEN MaximizeWindow(t, w, FALSE)
             ELSE IF Minimized(t, w) THEN RestoreWindow(t, w, FALSE)
             ELSE MapWindows(t, w, TRUE)
    IN  IF w \in CloseSoon THEN DeleteQvwm(t, w)
        ELSE IF Minimized(u, w) THEN [u EXCEPT !.unmapList = InsertTail(@, w)]
        ELSE IF ClickToFocus \/ FocusOnMap THEN SetFocus(u, w)
        ELSE u

\* Mutant: the window is not looked up with XGetGeometry first.
MapRequestProcUnchecked ==
    /\ Dispatch("MapRequest")
    /\ \E junk \in BOOLEAN, pointer \in Pointer :
         Leave(MapRequestResult(wm, EventWindow, junk, pointer), Tail(queue))

MapRequestProc ==
    /\ Dispatch("MapRequest")
    /\ \E junk \in BOOLEAN, pointer \in Pointer :
         Leave(IF EventWindow \in alive THEN MapRequestResult(wm, EventWindow, junk, pointer)
               ELSE wm, Tail(queue))

\* The branch that takes a window back that has become override_redirect
\* deletes its Qvwm as it stands.
MapNotifyOverrideProc ==
    /\ Dispatch("MapNotifyOverride")
    /\ Leave(IF EventWindow \in wm.qvwmList THEN DeleteQvwm(wm, EventWindow) ELSE wm, Tail(queue))

MapNotifyResult(s, w) ==
    LET t == IF Minimized(s, w) THEN RestoreWindow(s, w, FALSE) ELSE MapWindows(s, w, TRUE)
    IN  IF CheckMapped(s, w) THEN s
        ELSE IF ClickToFocus \/ FocusOnMap THEN SetFocus(t, w)
        ELSE t

MapNotifyProc ==
    /\ Dispatch("MapNotify")
    /\ Leave(IF EventWindow \in wm.qvwmList THEN MapNotifyResult(wm, EventWindow) ELSE wm,
             Tail(queue))

\* Mutant: the window's later events are thrown away with it.
UnmapNotifyProcFlush ==
    LET w == EventWindow
    IN  /\ Dispatch("UnmapNotify")
        /\ \E pointer \in Pointer :
             Leave(IF w \in wm.qvwmList
                   THEN DestroyQvwm([wm EXCEPT !.xmapped[w] = FALSE], w, pointer)
                   ELSE wm, SelectSeq(Tail(queue), LAMBDA event : event.window # w))

\* Reparenting a window that is mapped unmaps it and maps it again (which the
\* root reports once more), and then XUnmapWindow unmaps it: StructureNotifyMask
\* is still selected, so qvwm is notified of all that.
UnmapNotifyProc ==
    LET w == EventWindow
        echo == IF w \in wm.qvwmList \cap alive /\ wm.xmapped[w]
                THEN <<XEvent("UnmapNotify", w), XEvent("MapNotify", w),
                       XEvent("MapNotify", w), XEvent("UnmapNotify", w)>> ELSE <<>>
    IN  /\ Dispatch("UnmapNotify")
        /\ \E pointer \in Pointer :
             Leave(IF w \in wm.qvwmList
                   THEN DestroyQvwm([wm EXCEPT !.xmapped[w] = FALSE], w, pointer)
                   ELSE wm, Tail(queue) \o echo)

\* Mutant: only a mapped window is looked up.
DestroyNotifyProcMapped ==
    /\ Dispatch("DestroyNotify")
    /\ \E pointer \in Pointer :
         Leave(IF EventWindow \in wm.qvwmList /\ CheckMapped(wm, EventWindow)
               THEN DestroyQvwm(wm, EventWindow, pointer) ELSE wm, Tail(queue))

DestroyNotifyProc ==
    /\ Dispatch("DestroyNotify")
    /\ \E pointer \in Pointer :
         Leave(IF EventWindow \in wm.qvwmList THEN DestroyQvwm(wm, EventWindow, pointer) ELSE wm,
               Tail(queue))

\* Focus again by way of the desktop, as the menu functions do.
Refocus(s, w) == SetFocus(SetFocus(s, Root), w)

\* Event::ClientMessageProc and, for a WIN_STATE message, Gnome::ProcessStateChange.
ClientMessageResult(s, w, message, pointer) ==
    CASE message = "WM_CHANGE_STATE" -> MinimizeWindow(s, w, TRUE, pointer)
      [] message = "WIN_STATE_MINIMIZED" -> MinimizeWindow(s, w, FALSE, pointer)
      [] message = "~WIN_STATE_MINIMIZED" ->
            IF Minimized(s, w) THEN RestoreWindow(s, w, FALSE) ELSE s
      [] message = "WIN_STATE_MAXIMIZED" ->
            IF Maximized(s, w) THEN s ELSE Refocus(MaximizeWindow(s, w, FALSE), w)
      [] message = "~WIN_STATE_MAXIMIZED" ->
            IF Maximized(s, w) THEN Refocus(RestoreWindow(s, w, FALSE), w) ELSE s
      [] message = "WIN_STATE_HIDDEN" -> [s EXCEPT !.flags[w] = @ \cup {"NO_TBUTTON"}]

ClientMessageProc(message) ==
    /\ Dispatch(message)
    /\ \E pointer \in Pointer :
         Leave(IF EventWindow \in wm.qvwmList
               THEN ClientMessageResult(wm, EventWindow, message, pointer) ELSE wm, Tail(queue))
-----------------------------------------------------------------------------
(* Input: buttons, crossings and the functions bound to keys and menus *)

\* A handler that leaves the state s.
Handle(s) ==
    /\ Defined /\ pass = "none" /\ Len(queue) <= MaxEvents
    /\ Leave(s, queue)
    /\ UNCHANGED <<alive, wanted, pass, todo, running>>

Managed(w) == w \in wm.qvwmList \cup {Root}
\* A window whose frame the pointer or a key may have been in.
OnFrame(w) == Managed(w) /\ (CheckMapped(wm, w) \/ StaleInput)
\* A window that has a taskbar button.
OnTaskbar(w) == w \in wm.qvwmList /\ ~IsTransient(w) /\ "NO_TBUTTON" \notin wm.flags[w]

Button1Press(w) == OnFrame(w) /\ Handle(SetFocus(wm, w))

Button3Release(w) ==
    LET s == SetFocus(wm, w)
    IN  /\ OnFrame(w)
        /\ Handle(IF CheckMapped(s, w) THEN s ELSE RestoreWindow(s, w, TRUE))

Enter(w) ==
    /\ OnFrame(w) /\ ~ClickToFocus /\ ~(NoDesktopFocus /\ w = Root)
    /\ ~Minimized(wm, w) /\ w \notin FocusOnClick
    /\ Handle(SetFocus(wm, w))

\* FrameButton::Button1Press holds the pointer until the release, so the
\* button's function runs in the same handler.
FrameButton1(w) ==
    /\ "BUTTON1" \in Bound /\ w # Root /\ OnFrame(w)
    /\ \E pointer \in Pointer : Handle(MinimizeWindow(SetFocus(wm, w), w, TRUE, pointer))

FrameButton2(w) ==
    LET s == SetFocus(wm, w)
    IN  /\ "BUTTON2" \in Bound /\ w # Root /\ OnFrame(w)
        /\ Handle(IF Maximized(s, w) THEN RestoreWindow(s, w, TRUE) ELSE MaximizeWindow(s, w, TRUE))

TaskbarButtonPush(w) ==
    /\ OnTaskbar(w)
    /\ \/ w = wm.focusQvwm /\ RestoreMinimize
          /\ \E pointer \in Pointer : Handle(MinimizeWindow(wm, w, TRUE, pointer))
       \/ w # wm.focusQvwm
          /\ Handle(IF Minimized(wm, w) THEN RestoreWindow(wm, w, TRUE) ELSE SetFocus(wm, w))

\* "Temporarily, give the focus": NO_FOCUS is lifted around SetFocus.
TaskbarButton3Release(w) ==
    LET s == SetFocus([wm EXCEPT !.flags[w] = @ \ {"NO_FOCUS"}], w)
    IN  /\ OnTaskbar(w)
        /\ Handle([s EXCEPT !.flags[w] = wm.flags[w]])

MiniatureButton1Press(w) == w # Root /\ OnFrame(w) /\ ClickToFocus /\ Handle(SetFocus(wm, w))

DesktopFocus == Handle(SetFocus(wm, Root))

\* Paging moves every window, then looks where the cursor is.
SwitchPage == \E pointer \in Qvwm : Handle(ChangeFocusToCursor(wm, pointer))
-----------------------------------------------------------------------------
(* QvFunction::execFunction *)

Function(fn, w) == fn \in Bound /\ Managed(w)

Q_RESTORE(w) == Function("Q_RESTORE", w) /\ Handle(Refocus(RestoreWindow(wm, w, TRUE), w))
Q_FOCUS(w) == Function("Q_FOCUS", w) /\ Handle(Refocus(wm, w))
Q_RAISE_FOCUS(w) ==
    LET s == Refocus(wm, w)
    IN  /\ Function("Q_RAISE_FOCUS", w)
        /\ Handle(IF CheckMapped(s, w) THEN s ELSE RestoreWindow(s, w, TRUE))
Q_MINIMIZE(w) ==
    /\ Function("Q_MINIMIZE", w)
    /\ \E pointer \in Pointer : Handle(MinimizeWindow(wm, w, TRUE, pointer))
Q_MAXIMIZE(w) ==
    /\ Function("Q_MAXIMIZE", w) /\ w # Root
    /\ Handle(Refocus(IF Maximized(wm, w) THEN RestoreWindow(wm, w, TRUE)
                      ELSE MaximizeWindow(wm, w, TRUE), w))
Q_MAXIMIZE_ONEWAY(w) ==
    /\ Function("Q_MAXIMIZE_ONEWAY", w) /\ w # Root
    /\ Handle(Refocus(MaximizeWindow(wm, w, TRUE), w))
\* For a window off the screen Q_EXPAND is Q_FOCUS.
Q_EXPAND(w) == Function("Q_EXPAND", w) /\ Handle(Refocus(ExpandWindow(wm, w), w))

\* The functions that toggle an attribute redraw by a minimize and a restore.
Toggle(s, w, pointer) == RestoreWindow(MinimizeWindow(s, w, TRUE, pointer), w, TRUE)
Flip(s, w, flag) ==
    [s EXCEPT !.flags[w] = IF flag \in @ THEN @ \ {flag} ELSE @ \cup {flag}]

\* Border, edge, title, buttons and control button: flags this model has not.
Q_TOGGLE_TITLE(w) ==
    /\ Function("Q_TOGGLE_TITLE", w) /\ w # Root
    /\ \E pointer \in Pointer : Handle(Toggle(wm, w, pointer))
Q_TOGGLE_FOCUS(w) ==
    /\ Function("Q_TOGGLE_FOCUS", w) /\ w # Root
    /\ \E pointer \in Pointer : Handle(Toggle(Flip(wm, w, "NO_FOCUS"), w, pointer))
Q_TOGGLE_TBUTTON(w) ==
    /\ Function("Q_TOGGLE_TBUTTON", w) /\ w # Root
    /\ \E pointer \in Pointer : Handle(Toggle(Flip(wm, w, "NO_TBUTTON"), w, pointer))

\* FocusMgr::RollFocus
Q_CHANGE_WINDOW ==
    LET q == InsertTail(RemoveHead(wm.mapList), GetHead(wm.mapList))
    IN  /\ "Q_CHANGE_WINDOW" \in Bound /\ wm.mapList # <<>>
        /\ Handle(SetFocus([wm EXCEPT !.mapList = q], GetHead(q)))
Q_CHANGE_WINDOW_BACK ==
    LET q == InsertHead(RemoveTail(wm.mapList), GetTail(wm.mapList))
    IN  /\ "Q_CHANGE_WINDOW_BACK" \in Bound /\ wm.mapList # <<>>
        /\ Handle(SetFocus([wm EXCEPT !.mapList = q], GetHead(q)))

\* FocusMgr::RollFocusWithinScreen.  here is the set of the windows that are
\* neither STICKY nor off the screen.
NextHere(q, here) == {k \in DOMAIN q : q[k] \in here /\ \A i \in 1..(k - 1) : q[i] \notin here}
PrevHere(q, here) ==
    {k \in DOMAIN q : q[k] \in here /\ \A i \in (k + 1)..Len(q) : q[i] \notin here}
RollTo(q, found) ==
    IF found = {} THEN SetFocus([wm EXCEPT !.mapList = q], Root)
    ELSE LET k == CHOOSE i \in found : TRUE
         IN  SetFocus([wm EXCEPT !.mapList = InsertHead(RemoveAt(q, k), q[k])], q[k])
Q_CHANGE_WINDOW_INSCR ==
    \E here \in SUBSET wm.qvwmList :
        LET rolls == wm.focusQvwm \in here
            q == IF rolls THEN InsertTail(RemoveHead(wm.mapList), GetHead(wm.mapList))
                 ELSE wm.mapList
        IN  /\ "Q_CHANGE_WINDOW_INSCR" \in Bound /\ (rolls => wm.mapList # <<>>)
            /\ Handle(RollTo(q, NextHere(q, here)))
Q_CHANGE_WINDOW_BACK_INSCR ==
    \E here \in SUBSET wm.qvwmList :
        /\ "Q_CHANGE_WINDOW_BACK_INSCR" \in Bound
        /\ Handle(RollTo(wm.mapList, PrevHere(wm.mapList, here)))

\* Pop and RemoveBottom read through the head or tail of an empty list: the
\* ASSERT is compiled out and the process dies.
RollFocusOnEmptyList ==
    /\ Defined /\ pass = "none" /\ wm.mapList = <<>>
    /\ \/ Bound \cap {"Q_CHANGE_WINDOW", "Q_CHANGE_WINDOW_BACK"} # {}
       \/ "Q_CHANGE_WINDOW_INSCR" \in Bound /\ wm.focusQvwm # Root
    /\ running' = FALSE
    /\ UNCHANGED <<wm, queue, alive, wanted, pass, todo>>
-----------------------------------------------------------------------------
(* Loops over the windows, one iteration a step *)

Visit(name, w, s) ==
    /\ Defined /\ pass = name /\ w \in todo
    /\ todo' = todo \ {w}
    /\ Leave(s, queue)
    /\ UNCHANGED <<alive, wanted, pass, running>>

CaptureResult(s, w, junk, pointer) ==
    LET t == NewQvwm(s, w, junk)
        u == IF w \in WasIconic \cup InitIconic THEN MinimizeWindow(t, w, FALSE, pointer)
             ELSE IF w \in InitMaximize THEN MaximizeWindow(t, w, FALSE)
             ELSE MapWindows(t, w, TRUE)
    IN  IF w \in CloseSoon THEN DeleteQvwm(t, w)
        ELSE IF Minimized(u, w) THEN [u EXCEPT !.unmapList = InsertTail(@, w)]
        ELSE IF ClickToFocus THEN SetFocus(u, w)
        ELSE u

\* Mutant: && for || in the test of the child.
CaptureWindowIconic(w) ==
    \E junk \in BOOLEAN, pointer \in Pointer :
        Visit("capture", w, IF w \in alive /\ wm.xmapped[w] /\ w \in WasIconic
                            THEN CaptureResult(wm, w, junk, pointer) ELSE wm)

\* MappedNotOverride drops a child that is gone or no longer mapped.
CaptureWindow(w) ==
    \E junk \in BOOLEAN, pointer \in Pointer :
        Visit("capture", w, IF w \in alive /\ (wm.xmapped[w] \/ w \in WasIconic)
                            THEN CaptureResult(wm, w, junk, pointer) ELSE wm)

CaptureDone ==
    /\ Defined /\ pass = "capture" /\ todo = {}
    /\ pass' = "none"
    /\ \E pointer \in Qvwm : Leave(ChangeFocusToCursor(wm, pointer), queue)
    /\ UNCHANGED <<alive, wanted, todo, running>>

\* All windows, or those of this page that are not STICKY.
StartPass(name, fn, s) ==
    /\ Defined /\ pass = "none" /\ fn \in Bound /\ Len(queue) <= MaxEvents
    /\ \E windows \in SUBSET wm.qvwmList : todo' = windows
    /\ pass' = name
    /\ Leave(s, queue)
    /\ UNCHANGED <<alive, wanted, running>>

MinimizeAll == StartPass("minimizeAll", "Q_MINIMIZE_ALL", SetFocus(wm, Root))
RestoreAll == StartPass("restoreAll", "Q_RESTORE_ALL", wm)

MinimizeNext(w) ==
    \E pointer \in Pointer :
        Visit("minimizeAll", w,
              IF CheckMapped(wm, w) THEN MinimizeWindow(wm, w, FALSE, pointer) ELSE wm)

RestoreNext(w) ==
    Visit("restoreAll", w, IF CheckMapped(wm, w) THEN wm ELSE RestoreWindow(wm, w, FALSE))

PassDone ==
    /\ Defined /\ pass \in {"minimizeAll", "restoreAll"} /\ todo = {}
    /\ pass' = "none"
    /\ UNCHANGED <<wm, queue, alive, wanted, todo, running>>
-----------------------------------------------------------------------------
ClientStep ==
    \E w \in Window :
        \/ ClientMap(w) \/ ClientMapOverride(w) \/ ClientUnmap(w) \/ ClientDestroy(w)
        \/ \E message \in ClientMessage : ClientSendsMessage(w, message)

DispatchStep ==
    \/ MapRequestProc \/ MapNotifyOverrideProc \/ MapNotifyProc
    \/ UnmapNotifyProc \/ DestroyNotifyProc
    \/ \E message \in ClientMessage : ClientMessageProc(message)

InputStep ==
    \/ \E w \in Qvwm :
         \/ Button1Press(w) \/ Button3Release(w) \/ Enter(w)
         \/ FrameButton1(w) \/ FrameButton2(w) \/ MiniatureButton1Press(w)
         \/ TaskbarButtonPush(w) \/ TaskbarButton3Release(w)
    \/ DesktopFocus \/ SwitchPage

FunctionStep ==
    \/ \E w \in Qvwm :
         \/ Q_RESTORE(w) \/ Q_FOCUS(w) \/ Q_RAISE_FOCUS(w) \/ Q_MINIMIZE(w)
         \/ Q_MAXIMIZE(w) \/ Q_MAXIMIZE_ONEWAY(w) \/ Q_EXPAND(w)
         \/ Q_TOGGLE_TITLE(w) \/ Q_TOGGLE_FOCUS(w) \/ Q_TOGGLE_TBUTTON(w)
    \/ Q_CHANGE_WINDOW \/ Q_CHANGE_WINDOW_BACK
    \/ Q_CHANGE_WINDOW_INSCR \/ Q_CHANGE_WINDOW_BACK_INSCR \/ RollFocusOnEmptyList
    \/ MinimizeAll \/ RestoreAll

PassStep ==
    \/ \E w \in Window : CaptureWindow(w) \/ MinimizeNext(w) \/ RestoreNext(w)
    \/ CaptureDone \/ PassDone

Next == ClientStep \/ DispatchStep \/ InputStep \/ FunctionStep \/ PassStep

Spec == Init /\ [][Next]_vars

\* MainLoop reads on while XPending reports an event, and a loop over the
\* windows runs to its end before the next event is read.
Fairness == WF_vars(DispatchStep) /\ WF_vars(PassStep)
-----------------------------------------------------------------------------
(* Properties *)

\* Every variable keeps its type; the focus is on the root or on a window.
TypeInv ==
    /\ wm \in State
    /\ queue \in Seq(Event)
    /\ alive \subseteq Window /\ wanted \subseteq Window
    /\ pass \in Pass /\ todo \subseteq Window
    /\ running \in BOOLEAN

\* No list of FocusMgr, no focusQvwm and no qvMain outlives the Qvwm it points
\* to: whatever order windows are mapped, minimized, rolled and destroyed in,
\* Event::DestroyQvwm clears the last pointer to what it deletes.
NoDangling == PointersValid(wm)

\* A main window is on mapList while it is mapped and on unmapList, once, while
\* it is not: it can always be found again.  The right button on the taskbar
\* puts an unmapped window on mapList too, which leaves it there twice once it
\* is mapped; a transient window is on neither, but for one CaptureAllWindows
\* found iconic.
OnFocusList(w) ==
    IF CheckMapped(wm, w)
    THEN Has(wm.mapList, w) /\ AtMostTwice(wm.mapList, w) /\ ~Has(wm.unmapList, w)
    ELSE Has(wm.unmapList, w) /\ AtMostOnce(wm.unmapList, w) /\ AtMostOnce(wm.mapList, w)
FocusLists ==
    /\ \A w \in wm.qvwmList :
          IF IsTransient(w) THEN ~Has(wm.mapList, w) /\ AtMostOnce(wm.unmapList, w)
          ELSE OnFocusList(w)
    /\ \A w \in Window \ wm.qvwmList : ~Has(wm.mapList, w) /\ ~Has(wm.unmapList, w)

\* Nothing is lost: a main window qvwm keeps unmapped is minimized, so
\* RestoreWindow, which returns early on any other, brings it back.
Restorable ==
    \A w \in wm.qvwmList : ~IsTransient(w) /\ ~CheckMapped(wm, w) => Minimized(wm, w)

\* With ClickToFocus the focused main window is the top of the stack RollFocus
\* turns and YieldFocus pops, whichever handler moved the focus.
FocusIsTop ==
    wm.focusQvwm = Root \/ IsTransient(wm.focusQvwm)
        \/ (wm.mapList # <<>> /\ GetHead(wm.mapList) = wm.focusQvwm)

\* A step that minimizes a window takes the focus from it.
MinimizeYieldsFocus ==
    [][\A w \in Window : ~Minimized(wm, w) /\ Minimized(wm', w) => wm'.focusQvwm # w]_vars

\* Where qvwm and the server disagree on a window, the event that will settle
\* it is on its way.
Pending(type, w) == \E i \in DOMAIN queue : queue[i] = XEvent(type, w)
ServerAgreement ==
    \A w \in wm.qvwmList :
        /\ w \notin alive => Pending("DestroyNotify", w)
        /\ w \in alive /\ CheckMapped(wm, w) /\ ~wm.xmapped[w] => Pending("UnmapNotify", w)

\* A managed transient knows its main window as long as that is managed, in
\* whichever order the two are mapped and destroyed, and is on its trList.
TransientLinks ==
    \A w \in wm.qvwmList :
        /\ wm.qvMain[w] = (IF IsTransient(w) /\ Managed(TransientFor[w])
                           THEN TransientFor[w] ELSE NULL)
        /\ wm.trList[w] = {x \in wm.qvwmList : wm.qvMain[x] = w}

\* The Qvwm of a window that is gone is deleted.
DestroyNoticed == \A w \in Window : w \notin alive ~> w \notin wm.qvwmList
-----------------------------------------------------------------------------
(* What comments of the code say, and the code does not keep *)

\* Qvwm::YieldFocus: "Give a focus to another window".
FocusYielded == wm.focusQvwm \in wm.qvwmList \cup {Root}

\* Qvwm::MapWindow maps the "unmapped transient windows due to unmapping this
\* window": a transient not minimized itself is mapped while its main window is.
TransientsReturn ==
    \A w \in wm.qvwmList, t \in Window :
        t \in wm.trList[w] /\ CheckMapped(wm, w) /\ ~Minimized(wm, t) => CheckMapped(wm, t)
=============================================================================
