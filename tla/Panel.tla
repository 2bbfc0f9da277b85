-------------------------------- MODULE Panel --------------------------------
(***************************************************************************)
(* The menus, the taskbar that hides itself and a tooltip under MainLoop:  *)
(* input reaches the handlers one event at a time, CheckTimeout runs after *)
(* each, and callouts set by one handler fire between later ones.          *)
(***************************************************************************)
EXTENDS PanelOps

CONSTANTS
    AutoHide,        \* TaskbarAutoHide in the qvwmrc
    KeyFunction,     \* functions bound to keys of windows and of the desktop
    MenuKey,         \* functions bound to keys of menus
    Keyed,           \* the items of each menu that share a shortcut character, as sets
    Operated,        \* bound of the model: the menus whose items get input
    StaleInput,      \* an input event may reach a menu unmapped since
    MaxCallouts,     \* bound of the model: buttons and menus get no input while so many
                     \* are pending, and with more the pointer rests
    MaxTooltips,     \* bound of the model: so many MapTooltip callouts at once
    MaxCrossings     \* bound of the model: the pointer rests while so many are unhandled, and
                     \* while there are more buttons and menus get no input

ASSUME PanelType ==
    /\ {AutoHide, StaleInput} \subseteq BOOLEAN
    /\ {MaxCallouts, MaxTooltips, MaxCrossings} \subseteq Nat
    /\ AutoHide => "taskbar" \in Menu
    /\ Operated \subseteq Menu
    /\ DOMAIN Keyed = Menu /\ \A m \in Menu : \A S \in Keyed[m] : S \subseteq DOMAIN Items[m]

VARIABLES
    panel,        \* the state of PanelOps
    crossings     \* Enter and Leave of the taskbar's frame, as the server queued them

vars == <<panel, crossings>>

Init == panel = InitState(AutoHide) /\ crossings = <<>>

Crossing(type, at) == [type |-> type, at |-> at]

Pending(p, m) == CalloutsOf(p.coList, <<"PopupMenu", m>>) # {}

\* A handler that leaves p, and MainLoop's CheckTimeout after it; the pointer, when
\* the bar is moved from under it, crosses its frame.  delayMenuNum is forgotten where
\* no PopupMenu is there to read it.
Handled(p, queued) ==
    \E r \in {CheckTimeout(p)} :
        /\ panel' = [r EXCEPT !.notices = <<>>,
                              !.delayMenuNum = [m \in Menu |-> IF Pending(r, m) THEN @[m] ELSE 0]]
        /\ crossings' = queued \o
               (IF r.pointer # "bar" THEN <<>>
                ELSE [i \in DOMAIN r.notices |-> Crossing(r.notices[i], "bar")])

Handle(p) == Handled(p, crossings)
Room == Len(panel.coList) < MaxCallouts /\ Len(crossings) <= MaxCrossings
-----------------------------------------------------------------------------
(* Time and pointer *)

Waiting == \E i \in DOMAIN panel.coList : panel.coList[i].left > 0
Due == Expired(panel.coList) # {}

Elapse ==
    /\ Waiting
    /\ panel' = [panel EXCEPT !.coList = Tick(@)]
    /\ UNCHANGED crossings

\* select times out.
Timeout == Due /\ Handle(panel)

OnBar(p, place) == place = "edge" \/ (place = "bar" /\ ~p.hiding)

MovePointer(to) ==
    /\ to # panel.pointer
    /\ Len(crossings) < MaxCrossings /\ Len(panel.coList) <= MaxCallouts
    /\ panel' = [panel EXCEPT !.pointer = to]
    /\ LET was == OnBar(panel, panel.pointer)
           is == OnBar(panel, to)
       IN  crossings' = IF was = is THEN crossings
                        ELSE Append(crossings, Crossing(IF is THEN "Enter" ELSE "Leave", to))

TaskbarEnter ==
    /\ crossings # <<>> /\ Head(crossings).type = "Enter"
    /\ Handled(IF panel.autoHide /\ ~CheckAnyMenusMapped(panel) /\ panel.hiding
               THEN SetTimeout(panel, TaskbarShowDelay, <<"ShowTaskbar">>) ELSE panel,
               Tail(crossings))

TaskbarLeave ==
    /\ crossings # <<>> /\ Head(crossings).type = "Leave"
    /\ Handled(IF /\ panel.autoHide /\ ~CheckAnyMenusMapped(panel) /\ ~panel.hiding
                  /\ Head(crossings).at = "screen"
               THEN SetTimeout(panel, TaskbarHideDelay, <<"HideTaskbar">>) ELSE panel,
               Tail(crossings))

\* Button::Enter, Leave and PointerMotion of the start button.
ButtonEnter ==
    /\ Cardinality(CalloutsOf(panel.coList, <<"MapTooltip">>)) < MaxTooltips
    /\ Handle(SetTimer(panel))
ButtonLeave == Handle(Disable(panel))
ButtonMotion == ~panel.tooltip /\ Handle(ResetTimer(panel))
-----------------------------------------------------------------------------
(* Input to menus *)

Stale(m) == StaleInput /\ m \in RootMenu \cup panel.created
Reaches(m) == m \in Operated /\ (panel.mapped[m] \/ Stale(m))
KeyReaches(m) == m \in Operated /\ (panel.xfocus = m \/ Stale(m))

MenuEnter(m, i) == Room /\ Reaches(m) /\ Handle(EnterItem(panel, m, i))
MenuLeave(m) == Reaches(m) /\ \E entering \in BOOLEAN : Handle(LeaveMenu(panel, m, entering))
MenuMotion(m, i) == Room /\ Reaches(m) /\ Handle(MoveOverItem(panel, m, i))
MenuButton1Press(m, i) == Room /\ Reaches(m) /\ Handle(PressItem(panel, m, i))
MenuButton1Release(m, i) == Room /\ Reaches(m) /\ Handle(ReleaseItem(panel, m, i))
MenuKeyPress(m, fn) == Room /\ KeyReaches(m) /\ Handle(MenuFunction(panel, fn, m))
MenuAction(m) == Room /\ KeyReaches(m) /\ \E p \in ExecSelectedItem(panel, m) : Handle(p)
MenuCharacter(m, keyed) == Room /\ KeyReaches(m) /\ Handle(ExecShortCutKey(panel, m, keyed))

\* A key of the root window or of the window with the focus.
ShortCutKey(fn) ==
    Room /\ (panel.xfocus = NULL \/ StaleInput) /\ Handle(MenuFunction(panel, fn, FocusMenu(panel)))
-----------------------------------------------------------------------------
(* Buttons on windows, icons and the taskbar *)

HideFirst == IF panel.autoHide THEN HideTaskbar(panel) ELSE panel

\* Qvwm::Button1Press outside the control menu's mark.
FrameButton1Press(w) ==
    Room /\ Handle([SetFocus(UnmapAllMenus(HideFirst, TRUE), w) EXCEPT !.focusIcon = FALSE])

\* Qvwm::CtrlButton1Press: the second click of a double click closes the window.
CtrlButton1Press ==
    /\ Room
    /\ LET p == HideFirst
           q == [p EXCEPT !.umReserved = @ \/ p.mapped["window"]]
       IN  \/ Handle(WindowFunction(q, "Q_CLOSE"))
           \/ Handle(IF p.mapped["window"] THEN q
                     ELSE MapMenu(SetFocus(UnmapAllMenus(p, TRUE), "window"), "window"))

FrameButton1Release ==
    /\ panel.umReserved
    /\ Handle([CloseMenu(panel, "window") EXCEPT !.umReserved = FALSE])

FrameButton3Release(w) ==
    LET p == SetFocus(UnmapAllMenus(panel, TRUE), w) IN Room /\ Handle(MapMenu(p, FocusMenu(p)))

\* Icon::Button1Press: a double click starts the icon's command.
IconButton1Press ==
    /\ Room /\ "icon" \in Menu
    /\ LET p == SetFocus(UnmapAllMenus([panel EXCEPT !.focusIcon = FALSE], TRUE), "root")
       IN  Handle(p) \/ Handle([p EXCEPT !.focusIcon = TRUE])

IconButton3Release ==
    /\ Room /\ "icon" \in Menu
    /\ LET p == SetFocus(UnmapAllMenus([panel EXCEPT !.focusIcon = FALSE], TRUE), "root")
       IN  Handle(MapMenu([p EXCEPT !.focusIcon = TRUE], "icon"))

StartButton1Press ==
    /\ Room /\ "taskbar" \in Menu
    /\ LET p == Disable(panel)
       IN  Handle(IF p.mapped["start"] THEN CloseMenu(p, "start")
                  ELSE MapStartMenu(UnmapAllMenus(p, FALSE)))

\* UnmapWindows of a window, and YieldFocus if it had the focus.
WindowGone(p) ==
    LET q == IF p.mapped["window"] THEN CloseMenu(p, "window") ELSE p IN {q, SetFocus(q, "root")}

\* TaskbarButton::Button1Press: until the button is released a loop of its own takes
\* every crossing off the queue; then ExecButtonFunc, if the pointer is on the button.
TaskbarButton1Press ==
    /\ Room /\ "taskbar" \in Menu
    /\ LET p == UnmapAllMenus(panel, FALSE)
       IN  \E place \in Place, q \in {p, SetFocus(p, "window")} \cup WindowGone(p) :
               Handled([q EXCEPT !.pointer = place], <<>>)

\* Only the menu of the window with the focus is unmapped.
TaskbarButton3Release ==
    /\ Room /\ "taskbar" \in Menu /\ ~panel.mapped["start"]
    /\ LET p == IF panel.mapped[FocusMenu(panel)] THEN CloseMenu(panel, FocusMenu(panel)) ELSE panel
       IN  Handle(MapMenu(SetFocus(p, "window"), "window"))

TaskbarPress == Room /\ "taskbar" \in Menu /\ Handle(UnmapAllMenus(panel, FALSE))

TaskbarMenu ==
    /\ Room /\ "taskbar" \in Menu
    /\ Handle(MapMenu(SetFocus(UnmapAllMenus(panel, FALSE), "root"), "taskbar"))
-----------------------------------------------------------------------------
(* What the windows do meanwhile *)

\* MapRequestProc and others give a window the focus and leave the menus alone.
WindowTakesFocus == panel.focusQvwm = "root" /\ Handle(SetFocus(panel, "window"))

WindowLeaves == Room /\ \E p \in WindowGone(panel) : Handle(p)

MapNotifyProc == Room /\ Handle(SetFocus(UnmapAllMenus(panel, TRUE), "window"))
-----------------------------------------------------------------------------
PointerStep ==
    \/ \E to \in Place : MovePointer(to)
    \/ TaskbarEnter
    \/ TaskbarLeave
    \/ ButtonEnter
    \/ ButtonLeave
    \/ ButtonMotion

MenuStep ==
    \/ \E m \in Menu : \E i \in DOMAIN Items[m] :
          \/ MenuEnter(m, i)
          \/ MenuMotion(m, i)
          \/ MenuButton1Press(m, i)
          \/ MenuButton1Release(m, i)
    \/ \E m \in Menu :
          \/ MenuLeave(m)
          \/ MenuAction(m)
          \/ \E fn \in MenuKey : MenuKeyPress(m, fn)
          \/ \E keyed \in Keyed[m] : MenuCharacter(m, keyed)
    \/ \E fn \in KeyFunction : ShortCutKey(fn)

ButtonStep ==
    \/ \E w \in {"root", "window"} : FrameButton1Press(w) \/ FrameButton3Release(w)
    \/ CtrlButton1Press
    \/ FrameButton1Release
    \/ IconButton1Press
    \/ IconButton3Release
    \/ StartButton1Press
    \/ TaskbarButton1Press
    \/ TaskbarButton3Release
    \/ TaskbarPress
    \/ TaskbarMenu

WindowStep == WindowTakesFocus \/ WindowLeaves \/ MapNotifyProc

Next == Elapse \/ Timeout \/ PointerStep \/ MenuStep \/ ButtonStep \/ WindowStep

Spec == Init /\ [][Next]_vars

\* Time passes, and select returns when the first callout is due: weak fairness of
\* Elapse and Timeout, with what enables them written out.
FairSpec ==
    /\ Spec
    /\ []<>~Waiting \/ []<><<Elapse>>_vars
    /\ []<>~Due \/ []<><<Timeout>>_vars
-----------------------------------------------------------------------------
TypeInv ==
    /\ DOMAIN panel = DOMAIN InitState(AutoHide)
    /\ \A i \in DOMAIN panel.coList : /\ panel.coList[i].cb \in Callback
                                      /\ panel.coList[i].left \in Nat
    /\ panel.mapped \in [Menu -> BOOLEAN]
    /\ panel.child \in [Menu -> Menu \cup {NULL}]
    /\ \A m \in Menu : panel.iFocus[m] \in Focusable(m) \cup {0}
    /\ panel.xfocus \in Menu \cup {NULL}
    /\ panel.pointer \in Place /\ panel.notices = <<>>

\* A submenu waits to pop up only from a menu that is on the screen, and from one
\* item of it: UnmapMenu and Enter take back what an earlier Enter asked for
\* (menu.cc:477, 839), or PopupMenu would extract a child of an unmapped menu.
PopupsOfOpenMenus ==
    \A m \in Menu :
        LET pending == CalloutsOf(panel.coList, <<"PopupMenu", m>>)
        IN  /\ Cardinality(pending) <= 1
            /\ pending # {} => panel.mapped[m] /\ IsDir(m, panel.delayMenuNum[m])

\* What a menu takes for its child is a submenu of its own that is on the screen:
\* UnmapMenu follows child down and clears it in the parent (menu.cc:482, 506),
\* also when a callout unmapped the child behind the parent's back.
ChildIsOpen ==
    \A m \in Menu :
        panel.child[m] # NULL => ParentOf[panel.child[m]] = m /\ panel.mapped[panel.child[m]]

\* While auto-hide is on, the start menu never stands over a taskbar that hid under
\* it: MapMenu shows the bar, a HideTaskbar that was on its way finds the menu
\* (taskbar.cc:1121), and auto-hide is not turned on under an open start menu.
\* (With auto-hide off it may: a callout set before it was turned off hides the bar.)
StartMenuShowsTaskbar == panel.autoHide /\ panel.mapped["start"] => ~panel.hiding

\* A tooltip is on the screen exactly while a callout is there to take it away.
TooltipTimers == panel.tooltip <=> CalloutsOf(panel.coList, <<"UnmapTooltip">>) # {}

\* A tooltip is gone some time after the pointer last entered its button.
TooltipVanishes ==
    []<>(~panel.tooltip \/ CalloutsOf(panel.coList, <<"MapTooltip">>) # {})
=============================================================================
