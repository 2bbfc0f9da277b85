------------------------------- MODULE PanelOps -------------------------------
(***************************************************************************)
(* Menus, the hidden taskbar and tooltips, and the callouts they leave     *)
(* with the timer: menu.cc, menu_func.cc, startmenu.cc, taskbar.cc,        *)
(* tooltip.cc and the menu functions of function.cc.  Each operator takes  *)
(* the state p and returns what the function leaves.                       *)
(*                                                                         *)
(* Abstracted: where menus appear, drawing, sounds and grabs.  One window  *)
(* stands for all of them, since they share ::ctrlMenu, and its menu has   *)
(* no submenus.  Items count from 1; 0 is the code's -1.                   *)
(***************************************************************************)
EXTENDS Timer

CONSTANTS
    Menu,            \* root menus and their submenus; no "icon" without shortcuts on the
                     \* desktop, no "taskbar" unless UseTaskbar
    Items,           \* the function of each item; a submenu stands for Q_DIR
    NULL,
    MenuDelayTime, MenuDelayTime2, TaskbarShowDelay, TaskbarHideDelay,
    TooltipDelayTime, TooltipDisplayTime

RootMenu == {"desktop", "window", "start", "icon", "taskbar"} \cap Menu

ASSUME MenusType ==
    /\ {"desktop", "window", "start"} \subseteq Menu /\ NULL \notin Menu
    /\ DOMAIN Items = Menu
    /\ \A m \in Menu : /\ Items[m] \in Seq(Range(Items[m]))
                       /\ \E i \in DOMAIN Items[m] : Items[m][i] # "Q_SEPARATOR"
                       /\ \A i \in DOMAIN Items[m] : Items[m][i] \notin RootMenu
\* The menu of an item is created with the item (next[] of its parent).
ASSUME SubmenusType ==
    \A m, n \in Menu : \A i \in DOMAIN Items[m], j \in DOMAIN Items[n] :
        Items[m][i] \in Menu /\ Items[m][i] = Items[n][j] => m = n
ASSUME DelaysType ==
    /\ {MenuDelayTime, MenuDelayTime2, TaskbarShowDelay, TaskbarHideDelay} \subseteq Nat
    /\ {TooltipDelayTime, TooltipDisplayTime} \subseteq Nat \ {0}

ParentOf == [c \in Menu |->
    IF \E m \in Menu : c \in Range(Items[m]) THEN CHOOSE m \in Menu : c \in Range(Items[m])
    ELSE NULL]
IsDir(m, i) == Items[m][i] \in Menu

Place == {"edge", "bar", "screen"}
Callback == ({"PopupMenu", "PopdownMenu"} \X Menu)
            \cup {<<"ShowTaskbar">>, <<"HideTaskbar">>, <<"MapTooltip">>, <<"UnmapTooltip">>}

InitState(autoHide) ==
    [ coList       |-> IF autoHide /\ TaskbarHideDelay > 0          \* MapTaskbar
                       THEN InsertCallout(<<>>, TaskbarHideDelay, <<"HideTaskbar">>) ELSE <<>>,
      mapped       |-> [m \in Menu |-> FALSE],
      child        |-> [m \in Menu |-> NULL],
      created      |-> {},             \* submenus next[] points to: creation is delayed
      iFocus       |-> [m \in Menu |-> 0],
      delayMenuNum |-> [m \in Menu |-> 0],
      xfocus       |-> NULL,           \* the menu whose frame has the keyboard
      justMapped   |-> FALSE,
      umReserved   |-> FALSE,
      focusQvwm    |-> "root",
      focusIcon    |-> FALSE,
      autoHide     |-> autoHide,
      hiding       |-> autoHide /\ TaskbarHideDelay = 0,
      tooltip      |-> FALSE,          \* m_mapped of the tooltip in question
      pointer      |-> "screen",       \* the server's: on the edge the bar keeps when hidden,
                                       \* on the rest of the bar, elsewhere
      notices      |-> <<>> ]          \* crossings the moves of the bar cause in this handler
-----------------------------------------------------------------------------
(* Taskbar and tooltip *)

Wait(p, msec, cb) == [p EXCEPT !.coList = InsertCallout(@, msec, cb)]
Cancel(p, cb) == [p EXCEPT !.coList = ResetTimeout(@, cb)]

ShowTaskbar(p) ==
    IF ~p.hiding THEN p
    ELSE [p EXCEPT !.hiding = FALSE, !.notices = Append(@, "Enter")]

\* Mutant: without the test of the start menu.
HideTaskbarAlways(p) ==
    IF p.hiding THEN p
    ELSE [p EXCEPT !.hiding = TRUE, !.notices = Append(@, "Leave")]

HideTaskbar(p) ==
    IF p.hiding \/ p.mapped["start"] THEN p
    ELSE [p EXCEPT !.hiding = TRUE, !.notices = Append(@, "Leave")]

\* Mutant: the tooltip shown without the callout that takes it away.
MapTooltipForever(p) == [p EXCEPT !.tooltip = TRUE]

MapTooltip(p) == Wait([p EXCEPT !.tooltip = TRUE], TooltipDisplayTime, <<"UnmapTooltip">>)
UnmapTooltip(p) == Cancel([p EXCEPT !.tooltip = FALSE], <<"UnmapTooltip">>)
SetTimer(p) == Wait(p, TooltipDelayTime, <<"MapTooltip">>)
ResetTimer(p) ==
    IF CalloutsOf(p.coList, <<"MapTooltip">>) = {} THEN p
    ELSE SetTimer(Cancel(p, <<"MapTooltip">>))

\* Mutant: the window unmapped, its callout kept.
DisableOnlyHides(p) ==
    IF p.tooltip THEN [p EXCEPT !.tooltip = FALSE] ELSE Cancel(p, <<"MapTooltip">>)

Disable(p) == IF p.tooltip THEN UnmapTooltip(p) ELSE Cancel(p, <<"MapTooltip">>)
-----------------------------------------------------------------------------
(* Menus *)

MapMenu(p, m) == [p EXCEPT !.justMapped = TRUE, !.mapped[m] = TRUE, !.xfocus = m]

\* The keyboard goes to the parent; the server refuses it to a frame that is unmapped.
FocusAfter(p, m) ==
    IF ParentOf[m] # NULL THEN (IF p.mapped[ParentOf[m]] THEN ParentOf[m] ELSE NULL) ELSE NULL

\* m and the menus extracted from it: what child leads to.
Extracted(p, m) ==
    {x \in Menu : \A S \in SUBSET Menu :
        m \in S /\ (\A y \in S : p.child[y] \in S \cup {NULL}) => x \in S}

\* Mutant: without ResetTimeout(PopupMenu).
UnmapMenuKeepTimer(p, m) ==
    LET gone == Extracted(p, m)
    IN  [p EXCEPT !.justMapped = FALSE, !.xfocus = FocusAfter(p, m),
                  !.mapped = [x \in Menu |-> x \notin gone /\ @[x]],
                  !.iFocus = [x \in Menu |-> IF x \in gone THEN 0 ELSE @[x]],
                  !.child = [x \in Menu |-> IF x \in gone \cup {ParentOf[m]} THEN NULL ELSE @[x]]]

\* Mutant: the parent keeps its child.
UnmapMenuKeepChild(p, m) ==
    LET gone == Extracted(p, m)
    IN  [p EXCEPT !.justMapped = FALSE, !.xfocus = FocusAfter(p, m),
                  !.mapped = [x \in Menu |-> x \notin gone /\ @[x]],
                  !.iFocus = [x \in Menu |-> IF x \in gone THEN 0 ELSE @[x]],
                  !.coList = Without(@, {"PopupMenu"} \X gone)]

\* UnmapMenu recurs into child; each menu unmapped clears child in its parent,
\* whichever menu that field names by then.
UnmapMenu(p, m) ==
    LET gone == Extracted(p, m)
    IN  [p EXCEPT !.justMapped = FALSE, !.xfocus = FocusAfter(p, m),
                  !.mapped = [x \in Menu |-> x \notin gone /\ @[x]],
                  !.iFocus = [x \in Menu |-> IF x \in gone THEN 0 ELSE @[x]],
                  !.child = [x \in Menu |-> IF x \in gone \cup {ParentOf[m]} THEN NULL ELSE @[x]],
                  !.coList = Without(@, {"PopupMenu"} \X gone)]

ExtractChildMenu(p, m, i) ==
    MapMenu([p EXCEPT !.child[m] = Items[m][i], !.created = @ \cup {Items[m][i]}], Items[m][i])

PopupMenu(p, m) ==
    ExtractChildMenu(IF p.child[m] = NULL THEN p ELSE UnmapMenu(p, p.child[m]),
                     m, p.delayMenuNum[m])

\* Callout::Execute.
Execute(p, cb) ==
    CASE cb[1] = "PopupMenu" -> PopupMenu(p, cb[2])
      [] cb[1] = "PopdownMenu" -> UnmapMenu(p, cb[2])
      [] cb = <<"ShowTaskbar">> -> ShowTaskbar(p)
      [] cb = <<"HideTaskbar">> -> HideTaskbar(p)
      [] cb = <<"MapTooltip">> -> MapTooltip(p)
      [] cb = <<"UnmapTooltip">> -> UnmapTooltip(p)

SetTimeout(p, msec, cb) == IF msec = 0 THEN Execute(p, cb) ELSE Wait(p, msec, cb)

\* The expired callouts of p, or all those of forced, one after another, each off the
\* list before it runs; one that runs may take others off.
Overdue(p, forced) ==
    IF forced = {} THEN Expired(p.coList) ELSE UNION {CalloutsOf(p.coList, cb) : cb \in forced}

RunNext(p, forced) ==
    LET due == Overdue(p, forced)
    IN  IF due = {} THEN p
        ELSE Execute([p EXCEPT !.coList = RemoveAt(@, Min(due))], p.coList[Min(due)].cb)

RunCallouts(p, forced) ==
    LET run[n \in 0..Len(p.coList)] == IF n = 0 THEN p ELSE RunNext(run[n - 1], forced)
    IN  run[Len(p.coList)]

CheckTimeout(p) == RunCallouts(p, {})
ForceTimeout(p, cb) == RunCallouts(p, {cb})

\* StartMenu overrides UnmapMenu.
CloseMenu(p, m) ==
    LET q == UnmapMenu(p, m)
    IN  IF m = "start" /\ p.autoHide /\ p.pointer = "screen"
        THEN SetTimeout(q, TaskbarHideDelay, <<"HideTaskbar">>) ELSE q

\* The menu Qvwm::CheckMenuMapped asks about for the window with the focus.
FocusMenu(p) == IF p.focusQvwm = "root" THEN "desktop" ELSE "window"

CheckAnyMenusMapped(p) ==
    \E m \in RootMenu : p.mapped[m] /\ (m = "desktop" => p.focusQvwm = "root")
                                   /\ (m = "icon" => p.focusIcon)

\* The first that is mapped of the menu of the window with the focus, ::ctrlMenu, the
\* start menu, that of the icon with the focus and the taskbar's: one, and its submenus.
UnmapAllMenus(p, hideTaskbar) ==
    LET order == <<FocusMenu(p), "window", "start">>
                 \o (IF p.focusIcon THEN <<"icon">> ELSE <<>>) \o <<"taskbar">>
        open == {i \in DOMAIN order : order[i] \in Menu /\ p.mapped[order[i]]}
        q == IF open = {} THEN p ELSE CloseMenu(p, order[Min(open)])
    IN  IF hideTaskbar /\ q.autoHide THEN HideTaskbar(q) ELSE q

SetFocus(p, w) ==
    [p EXCEPT !.focusQvwm = w, !.focusIcon = @ /\ w = "root"]

\* StartMenu::MapMenu.
MapStartMenu(p) ==
    MapMenu(SetFocus(IF p.autoHide THEN ShowTaskbar(p) ELSE p, "root"), "start")
-----------------------------------------------------------------------------
(* The pointer on a menu: menu.cc *)

EnterItem(p, m, i) ==
    IF ~p.mapped[m] \/ p.justMapped \/ p.iFocus[m] = i THEN p
    ELSE LET q == Cancel([p EXCEPT !.iFocus[m] = IF Items[m][i] = "Q_SEPARATOR" THEN 0 ELSE i],
                         <<"PopupMenu", m>>)
         IN  IF IsDir(m, i)
             THEN SetTimeout([q EXCEPT !.delayMenuNum[m] = i],
                             IF q.child[m] = NULL THEN MenuDelayTime ELSE MenuDelayTime2,
                             <<"PopupMenu", m>>)
             ELSE IF q.child[m] = NULL THEN q
                  ELSE SetTimeout(q, MenuDelayTime, <<"PopdownMenu", q.child[m]>>)

\* entering: an EnterNotify of the child's frame is waiting in the X queue.
LeaveMenu(p, m, entering) ==
    IF p.child[m] # NULL /\ entering THEN p
    ELSE [IF p.child[m] # NULL THEN UnmapMenu(p, p.child[m]) ELSE Cancel(p, <<"PopupMenu", m>>)
            EXCEPT !.iFocus[m] = 0]

PressItem(p, m, i) ==
    IF ~IsDir(m, i) THEN p
    ELSE LET q == ForceTimeout(p, <<"PopupMenu", m>>)
             next == IF Items[m][i] \in q.created THEN Items[m][i] ELSE NULL
         IN  IF q.child[m] = next THEN q
             ELSE ForceTimeout(EnterItem(q, m, i), <<"PopupMenu", m>>)

MoveOverItem(p, m, i) ==
    LET q == IF p.justMapped THEN EnterItem([p EXCEPT !.justMapped = FALSE], m, i) ELSE p
    IN  IF q.iFocus[m] \notin {0, i} /\ Items[m][i] # "Q_SEPARATOR" THEN EnterItem(q, m, i) ELSE q
-----------------------------------------------------------------------------
(* Functions: function.cc and menu_func.cc *)

Q_POPUP_MENU(p, m) == IF p.mapped[m] THEN p ELSE MapMenu(UnmapAllMenus(p, TRUE), m)

EnableAutoHide(p) ==
    IF p.autoHide \/ "taskbar" \notin Menu THEN p ELSE HideTaskbar([p EXCEPT !.autoHide = TRUE])
DisableAutoHide(p) == IF p.autoHide THEN ShowTaskbar([p EXCEPT !.autoHide = FALSE]) ELSE p

\* execFunction(fn)
Function(p, fn) ==
    LET q == UnmapAllMenus(p, FALSE)
    IN  CASE fn = "Q_DESKTOP_FOCUS" -> SetFocus(q, "root")
          [] fn = "Q_POPUP_START_MENU" ->
                IF q.mapped["start"] THEN q ELSE MapStartMenu(SetFocus(q, "root"))
          [] fn = "Q_POPUP_DESKTOP_MENU" -> Q_POPUP_MENU(SetFocus(q, "root"), "desktop")
          [] fn = "Q_POPDOWN_ALL_MENU" -> UnmapAllMenus(q, TRUE)
          [] fn = "Q_TOGGLE_AUTOHIDE" ->
                LET r == UnmapAllMenus(q, FALSE)
                IN  IF r.autoHide THEN DisableAutoHide(r) ELSE EnableAutoHide(r)
          [] fn = "Q_ENABLE_AUTOHIDE" -> EnableAutoHide(q)
          [] fn = "Q_DISABLE_AUTOHIDE" -> DisableAutoHide(q)
          [] fn = "Q_SHOW_TASKBAR" -> IF q.autoHide THEN ShowTaskbar(q) ELSE q
          [] fn = "Q_HIDE_TASKBAR" -> IF q.autoHide THEN HideTaskbar(q) ELSE q
          [] OTHER -> q

\* execFunction(fn, qvWm), for functions that are none of a window's.
WindowFunction(p, fn) == Function(UnmapAllMenus(p, TRUE), fn)

Focusable(m) == {i \in DOMAIN Items[m] : Items[m][i] # "Q_SEPARATOR"}

MoveFocusUp(p, m) ==
    LET above == {i \in Focusable(m) : i < p.iFocus[m]}
    IN  [p EXCEPT !.iFocus[m] = Max(IF above = {} THEN Focusable(m) ELSE above)]

\* Mutant: without the loop over separators and past the end.
MoveFocusDownByOne(p, m) == [p EXCEPT !.iFocus[m] = @ + 1]

MoveFocusDown(p, m) ==
    LET below == {i \in Focusable(m) : i > p.iFocus[m]}
    IN  [p EXCEPT !.iFocus[m] = Min(IF below = {} THEN Focusable(m) ELSE below)]

\* fDir is RIGHT whenever a key arrives: MapMenu ends by setting it.
MoveFocusRight(p, m) ==
    IF p.iFocus[m] = 0 \/ ~IsDir(m, p.iFocus[m]) THEN p
    ELSE LET q == ExtractChildMenu(p, m, p.iFocus[m]) IN MoveFocusDown(q, q.child[m])

MoveFocusLeft(p, m) == IF ParentOf[m] = NULL THEN p ELSE UnmapMenu(p, m)

\* execFunction(fn, menu), Q_ACTION apart.
MenuFunction(p, fn, m) ==
    CASE fn = "Q_POPUP_MENU" -> Q_POPUP_MENU(p, m)
      [] fn = "Q_POPDOWN_MENU" -> CloseMenu(p, m)
      [] fn = "Q_UP_FOCUS" -> MoveFocusUp(p, m)
      [] fn = "Q_DOWN_FOCUS" -> MoveFocusDown(p, m)
      [] fn = "Q_RIGHT_FOCUS" -> MoveFocusRight(p, m)
      [] fn = "Q_LEFT_FOCUS" -> MoveFocusLeft(p, m)
      [] OTHER -> WindowFunction(p, fn)

\* Menu::ExecFunction: execFunction(fn, menu, index).
ExecItem(p, m, i) ==
    IF IsDir(m, i) THEN ExtractChildMenu(p, m, i)
    ELSE IF Items[m][i] = "Q_EXEC" THEN p
    ELSE MenuFunction(p, Items[m][i], m)

Selectable(m, i) == Items[m][i] \notin {"Q_SEPARATOR", "Q_NONE"}

ReleaseItem(p, m, i) ==
    IF Selectable(m, i) /\ ~IsDir(m, i) THEN ExecItem(UnmapAllMenus(p, TRUE), m, i) ELSE p

\* With no item focused the code reads func[-1]: whatever is there is selectable or
\* not, and execFunction then refuses the index.
ExecSelectedItem(p, m) ==
    LET i == p.iFocus[m]
    IN  IF i = 0 THEN {p, UnmapAllMenus(p, TRUE)}
        ELSE IF ~Selectable(m, i) THEN {p}
        ELSE {ExecItem(IF IsDir(m, i) THEN p ELSE UnmapAllMenus(p, TRUE), m, i)}

\* The item i, if it has the key.
ExecKeyed(p, m, keyed, i) ==
    IF i \notin keyed \/ ~Selectable(m, i) THEN p
    ELSE ExecItem(IF IsDir(m, i) THEN [p EXCEPT !.iFocus[m] = i] ELSE UnmapAllMenus(p, TRUE), m, i)

\* Every item with that key is executed, one after another.
ExecShortCutKey(p, m, keyed) ==
    LET run[i \in 0..Len(Items[m])] == IF i = 0 THEN p ELSE ExecKeyed(run[i - 1], m, keyed, i)
    IN  run[Len(Items[m])]
=============================================================================
