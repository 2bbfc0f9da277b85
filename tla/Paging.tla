-------------------------------- MODULE Paging --------------------------------
(***************************************************************************)
(* Where the windows are.  The pages of rcVirt make one plane; the screen  *)
(* shows the part of it that starts at Paging::origin.  A Qvwm keeps the   *)
(* place of its frame on the plane (rc), the place its client asked for    *)
(* (rcOrig), and its pager a miniature of it; the server keeps the place   *)
(* of the frame on the screen.  Every handler below changes some of these, *)
(* and each has to take the others along.                                  *)
(***************************************************************************)
EXTENDS Geometry

CONSTANTS
    Asked,              \* rcOrig of each window when it is mapped
    InitFlags,          \* its flags
    PagingBeltSize,     \* variables of qvwmrc
    PagingMovement,
    Opaque,             \* OpaqueMove and OpaqueResize
    Thickness,          \* heights and widths the taskbar can be given
    Handled,            \* bounds of the model: windows the user and the clients act on,
    Pointers,           \* places of the pointer,
    Grips,              \* sides and corners to resize by, Zero for Q_RESIZE,
    Keys,               \* arrow keys pressed while a window is resized,
    MaxKeys,            \* and how many of them,
    Positions,          \* positions of the taskbar,
    PagerMoves,         \* motions of the pointer over the pager,
    Requests,           \* what a client configures,
    Configurable,       \* the clients that do,
    TaskbarFunctions,   \* whether Q_TOGGLE_AUTOHIDE and Q_TOGGLE_TASKBAR are used,
    Junk,               \* what an uninitialized Point may hold,
    Reach,              \* how far from the origin a frame may be taken,
    MaxOps              \* and how many operations begin

ASSUME PagingType ==
    /\ Asked \in [Window -> Rect] /\ InitFlags \in [Window -> SUBSET Flag]
    /\ PagingBeltSize \in Nat /\ PagingMovement \in Nat /\ Opaque \in BOOLEAN
    /\ Thickness \subseteq Nat /\ Thickness # {}
    /\ Handled \subseteq Window /\ Pointers \subseteq Point /\ Grips \subseteq [Axis -> {-1, 0, 1}]
    /\ Keys \subseteq Axis \X {-1, 1} /\ MaxKeys \in Nat
    /\ Positions \subseteq {"BOTTOM", "TOP", "LEFT", "RIGHT"} /\ PagerMoves \subseteq Point
    /\ Requests \subseteq [mask : SUBSET (Axis \X {"at", "len"}), at : Point, len : Dim]
    /\ Configurable \subseteq Window /\ TaskbarFunctions \in BOOLEAN /\ Junk \subseteq Point
    /\ Reach \in Nat /\ MaxOps \in Nat

VARIABLES
    origin,      \* Paging::origin
    mapped,      \* the belts that are mapped
    win,         \* the Qvwm, its frame on the server, and its miniature
    bar,         \* the taskbar
    rcScreen,    \* the screen without the taskbar
    drag,        \* the window moved or resized, while that loop runs
    ops          \* bound: operations begun so far

vars == <<origin, mapped, win, bar, rcScreen, drag, ops>>

\* The eight belts are the eight directions.
Belt == [Axis -> {-1, 0, 1}] \ {[a \in Axis |-> 0]}

Status == {"MAXIMIZE", "MINIMIZE"}

Qvwm == [rc : Rect, rcOrig : Rect, rcOrigBak : Rect, flags : SUBSET Flag,
         flagsBak : SUBSET Flag, status : SUBSET Status, frame : Shape, mini : Shape]

TaskbarPos == {"BOTTOM", "TOP", "LEFT", "RIGHT"}
Bar == [pos : TaskbarPos, thick : [TaskbarPos -> Nat],
        autoHide : BOOLEAN, enabled : BOOLEAN]

AxisOf(pos) == IF pos \in {"TOP", "BOTTOM"} THEN "y" ELSE "x"
-----------------------------------------------------------------------------
(* The taskbar and the screen it leaves *)

Thick(b) == b.thick[b.pos]

\* Taskbar::GetRect
BarRect(b) ==
    [a \in Axis |->
       IF a # AxisOf(b.pos) THEN [at |-> 0, len |-> Display[a]]
       ELSE [at  |-> IF b.pos \in {"TOP", "LEFT"} THEN 0 ELSE Display[a] - Thick(b),
             len |-> Thick(b)]]

ScreenBeside(b, thick) ==
    [a \in Axis |->
       IF a # AxisOf(b.pos) THEN [at |-> 0, len |-> Display[a]]
       ELSE [at  |-> IF b.pos \in {"TOP", "LEFT"} THEN thick ELSE 0,
             len |-> Display[a] - thick]]

\* GetScreenRectOnHiding and GetScreenRectOnShowing
ScreenRect(b) == ScreenBeside(b, IF b.autoHide THEN 2 ELSE Thick(b))
-----------------------------------------------------------------------------
(* rcOrig and rc *)

\* What the place of a frame depends on besides its Qvwm.
Env == [origin : Point, bar : Bar, rcScreen : Rect]
Here == [origin |-> origin, bar |-> bar, rcScreen |-> rcScreen]

\* What separates rc from rcOrig in CalcWindowPos and ConfigureNewRect; a SOUTH or
\* EAST gravity is measured from the taskbar.
Displacement(w, f, e) ==
    [a \in Axis |->
       e.rcScreen[a].at + GravityShift(w, f)[a]
       + (IF "STICKY" \in f THEN e.origin[a] ELSE 0)
       - (IF a = AxisOf(e.bar.pos) /\ Gravity[w][a] = EAST THEN Thick(e.bar) ELSE 0)]

CalcWindowPos(w, base, f, e) ==
    [a \in Axis |-> [at  |-> base[a].at + Displacement(w, f, e)[a],
                     len |-> base[a].len + Around(f)[a]]]

\* Mutant: the place of the screen beside the taskbar is not taken off.
ConfigureNewRectOnRoot(w, x, rect, e) ==
    [x EXCEPT !.rc = rect,
              !.rcOrig = [a \in Axis |->
                            [at  |-> rect[a].at - Displacement(w, x.flags, e)[a] + e.rcScreen[a].at,
                             len |-> rect[a].len - Around(x.flags)[a]]]]

\* ConfigureNewRect, for a Qvwm record of the window w.
ConfigureNewRect(w, x, rect, e) ==
    [x EXCEPT !.rc = rect,
              !.rcOrig = [a \in Axis |->
                            [at  |-> rect[a].at - Displacement(w, x.flags, e)[a],
                             len |-> rect[a].len - Around(x.flags)[a]]]]

\* Where the server has the frame of a window at rc.
Shown(rc, o) == [a \in Axis |-> [rc[a] EXCEPT !.at = @ - o[a]]]

\* The geometry RedrawWindow gives the frame and the miniature.
RedrawWindow(x, e) ==
    [x EXCEPT !.frame = Shown(x.rc, e.origin), !.mini = ConvertToPagerSize(x.rc)]

MoveMiniature(x, pt) == [x EXCEPT !.mini = PlaceAt(@, ConvertToPagerPos(pt))]

\* Mutant: a maximized window is given its new place and not drawn there.
RecalcWindowUndrawn(w, x, e) ==
    IF "MAXIMIZE" \in x.status
    THEN LET fix == GetFixSize(w, x.flags, e.rcScreen, e.rcScreen)
         IN  ConfigureNewRect(w, x, Shift(fix, e.origin), e)
    ELSE LET y == [x EXCEPT !.rc = CalcWindowPos(w, x.rcOrig, x.flags, e)]
         IN  [y EXCEPT !.frame = PlaceAt(@, Corner(Shown(y.rc, e.origin)))]

\* RecalcWindow, of each window, when the taskbar has been moved.
RecalcWindow(w, x, e) ==
    IF "MAXIMIZE" \in x.status
    THEN LET fix == GetFixSize(w, x.flags, e.rcScreen, e.rcScreen)
         IN  RedrawWindow(ConfigureNewRect(w, x, Shift(fix, e.origin), e), e)
    ELSE LET y == [x EXCEPT !.rc = CalcWindowPos(w, x.rcOrig, x.flags, e)]
         IN  [y EXCEPT !.frame = PlaceAt(@, Corner(Shown(y.rc, e.origin)))]
-----------------------------------------------------------------------------
(* Paging *)

\* Mutant: the belt at the far edge of the pages stays mapped.
MapBeltsPast(to) ==
    LET Leads(a, dir) == CASE dir = -1 -> to[a] > Lowest(a)
                           [] dir = 1  -> MaxOf(to[a], Lowest(a)) <= Highest(a)
                           [] OTHER    -> TRUE
    IN  IF PagingBeltSize = 0 THEN {} ELSE {b \in Belt : \A a \in Axis : Leads(a, b[a])}

\* MapBelts: a belt leads where origin can still go.  The lower edge is looked at
\* before the upper one has moved origin back.
MapBelts(to) ==
    LET Leads(a, dir) == CASE dir = -1 -> to[a] > Lowest(a)
                           [] dir = 1  -> MaxOf(to[a], Lowest(a)) < Highest(a)
                           [] OTHER    -> TRUE
    IN  IF PagingBeltSize = 0 THEN {} ELSE {b \in Belt : \A a \in Axis : Leads(a, b[a])}

\* Mutant: rc of a STICKY window is left on the old page.
PagedLeft(x, from, to) ==
    IF "STICKY" \in x.flags THEN x ELSE [x EXCEPT !.frame = PlaceAt(@, Corner(Shown(x.rc, to)))]

\* One window in PagingAllWindows, after the last of its PagingSpeed steps.
Paged(x, from, to) ==
    IF "STICKY" \in x.flags
    THEN LET rect == Shift(x.rc, Minus(to, from))
         IN  MoveMiniature([x EXCEPT !.rc = rect], Corner(rect))
    ELSE [x EXCEPT !.frame = PlaceAt(@, Corner(Shown(x.rc, to)))]

\* origin = to; PagingAllWindows(oldOrigin)
PagingAllWindows(ws, to) ==
    /\ origin' = Clamp(to)
    /\ mapped' = MapBelts(to)
    /\ win' = IF origin' = origin THEN ws ELSE [w \in Window |-> Paged(ws[w], origin, origin')]

\* AdjustPage at the end of a handler that has made x of the window w.
ThenAdjustPage(w, x) ==
    LET ws == [win EXCEPT ![w] = x]
    IN  IF "STICKY" \in x.flags THEN win' = ws /\ UNCHANGED <<origin, mapped>>
        ELSE PagingAllWindows(ws, PageOf(x.rc))
-----------------------------------------------------------------------------
(* Pages: belts, keys, the pager, and GNOME's _WIN_AREA *)

NoDrag == [kind |-> "none"]
Idle == drag = NoDrag

SwitchPage(a, step) ==
    /\ Idle
    /\ PagingAllWindows(win, [origin EXCEPT ![a] = @ + step * Display[a]])
    /\ UNCHANGED <<bar, rcScreen, drag>>

\* GetBeltPos: the direction of the belt under the pointer, if there is one.
BeltAt(pt) ==
    [a \in Axis |-> IF pt[a] < PagingBeltSize THEN -1
                    ELSE IF pt[a] >= Display[a] - PagingBeltSize THEN 1 ELSE 0]

Zero == [a \in Axis |-> 0]
MOVEMENT == 13
BeltMove(belt) == [a \in Axis |-> belt[a] * Div(PagingMovement * Display[a], 100)]

\* What HandlePaging may return for the pointer at pt: a page in the direction of
\* the belt, if it is mapped and the pointer rests there for PagingResistance.
HandlePaging(pt) ==
    {Zero} \cup {BeltMove(belt) : belt \in {BeltAt(pt)} \cap mapped}

EnterBelt(pt) ==
    /\ Idle /\ BeltAt(pt) \in mapped
    /\ PagingAllWindows(win, Plus(origin, BeltMove(BeltAt(pt))))
    /\ UNCHANGED <<bar, rcScreen, drag>>

Page(cell) == [a \in Axis |-> (cell[a] + rcVirt[a].at) * Display[a]]

\* Pager::Button1Press on the page numbered cell, and Gnome::SetProperty, where
\* any number may come from the client.
TurnToPage(cell) ==
    /\ Idle
    /\ PagingAllWindows(win, Page(cell))
    /\ UNCHANGED <<bar, rcScreen, drag>>

\* One motion of Pager::Button3Press.
PagerButton3Motion(move) ==
    /\ Idle
    /\ PagingAllWindows(win, [a \in Axis |-> origin[a] + move[a] * Div(Display[a], PageSize[a])])
    /\ UNCHANGED <<bar, rcScreen, drag>>

\* Called by itself from RollFocus, the switcher and the taskbar buttons.
AdjustPage(w) ==
    /\ Idle /\ "STICKY" \notin win[w].flags
    /\ PagingAllWindows(win, PageOf(win[w].rc))
    /\ UNCHANGED <<bar, rcScreen, drag>>
-----------------------------------------------------------------------------
(* MaximizeWindow, MinimizeWindow, RestoreWindow and the toggles *)

\* rc of a window that fills the screen.
FullScreen(w, f) == Shift(GetFixSize(w, f, rcScreen, rcScreen), origin)

Resized(w, x, rect, e) == RedrawWindow(ConfigureNewRect(w, x, rect, e), e)

MaximizeWindow(w) ==
    LET x == win[w]
        f == x.flags \ {"BORDER"}
        y == [x EXCEPT !.flags = f, !.rcOrigBak = x.rcOrig, !.status = {"MAXIMIZE"},
                       !.flagsBak = IF "MINIMIZE" \in x.status THEN @ ELSE x.flags]
    IN  /\ Idle /\ "MAXIMIZE" \notin x.status
        /\ win' = [win EXCEPT ![w] = Resized(w, y, FullScreen(w, f), Here)]
        /\ UNCHANGED <<origin, mapped, bar, rcScreen, drag>>

Minimized(x) ==
    IF "MINIMIZE" \in x.status THEN x
    ELSE [x EXCEPT !.status = @ \cup {"MINIMIZE"},
                   !.flagsBak = IF "MAXIMIZE" \in x.status THEN @ ELSE x.flags]

MinimizeWindow(w) ==
    /\ Idle /\ "MINIMIZE" \notin win[w].status
    /\ win' = [win EXCEPT ![w] = Minimized(@)]
    /\ UNCHANGED <<origin, mapped, bar, rcScreen, drag>>

\* From minimized to maximized, or else to the place of the normal window.
Restored(w, x) ==
    IF x.status = Status
    THEN LET y == [x EXCEPT !.flags = @ \ {"BORDER"}, !.status = {"MAXIMIZE"}]
         IN  Resized(w, y, FullScreen(w, x.flags), Here)
    ELSE LET base == IF "MAXIMIZE" \in x.status THEN x.rcOrigBak ELSE x.rcOrig
             y == [x EXCEPT !.flags = x.flagsBak, !.rcOrig = base, !.status = {}]
         IN  Resized(w, y, CalcWindowPos(w, base, y.flags, Here), Here)

RestoreWindow(w) ==
    /\ Idle /\ win[w].status # {}
    /\ ThenAdjustPage(w, Restored(w, win[w]))
    /\ UNCHANGED <<bar, rcScreen, drag>>

Toggle(set, f) == IF f \in set THEN set \ {f} ELSE set \cup {f}

Toggled(w, f) ==
    LET x == [win[w] EXCEPT !.flags = Toggle(@, f)]
    IN  ConfigureNewRect(w, x, x.rc, Here)

\* Q_TOGGLE_STICKY and WIN_STATE_STICKY
ToggleSticky(w) ==
    /\ Idle
    /\ win' = [win EXCEPT ![w] = Toggled(w, "STICKY")]
    /\ UNCHANGED <<origin, mapped, bar, rcScreen, drag>>

\* Q_TOGGLE_BORDER and its like go through the icon to be drawn anew.
ToggleFrame(w, f) ==
    /\ Idle
    /\ ThenAdjustPage(w, Restored(w, Minimized(Toggled(w, f))))
    /\ UNCHANGED <<bar, rcScreen, drag>>

\* Configure: the frame's sizes are those before the window is un-maximized.
Configure(w, req) ==
    LET x == win[w]
        unmax == x.status = {"MAXIMIZE"}
        Asks(a, field) == <<a, field>> \in req.mask
        y == [x EXCEPT
                !.rcOrig = [a \in Axis |->
                    [at  |-> IF Asks(a, "at")
                             THEN req.at[a] - rcScreen[a].at
                                  + (IF "STICKY" \in x.flags THEN 0 ELSE origin[a])
                             ELSE @[a].at,
                     len |-> IF Asks(a, "len") THEN req.len[a] ELSE @[a].len]],
                !.rc = [a \in Axis |->
                    [at  |-> IF Asks(a, "at") THEN req.at[a] + origin[a] - Before(x.flags)[a]
                             ELSE @[a].at,
                     len |-> IF Asks(a, "len") THEN req.len[a] + Around(x.flags)[a] ELSE @[a].len]],
                !.status = IF unmax THEN {} ELSE @,
                !.flags = IF unmax THEN x.flagsBak ELSE @]
    IN  /\ Idle
        /\ win' = [win EXCEPT ![w] = RedrawWindow(y, Here)]
        /\ UNCHANGED <<origin, mapped, bar, rcScreen, drag>>
-----------------------------------------------------------------------------
(* The taskbar takes its part of the screen *)

RecalcAllWindows(b, scr) ==
    /\ bar' = b /\ rcScreen' = scr
    /\ win' = [w \in Window |-> RecalcWindow(w, win[w], [Here EXCEPT !.bar = b, !.rcScreen = scr])]
    /\ UNCHANGED <<origin, mapped, drag>>

\* MoveTaskbar(TaskbarPos) leaves rcScreen as it is.
MoveTaskbar(pos) ==
    Idle /\ RecalcAllWindows([bar EXCEPT !.pos = pos], rcScreen)

\* ResizeTaskbar takes rcScreen from rc[pos] and then sets rc[pos], which the last
\* motion has set already when OpaqueResize is set.
ResizeTaskbar(thick) ==
    LET b == [bar EXCEPT !.thick[bar.pos] = thick]
    IN  Idle /\ RecalcAllWindows(b, ScreenRect(IF Opaque THEN b ELSE bar))

\* EnableTaskbar and DisableTaskbar, whose rcScreen is the root window's rectangle.
ToggleTaskbar ==
    LET b == [bar EXCEPT !.enabled = ~@]
    IN  /\ Idle /\ TaskbarFunctions
        /\ RecalcAllWindows(b, IF b.enabled THEN ScreenRect(b)
                               ELSE [a \in Axis |-> [at |-> 0, len |-> Display[a]]])

RearrangeAll ==
    \/ ToggleTaskbar
    \/ \E pos \in Positions : MoveTaskbar(pos)
    \/ \E thick \in Thickness : ResizeTaskbar(thick)

\* Q_ENABLE_AUTOHIDE and Q_DISABLE_AUTOHIDE
ToggleAutoHide ==
    /\ Idle /\ TaskbarFunctions
    /\ bar' = [bar EXCEPT !.autoHide = ~@]
    /\ rcScreen' = ScreenRect(bar')
    /\ UNCHANGED <<origin, mapped, win, drag>>
-----------------------------------------------------------------------------
(* Moving and resizing: event loops of their own *)

\* origin and the windows after HandlePaging has returned delta.
After(delta, ws) ==
    LET to == Clamp(Plus(origin, delta))
    IN  IF to = origin THEN ws ELSE [w \in Window |-> Paged(ws[w], origin, to)]

HandlePagingDone(delta) ==
    IF delta = Zero THEN UNCHANGED <<origin, mapped>>
    ELSE origin' = Clamp(Plus(origin, delta)) /\ mapped' = MapBelts(Plus(origin, delta))

\* drag.rc is rcNew, drag.shown rcShown; drag.pt is ptOld.
MoveWindow(w, pt) ==
    /\ Idle /\ win[w].status = {}
    /\ drag' = [kind |-> "move", w |-> w, rc |-> win[w].frame, shown |-> win[w].frame, pt |-> pt]
    /\ UNCHANGED <<origin, mapped, win, bar, rcScreen>>

\* The frame and the miniature of a window being dragged.
Dragged(x, shown, o) ==
    MoveMiniature([x EXCEPT !.frame = PlaceAt(@, Corner(shown))], Plus(Corner(shown), o))

MoveMotion(pt) ==
    /\ drag.kind = "move"
    /\ \E delta \in HandlePaging(pt) :
         LET at == Minus(pt, delta)
             rc == Shift(drag.rc, Minus(at, drag.pt))
             shown == FixToScreen(rc, rcScreen)
             ws == After(delta, win)
         IN  /\ HandlePagingDone(delta)
             /\ drag' = [drag EXCEPT !.rc = rc, !.shown = shown, !.pt = at]
             /\ win' = IF ~Opaque THEN ws ELSE [ws EXCEPT ![drag.w] = Dragged(@, shown, origin')]
    /\ UNCHANGED <<bar, rcScreen>>

MoveDecide ==
    LET rect == Shift(drag.shown, origin)
        x == ConfigureNewRect(drag.w, win[drag.w], rect, Here)
    IN  /\ drag.kind = "move"
        /\ win' = [win EXCEPT ![drag.w] = Dragged(x, drag.shown, origin)]
        /\ drag' = NoDrag
        /\ UNCHANGED <<origin, mapped, bar, rcScreen>>

\* The side frames and corners are unmapped while a window is maximized.  Q_RESIZE
\* holds no side yet, and only then do the arrow keys count (keys bounds them).
ResizeWindow(w, pos) ==
    LET rc == win[w].frame
    IN  /\ Idle /\ win[w].status = {}
        /\ drag' = [kind |-> "resize", w |-> w, rc |-> rc, pos |-> pos, keys |-> IF pos = Zero THEN MaxKeys ELSE 0,
                    base |-> [a \in Axis |-> IF pos[a] = -1 THEN End(rc[a]) ELSE rc[a].at]]
        /\ UNCHANGED <<origin, mapped, win, bar, rcScreen>>

\* The case MotionNotify, which a key falls into, with the drag d and ptNew at pt.
ResizeTo(d, pt) ==
    /\ \E delta \in HandlePaging(pt) :
         LET base == Minus(d.base, delta)
             rc == FixWindowShape(d.w, Shift(d.rc, Minus(Zero, delta)), d.pos, base,
                                  Minus(pt, delta), Around(win[d.w].flags))
             ws == After(delta, win)
         IN  /\ HandlePagingDone(delta)
             /\ drag' = [d EXCEPT !.rc = rc, !.base = base]
             /\ win' = IF ~Opaque THEN ws
                       ELSE [ws EXCEPT ![d.w] =
                               Resized(d.w, @, Shift(rc, origin'),
                                       [Here EXCEPT !.origin = origin'])]
    /\ UNCHANGED <<bar, rcScreen>>

ResizeMotion(pt) == drag.kind = "resize" /\ ResizeTo(drag, pt)

\* The drag d once an arrow key has picked the side dir of the axis a.
Taken(d, a, dir) ==
    [d EXCEPT !.pos[a] = dir, !.base[a] = IF dir = -1 THEN End(d.rc[a]) ELSE d.rc[a].at]

\* An arrow key: the first on an axis picks the side that moves and warps the pointer
\* to it, and each moves the pointer on.
ResizeKey(key, pt) ==
    LET a == key[1]  dir == key[2]
        takes == drag.pos[a] = 0
        side == IF dir = -1 THEN drag.rc[a].at ELSE End(drag.rc[a])
        d == [drag EXCEPT !.keys = @ - 1]
    IN  /\ drag.kind = "resize" /\ drag.keys > 0
        /\ ResizeTo(IF takes THEN Taken(d, a, dir) ELSE d,
                    [pt EXCEPT ![a] = (IF takes THEN side ELSE @) + dir * MOVEMENT])

ResizeDecide ==
    /\ drag.kind = "resize"
    /\ win' = IF Opaque THEN win
              ELSE [win EXCEPT ![drag.w] = Resized(drag.w, @, Shift(drag.rc, origin), Here)]
    /\ drag' = NoDrag
    /\ UNCHANGED <<origin, mapped, bar, rcScreen>>
-----------------------------------------------------------------------------
(* Miniature::Button2Press *)

PlaceFromPager(w, x, pt) ==
    LET rect == PlaceAt(x.rc, ConvertToRealPos(pt))
    IN  [ConfigureNewRect(w, x, rect, Here)
            EXCEPT !.frame = PlaceAt(@, Corner(Shown(rect, origin)))]

MiniatureButton2Press(w) ==
    /\ Idle /\ "MINIMIZE" \notin win[w].status
    /\ ThenAdjustPage(w, win[w])
    /\ drag' = [kind |-> "mini", w |-> w, moved |-> FALSE]
    /\ UNCHANGED <<bar, rcScreen>>

MiniatureMotion(move) ==
    LET x == [win[drag.w] EXCEPT !.mini = Shift(@, move)]
    IN  /\ drag.kind = "mini" /\ "MAXIMIZE" \notin win[drag.w].status
        /\ win' = [win EXCEPT ![drag.w] =
                     IF Opaque THEN PlaceFromPager(drag.w, x, Corner(x.mini)) ELSE x]
        /\ drag' = [drag EXCEPT !.moved = TRUE]
        /\ UNCHANGED <<origin, mapped, bar, rcScreen>>

\* ptMini is set by a motion only.
MiniatureDecide ==
    /\ drag.kind = "mini"
    /\ IF Opaque THEN win' = win
       ELSE \E pt \in IF drag.moved THEN {Corner(win[drag.w].mini)} ELSE Junk :
              win' = [win EXCEPT ![drag.w] = PlaceFromPager(drag.w, @, pt)]
    /\ drag' = NoDrag
    /\ UNCHANGED <<origin, mapped, bar, rcScreen>>
-----------------------------------------------------------------------------
NewQvwm(w) ==
    LET e == [origin |-> Zero, bar |-> bar, rcScreen |-> rcScreen]
        rc == CalcWindowPos(w, Asked[w], InitFlags[w], e)
    IN  [rc |-> rc, rcOrig |-> Asked[w], rcOrigBak |-> Asked[w], flags |-> InitFlags[w],
         flagsBak |-> InitFlags[w], status |-> {}, frame |-> Shown(rc, Zero),
         mini |-> ConvertToPagerSize(rc)]

Init ==
    /\ origin = Zero /\ mapped = MapBelts(Zero)
    /\ \E pos \in Positions, thick \in Thickness :
         bar = [pos |-> pos, thick |-> [p \in TaskbarPos |-> thick],
                 autoHide |-> FALSE, enabled |-> TRUE]
    /\ rcScreen = ScreenRect(bar)
    /\ win = [w \in Window |-> NewQvwm(w)]
    /\ drag = NoDrag /\ ops = 0

InReach(ws) == \A w \in Window, a \in Axis : Abs(ws[w].rc[a].at) <= Reach

Cells == [Axis -> UNION {-1..rcVirt[a].len : a \in Axis}]

Next ==
    /\ \/ \E a \in Axis, step \in {-1, 1} : SwitchPage(a, step)
       \/ \E pt \in Pointers : EnterBelt(pt) \/ MoveMotion(pt) \/ ResizeMotion(pt)
       \/ \E key \in Keys, pt \in Pointers : ResizeKey(key, pt)
       \/ \E cell \in Cells : TurnToPage(cell)
       \/ \E move \in PagerMoves : PagerButton3Motion(move) \/ MiniatureMotion(move)
       \/ \E w \in Handled :
            \/ AdjustPage(w) \/ MaximizeWindow(w) \/ MinimizeWindow(w) \/ RestoreWindow(w)
            \/ ToggleSticky(w) \/ MiniatureButton2Press(w)
            \/ \E f \in {"BORDER", "BORDER_EDGE", "TITLE"} : ToggleFrame(w, f)
            \/ \E pt \in Pointers : MoveWindow(w, pt)
            \/ \E pos \in Grips : ResizeWindow(w, pos)
       \/ \E w \in Configurable, req \in Requests : Configure(w, req)
       \/ RearrangeAll \/ ToggleAutoHide \/ MoveDecide \/ ResizeDecide \/ MiniatureDecide
    /\ InReach(win')
    /\ ops' = IF Idle THEN ops + 1 ELSE ops
    /\ ops' <= MaxOps

Spec == Init /\ [][Next]_vars
-----------------------------------------------------------------------------
(* Properties *)

TypeInv ==
    /\ origin \in Point /\ mapped \subseteq Belt
    /\ win \in [Window -> Qvwm]
    /\ bar \in Bar /\ rcScreen \in Rect /\ ops \in 0..MaxOps
    /\ \/ drag = NoDrag
       \/ drag \in [kind : {"move"}, w : Window, rc : Rect, shown : Rect, pt : Point]
       \/ drag \in [kind : {"resize"}, w : Window, rc : Rect, pos : [Axis -> {-1, 0, 1}],
                    keys : 0..MaxKeys, base : Point]
       \/ drag \in [kind : {"mini"}, w : Window, moved : BOOLEAN]

Held == IF drag.kind = "move" THEN {drag.w} ELSE {}

\* The server has every frame where the Qvwm believes it to be: rc less origin, on
\* whatever page the window is and whichever handler has moved it last (a window
\* being dragged is ahead of its rc until the button is released).
FrameAgrees == \A w \in Window \ Held : win[w].frame = Shown(win[w].rc, origin)

\* Paging promises what Plane says: no handler moves a window other than its own
\* except by a page turn, and that keeps STICKY windows on the screen and the
\* others on the plane.
Pages == INSTANCE Plane WITH
    plane <- [w \in Window |-> Corner(win[w].rc)],
    screen <- [w \in Window |-> Corner(win[w].frame)],
    pinned <- [w \in Window |-> "STICKY" \in win[w].flags],
    held <- Held

PagesKept == Pages!Spec

\* A belt is mapped just where origin can go on in its direction: a belt mapped at
\* the edge of the pages would take the pointer across the screen and turn nothing.
BeltsLead ==
    PagingBeltSize > 0 =>
        \A b \in Belt : b \in mapped <=> (\A a \in Axis : b[a] # 0 => Clamp(Plus(origin, b))[a] # origin[a])

\* How far a window is from where its rcOrig would put it.
Gap(w) ==
    LET rest == CalcWindowPos(w, win[w].rcOrig, win[w].flags, Here)
    IN  [a \in Axis |-> <<win[w].rc[a].at - rest[a].at, win[w].rc[a].len - rest[a].len>>]

\* rcOrig is what the window is put back to, when it is restored or the taskbar
\* moves: every handler that moves the window, turns the page under a STICKY one or
\* changes its frame takes rcOrig along, and no window jumps later.  Only a change
\* of rcScreen that does not recalculate the windows opens a gap.
RestKept ==
    [][rcScreen' = rcScreen /\ bar' = bar =>
         \A w \in Window, a \in Axis : Gap(w)'[a] \in {Gap(w)[a], <<0, 0>>}]_vars

\* The centre of w is on a page, and AdjustPage shows it on the axis a.
CentreOn(w, a) ==
    LET centre == win[w].rc[a].at + Div(win[w].rc[a].len, 2)
    IN  (Lowest(a) <= centre /\ centre < Highest(a) + Display[a]) =>
            (origin'[a] <= centre /\ centre < origin'[a] + Display[a])

\* Where a page of negative coordinates begins: PageOf goes one page too far for a
\* centre that is just there.
PageEdge(w, a) ==
    LET centre == win[w].rc[a].at + Div(win[w].rc[a].len, 2)
    IN  centre < 0 /\ centre % Display[a] = 0

\* AdjustPage brings the centre of the window to the screen, if any page has it, from
\* whatever page the user looks at and wherever the pager has dragged origin.
CentreShown ==
    [][\A w \in Handled : AdjustPage(w) => \A a \in Axis : PageEdge(w, a) \/ CentreOn(w, a)]_vars

\* While a window is resized, by the pointer or by keys that take one side and then
\* another, the side that is not dragged stays where it is on the
\* plane, when HandlePaging turns the page too, unless the turn is cut short at the
\* edge of the pages: HandlePaging returns the whole of it.
ResizeKeepsBase ==
    [][(drag.kind = "resize" /\ drag'.kind = "resize" /\ "STICKY" \notin win[drag.w].flags) =>
         \A a \in Axis :
            LET Base(rc) == IF drag'.pos[a] = -1 THEN End(rc[a]) ELSE rc[a].at
            IN  Abs(origin'[a] - origin[a]) \in {0, Div(PagingMovement * Display[a], 100)} =>
                    Base(win'[drag.w].rc) = Base(win[drag.w].rc)]_vars
=============================================================================
