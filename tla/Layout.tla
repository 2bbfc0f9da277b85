-------------------------------- MODULE Layout --------------------------------
(***************************************************************************)
(* The places qvwm chooses: for a new window, for a window that is         *)
(* expanded or dropped, for all windows when they are rearranged, for the  *)
(* icons of the desktop, and for the buttons of the taskbar.               *)
(***************************************************************************)
EXTENDS Geometry, QvList

S == INSTANCE SequencesExt

CONSTANTS
    NewSize,            \* size of the frame of each new window
    Sticky,             \* windows that are STICKY
    SmartPlacement,     \* variable of qvwmrc
    TopBorder,          \* Qvwm::TOP_BORDER
    rcPager,            \* rectangle of the pager
    Icon, IconList,     \* icons of the desktop, and Desktop::iconList
    IconStep,           \* IconSize and the spacing
    ButtonHeight,       \* TaskbarButton::BUTTON_HEIGHT
    StartWidth, ClockWidth, IndicatorSize,      \* what the taskbar holds besides the buttons
    Bars,               \* bounds of the model: taskbars,
    Counts,             \* numbers of buttons
    NumInd,             \* and of indicators on it,
    Drops,              \* places where windows are dropped,
    IconMoves,          \* how icons are dragged,
    IconReach,          \* and how far,
    Directions,         \* how windows are expanded,
    Origins,            \* places of the screen on the plane,
    MaxOps              \* and how much is done to windows

VARIABLES
    list,       \* Desktop::qvwmList
    rc,         \* Qvwm::rc of the windows in list
    iconic,     \* those of them in MINIMIZE_WINDOW
    initPos,    \* Desktop::initPos
    origin,     \* Paging::origin
    icons,      \* rcVirt of each icon
    bar,        \* the taskbar: pos, and its height or width
    rcScreen,   \* the screen without the taskbar
    ops         \* bound: what has been done to windows

vars == <<list, rc, iconic, initPos, origin, icons, bar, rcScreen, ops>>

Known == S!ToSet(list)
Mapped == Known \ iconic

BETWEEN_SPACE == 3
IC_MARGIN == 6
TBOX_MARGIN == 10
IND_MARGIN == 2
BUTTON_WIDTH == 160

ASSUME LayoutType ==
    /\ NewSize \in [Window -> [Axis -> Nat \ {0}]] /\ Sticky \subseteq Window
    /\ SmartPlacement \in BOOLEAN /\ TopBorder \in Nat /\ rcPager \in Rect
    /\ IconStep \in [Axis -> Nat \ {0}]
    /\ Icon = S!ToSet(IconList) /\ S!IsInjective(IconList)
    /\ ButtonHeight \in Nat \ {0} /\ StartWidth \in Nat /\ ClockWidth \in Nat
    /\ Origins \subseteq Point /\ Drops \subseteq Point /\ MaxOps \in Nat

Horizontal(b) == b.pos \in {"TOP", "BOTTOM"}
BarAxis(b) == IF Horizontal(b) THEN "y" ELSE "x"
AtStart(b) == b.pos \in {"TOP", "LEFT"}

\* The constructor of Taskbar and ResizeTaskbar stop at half of the root window.
ASSUME BarsType ==
    /\ Bars \subseteq [pos : {"TOP", "BOTTOM", "LEFT", "RIGHT"}, thick : Nat]
    /\ \A b \in Bars : 2 * b.thick <= Display[BarAxis(b)]

rcBar == [a \in Axis |->
            IF a # BarAxis(bar) THEN [at |-> 0, len |-> Display[a]]
            ELSE [at |-> IF AtStart(bar) THEN 0 ELSE Display[a] - bar.thick, len |-> bar.thick]]

ScreenBeside(b) ==
    [a \in Axis |-> IF a # BarAxis(b) THEN [at |-> 0, len |-> Display[a]]
                    ELSE [at |-> IF AtStart(b) THEN b.thick ELSE 0, len |-> Display[a] - b.thick]]

\* The screen on the plane.
Here == Shift(rcScreen, origin)

\* A frame that is drawn without decorations: rc is the client.
Fit(w, rect) == GetFixSize(w, {}, rect, rcScreen)

\* A loop over the windows: Step takes on what the ones before have left.
Through(start, Step(_, _)) ==
    LET after[n \in 0..Len(list)] == IF n = 0 THEN start ELSE Step(after[n - 1], list[n])
    IN  after[Len(list)]
-----------------------------------------------------------------------------
(* GetNextPlace *)

Overlapping(r, t) == \A a \in Axis : r[a].at < End(t[a]) /\ t[a].at < End(r[a])

\* Where in the list the windows are that rect would cover.
Covered(rect) == {i \in DOMAIN list : list[i] \notin iconic /\ Overlapping(rc[list[i]], rect)}

\* The first of them, at which the loop over the windows breaks.
InTheWay(rect) == rc[list[S!Min(Covered(rect))]]

RectAt(pt, size) == [a \in Axis |-> [at |-> pt[a], len |-> size[a]]]

\* Mutant: the next row begins below the lowest of the windows in the way.
PlaceInRowLast(y, size) ==
    LET At(x) == RectAt([x |-> x, y |-> y], size)
        none == [found |-> FALSE, x |-> 0, miny |-> End(Here["y"])]
        from[x \in Int] ==
            IF x + size["x"] >= End(Here["x"]) THEN none
            ELSE IF Covered(At(x)) = {} THEN [none EXCEPT !.found = TRUE, !.x = x]
            ELSE [from[End(InTheWay(At(x))["x"])] EXCEPT
                     !.miny = MaxOf(@, End(InTheWay(At(x))["y"]))]
    IN  from[Here["x"].at]

\* The inner loop: rightwards, past each window in the way.  miny is the lowest top
\* of the next row.
PlaceInRow(y, size) ==
    LET At(x) == RectAt([x |-> x, y |-> y], size)
        none == [found |-> FALSE, x |-> 0, miny |-> End(Here["y"])]
        from[x \in Int] ==
            IF x + size["x"] >= End(Here["x"]) THEN none
            ELSE IF Covered(At(x)) = {} THEN [none EXCEPT !.found = TRUE, !.x = x]
            ELSE [from[End(InTheWay(At(x))["x"])] EXCEPT
                     !.miny = MinOf(@, End(InTheWay(At(x))["y"]))]
    IN  from[Here["x"].at]

\* The outer loop: downwards, row by row.
PlaceBelow(size) ==
    LET from[y \in Int] ==
            LET row == PlaceInRow(y, size)
            IN  IF y + size["y"] >= End(Here["y"]) THEN [found |-> FALSE, pt |-> Corner(Here)]
                ELSE IF row.found THEN [found |-> TRUE, pt |-> [x |-> row.x, y |-> y]]
                ELSE from[row.miny]
    IN  from[Here["y"].at]

SmartPlace(size) ==
    IF SmartPlacement THEN PlaceBelow(size) ELSE [found |-> FALSE, pt |-> Corner(Here)]

\* The windows that are not placed cascade from the corner of the screen.
CascadePos(size) ==
    IF \/ initPos + size["x"] + FrameBorder * 2 > rcScreen["x"].len
       \/ initPos + size["y"] + TitleHeight + TopBorder + FrameBorder > rcScreen["y"].len
    THEN 0 ELSE initPos

NewWindow(w) ==
    LET size == NewSize[w]
    IN  /\ w \notin Known
        /\ list' = Append(list, w)
        /\ \E smart \in {SmartPlace(size)}, pos \in {CascadePos(size)} :
             LET pt == IF smart.found THEN smart.pt
                       ELSE [a \in Axis |-> pos + Here[a].at]
             IN  /\ rc' = [rc EXCEPT ![w] = RectAt(pt, size)]
                 /\ initPos' = IF smart.found THEN initPos ELSE pos + TitleHeight + TopBorder
        /\ UNCHANGED <<iconic, origin, icons, bar>>

DestroyWindow(w) ==
    /\ w \in Known
    /\ list' = Remove(list, w) /\ iconic' = iconic \ {w}
    /\ rc' = [rc EXCEPT ![w] = RectAt([x |-> 0, y |-> 0], NewSize[w])]
    /\ UNCHANGED <<initPos, origin, icons, bar>>
-----------------------------------------------------------------------------
(* ExpandWindow *)

\* The directions are pairs of an axis and a side, -1 or 1.
Sides == Axis \X {-1, 1}

\* rpTest lies beside rpOrig, seen along the axis a.
BesideOn(test, orig, a) ==
    End(test[Other(a)]) - 1 > orig[Other(a)].at /\ test[Other(a)].at < End(orig[Other(a)]) - 1

\* Mutant: nothing stops a window on the right and below.
HighStopsOpen(ways, orig, a) == {}

\* FixExpandedShape: where the windows of ways stop a side of orig, the right or lower
\* one after the first point of the window, the left or upper one before it.
HighStops(ways, orig, a) ==
    {t[a].at + 1 : t \in {t \in ways : BesideOn(t, orig, a) /\ End(orig[a]) - 1 <= t[a].at}}

LowStops(ways, orig, a) ==
    {End(t[a]) : t \in {t \in ways : BesideOn(t, orig, a) /\ End(t[a]) - 1 <= orig[a].at}}

\* The windows, the taskbar and the pager stand in the way.
Obstacles == {rc[v] : v \in Mapped} \cup {Shift(rcBar, origin), Shift(rcPager, origin)}

\* rc after ExpandWindow
Expanded(w, dirs) ==
    LET orig == rc[w]
        low == [a \in Axis |-> IF <<a, -1>> \notin dirs THEN orig[a].at
                               ELSE S!Max({Here[a].at} \cup LowStops(Obstacles, orig, a))]
        high == [a \in Axis |-> IF <<a, 1>> \notin dirs THEN End(orig[a])
                                ELSE S!Min({End(Here[a])} \cup {h + 1 : h \in HighStops(Obstacles, orig, a)})]
    IN  Fit(w, [a \in Axis |-> [at |-> low[a], len |-> high[a] - low[a]]])

ExpandWindow(w, dirs) ==
    /\ w \in Mapped /\ Intersect(rc[w], Here)
    /\ rc' = [rc EXCEPT ![w] = Expanded(w, dirs)]
    /\ UNCHANGED <<list, iconic, initPos, origin, icons, bar>>
-----------------------------------------------------------------------------
(* Rearranging *)

\* The rectangle the functions give Overlap and its like.
Visible == [a \in Axis |-> [at |-> origin[a], len |-> rcScreen[a].len]]

Chosen(all, w) == all \/ (w \notin Sticky /\ Intersect(rc[w], Visible))

\* The windows that are rearranged.
Rearranged(all) == {w \in Mapped : Chosen(all, w)}

\* Overlap: a cascade, and further to the right each time it reaches the middle.
Overlap(all) ==
    LET unit == TitleHeight + TopBorder
        Beyond(pt, a) == pt[a] > Div(rcScreen[a].len, 2)
        Put(at, w) ==
          IF w \notin Rearranged(all) THEN at ELSE
            LET on == [a \in Axis |-> at.pt[a] + unit]
                top == [Corner(rcScreen) EXCEPT !["x"] = @ + unit * (at.num + 1)]
                more == \A a \in Axis : ~Beyond(on, a)
            IN  [rc  |-> [at.rc EXCEPT ![w] = PlaceAt(@, Plus(at.pt, origin))],
                 pt  |-> IF more THEN on ELSE IF Beyond(top, "x") THEN Corner(rcScreen) ELSE top,
                 num |-> IF more THEN at.num ELSE IF Beyond(top, "x") THEN 0 ELSE at.num + 1]
    IN  /\ rc' = Through([rc |-> rc, pt |-> Corner(rcScreen), num |-> 0], Put).rc
        /\ UNCHANGED <<list, iconic, initPos, origin, icons, bar>>

\* Mutant: the tiles are put at their shares, whatever size the windows take.
TileApart(axis, all) ==
    LET share == Div(Visible[axis].len, MaxOf(1, Cardinality(Rearranged(all))))
        Put(at, w) ==
          IF w \notin Rearranged(all) THEN at ELSE
            LET tile == [a \in Axis |-> [at |-> at.pt[a], len |-> Visible[a].len]]
                fix == Fit(w, tile)
            IN  [rc |-> [at.rc EXCEPT ![w] = fix], pt |-> [at.pt EXCEPT ![axis] = @ + share]]
    IN  /\ rc' = Through([rc |-> rc, pt |-> Corner(Here)], Put).rc
        /\ UNCHANGED <<list, iconic, initPos, origin, icons, bar>>

\* TileHorz and TileVert
Tile(axis, all) ==
    LET share == Div(Visible[axis].len, MaxOf(1, Cardinality(Rearranged(all))))
        Put(at, w) ==
          IF w \notin Rearranged(all) THEN at ELSE
            LET tile == [a \in Axis |-> [at  |-> at.pt[a],
                                         len |-> IF a = axis THEN share ELSE Visible[a].len]]
                fix == Fit(w, tile)
            IN  [rc |-> [at.rc EXCEPT ![w] = fix], pt |-> [at.pt EXCEPT ![axis] = @ + fix[axis].len]]
    IN  /\ rc' = Through([rc |-> rc, pt |-> Corner(Here)], Put).rc
        /\ UNCHANGED <<list, iconic, initPos, origin, icons, bar>>

MinimizeAll(all) ==
    /\ iconic' = iconic \cup Rearranged(all)
    /\ UNCHANGED <<list, rc, initPos, origin, icons, bar>>

\* A page turn, seen by the windows.
TurnTo(to) ==
    /\ origin' = to
    /\ rc' = [w \in Window |-> IF w \in Sticky \cap Known THEN Shift(rc[w], Minus(to, origin)) ELSE rc[w]]

\* Each RestoreWindow turns to the page of its window, the next one still tests the
\* rectangle of the first page.
RestoreAll(all) ==
    LET back == {w \in Known \cap iconic : Chosen(all, w)}
        turning == {i \in DOMAIN list : list[i] \in back \ Sticky}
    IN  /\ iconic' = iconic \ back
        /\ IF turning = {} THEN UNCHANGED <<rc, origin>>
           ELSE TurnTo(Clamp(PageOf(rc[list[S!Max(turning)]])))
        /\ UNCHANGED <<list, initPos, icons, bar>>

SwitchPage(to) ==
    /\ TurnTo(to)
    /\ UNCHANGED <<list, iconic, initPos, icons, bar>>
-----------------------------------------------------------------------------
(* FixWindowPos: a window that is moved snaps to the others *)

Near(m, n) == Abs(m - n) <= SnappingMove

Touch(t, s, a) == End(s[a]) >= t[a].at /\ s[a].at <= End(t[a])

\* t, lined up with s on the axis a: by the far sides, then by the near ones.
LinedUp(t, s, a) ==
    LET far == IF Near(End(t[a]), End(s[a])) THEN End(s[a]) - t[a].len ELSE t[a].at
    IN  [t EXCEPT ![a].at = IF Near(far, s[a].at) THEN s[a].at ELSE far]

\* Mutant: t goes to the near side of s.
JoinedOver(t, s, a, behind, lineUp) ==
    LET apart == IF behind THEN Near(End(s[a]), t[a].at) ELSE Near(End(t[a]), s[a].at)
        joined == [t EXCEPT ![a].at = IF behind THEN s[a].at ELSE s[a].at - t[a].len]
    IN  IF ~apart THEN t ELSE IF lineUp THEN LinedUp(joined, s, Other(a)) ELSE joined

\* t, put behind s on the axis a or in front of it.
Joined(t, s, a, behind, lineUp) ==
    LET apart == IF behind THEN Near(End(s[a]), t[a].at) ELSE Near(End(t[a]), s[a].at)
        joined == [t EXCEPT ![a].at = IF behind THEN End(s[a]) ELSE s[a].at - t[a].len]
    IN  IF ~apart THEN t ELSE IF lineUp THEN LinedUp(joined, s, Other(a)) ELSE joined

\* Both sides, if the two are beside each other on that axis.
Snapped(t, s, a, behind, lineUp) ==
    IF ~Touch(t, s, Other(a)) THEN t
    ELSE Joined(Joined(t, s, a, behind, lineUp), s, a, ~behind, lineUp)

SnapTo(t, s) ==
    Snapped(Snapped(Snapped(t, s, "x", TRUE, TRUE), s, "y", FALSE, TRUE), s, "x", FALSE, FALSE)

\* A window, as the screen shows it.
Shown(v) == Shift(rc[v], Minus([a \in Axis |-> 0], origin))

\* The windows attract rcTmp one after the other.  Sideways the window goes where the
\* first of them takes rcTmp away (xSnapped), up and down where the last one does.
FixWindowPos(w, shown) ==
    LET Attract(at, v) ==
          IF v \in iconic \cup {w} THEN at ELSE
            LET rcTmp == SnapTo(at.rcTmp, Shown(v))
            IN  [rcTmp |-> rcTmp, x |-> IF at.x = shown["x"].at THEN rcTmp["x"].at ELSE at.x]
        last == Through([rcTmp |-> shown, x |-> shown["x"].at], Attract)
    IN  FixToScreen(IF SnappingMove = 0 THEN shown ELSE [last.rcTmp EXCEPT !["x"].at = last.x], rcScreen)

\* MoveWindow, from the first motion to the release at pt.
MoveWindow(w, pt) ==
    /\ w \in Mapped
    /\ rc' = [rc EXCEPT ![w] = Shift(FixWindowPos(w, PlaceAt(@, pt)), origin)]
    /\ UNCHANGED <<list, iconic, initPos, origin, icons, bar>>
-----------------------------------------------------------------------------
(* Icons: a coordinate of -1 asks for the next place of the grid *)

Unplaced == -1
Asking == [i \in Icon |-> [rcVirt |-> [a \in Axis |-> Unplaced]]]

GridPlace(n, scr) ==
    LET rows == Div(scr["y"].len, IconStep["y"])
    IN  [x |-> IconStep["x"] * Div(n, rows), y |-> IconStep["y"] * (n % rows)]

Numbered(i) == S!SelectInSeq(IconList, LAMBDA j : j = i) - 1

ShowIcon(virt, scr) == [rcVirt |-> virt, rc |-> Plus(virt, Corner(scr))]

\* RedrawAllIcons
Redrawn(shown, scr) ==
    [i \in Icon |->
       ShowIcon([a \in Axis |-> IF shown[i].rcVirt[a] = Unplaced THEN GridPlace(Numbered(i), scr)[a]
                                ELSE shown[i].rcVirt[a]], scr)]

LineUp(n, step) ==
    LET modulo == n - RoundDown(n, step)
    IN  n + (IF modulo > step \div 2 THEN step - modulo ELSE -modulo)

LineUpAllIcons ==
    /\ icons' = [i \in Icon |->
                   ShowIcon([a \in Axis |-> LineUp(icons[i].rcVirt[a], IconStep[a])], rcScreen)]
    /\ UNCHANGED <<list, rc, iconic, initPos, origin, bar>>

\* Button1Motion of an icon: over a window it may not be dropped, and comes back.
DragIcon(i, move, enableDrop) ==
    /\ icons' = [icons EXCEPT ![i] =
                   [rcVirt |-> Plus(@.rcVirt, move),
                    rc     |-> IF enableDrop THEN Plus(@.rc, move) ELSE @.rc]]
    /\ UNCHANGED <<list, rc, iconic, initPos, origin, bar>>
-----------------------------------------------------------------------------
(* The taskbar: the start button, the buttons, and the box of the clock *)

\* TaskbarButton::rcTButton, and out of sight if the taskbar is a line.
rcTButton(b) ==
    [x |-> IF ~Horizontal(b) /\ b.thick = 6 THEN -10000 ELSE IF b.pos = "RIGHT" THEN 0 ELSE 2,
     y |-> IF Horizontal(b) /\ b.thick = 6 THEN -10000 ELSE IF b.pos = "BOTTOM" THEN 0 ELSE 2]

BarWidth(b) == IF Horizontal(b) THEN Display["x"] ELSE b.thick

\* RedrawAllIndicators: what num indicators take of the box.
Indicators(b, num) ==
    LET step == IndicatorSize + 1
        need == num * step + IND_MARGIN * 2 + IC_MARGIN + ClockWidth + TBOX_MARGIN
        row == MaxOf(1, Div(BarWidth(b) - 15, step))
        lines == Div(num + row - 1, row)
    IN  IF num = 0 THEN [width |-> TBOX_MARGIN - IC_MARGIN, height |-> ButtonHeight]
        ELSE IF need <= BarWidth(b) - 9 THEN [width |-> step * num + IND_MARGIN * 2, height |-> ButtonHeight]
        ELSE [width |-> TBOX_MARGIN - IC_MARGIN, height |-> ButtonHeight + (step + 1) * lines + 1]

BoxWidth(b, num) == Indicators(b, num).width + IC_MARGIN + ClockWidth + TBOX_MARGIN

\* The box goes below the buttons of a narrow taskbar.
Narrow(b, num) == ~Horizontal(b) /\ b.thick < StartWidth + BoxWidth(b, num) + 19

\* MoveResizeTaskbarBox
TaskbarBox(b, num) ==
    LET width == BoxWidth(b, num)
        height == Indicators(b, num).height
        cut == MaxOf(1, b.thick - 9)
    IN  IF Horizontal(b)
        THEN [x |-> [at |-> Display["x"] - width - 2, len |-> width],
              y |-> [at |-> IF b.pos = "TOP" THEN 2 ELSE 0, len |-> ButtonHeight]]
        ELSE IF ~Narrow(b, num)
        THEN [x |-> [at |-> b.thick - width - 8, len |-> width],
              y |-> [at |-> rcTButton(b)["y"], len |-> ButtonHeight]]
        ELSE [x |-> IF b.thick - 9 > width
                    THEN [at |-> Div(b.thick - width - 4, 2) + (IF b.pos = "LEFT" THEN 1 ELSE -1),
                          len |-> width]
                    ELSE [at |-> IF b.pos = "LEFT" THEN 3 ELSE 4, len |-> cut],
              y |-> [at |-> Display["y"] - height - 6, len |-> height]]

buttonArea(b, num) ==
    IF Horizontal(b) THEN Display["x"] - StartWidth - BoxWidth(b, num) - BETWEEN_SPACE * 2
    ELSE Display["y"] - (rcTButton(b)["y"] + ButtonHeight + 12)
         - (IF Narrow(b, num) THEN Indicators(b, num).height + 9 ELSE 0)

RoundUp(n, d) == Div(n + d - 1, d) * d
NotZero(n) == IF n = 0 THEN 1 ELSE n

\* Mutant: the space between two buttons is not counted.
ButtonGridTight(b, area, n) ==
    LET row == IF Horizontal(b) THEN MaxOf(1, Div(b.thick, ButtonHeight + BETWEEN_SPACE))
               ELSE Div(area, ButtonHeight + BETWEEN_SPACE)
        shared == NotZero(MinOf(Div(area * row, RoundUp(n, row)), BUTTON_WIDTH))
        cols == Div(n + row - 1, row)
    IN  IF Horizontal(b) THEN [col |-> Div(area, shared), width |-> shared]
        ELSE [col |-> cols, width |-> NotZero(Div(b.thick - 5, cols) - BETWEEN_SPACE)]

\* RedrawAllTaskbarButtons: how many buttons go side by side, and how wide they are.
ButtonGrid(b, area, n) ==
    LET row == IF Horizontal(b) THEN MaxOf(1, Div(b.thick, ButtonHeight + BETWEEN_SPACE))
               ELSE Div(area, ButtonHeight + BETWEEN_SPACE)
        shared == NotZero(MinOf(Div(area * row, RoundUp(n, row)) - BETWEEN_SPACE, BUTTON_WIDTH))
        cols == Div(n + row - 1, row)
    IN  IF Horizontal(b) THEN [col |-> Div(area, shared), width |-> shared]
        ELSE [col |-> cols, width |-> NotZero(Div(b.thick - 5, cols) - BETWEEN_SPACE)]

\* Where RedrawAllTaskbarButtons puts them.
Buttons(b, n, num) ==
    LET grid == ButtonGrid(b, buttonArea(b, num), n)
        first == [x |-> rcTButton(b)["x"] + (IF Horizontal(b) THEN StartWidth + BETWEEN_SPACE ELSE 0),
                  y |-> rcTButton(b)["y"] + (IF Horizontal(b) THEN 0 ELSE ButtonHeight + 12)]
    IN  [i \in 0..n - 1 |->
           [x |-> [at |-> first["x"] + (i - RoundDown(i, grid.col)) * (grid.width + BETWEEN_SPACE),
                   len |-> grid.width],
            y |-> [at |-> first["y"] + Div(i, grid.col) * (ButtonHeight + BETWEEN_SPACE),
                   len |-> ButtonHeight]]]

StartRect(b) ==
    [x |-> [at |-> rcTButton(b)["x"],
            len |-> IF BarWidth(b) > StartWidth + 6 THEN StartWidth ELSE NotZero(BarWidth(b) - 6)],
     y |-> [at |-> rcTButton(b)["y"], len |-> ButtonHeight]]

\* The taskbar is moved or resized.
SetTaskbar(b) ==
    /\ b # bar
    /\ bar' = b /\ rcScreen' = ScreenBeside(b)
    /\ icons' = Redrawn(icons, ScreenBeside(b))
    /\ UNCHANGED <<list, rc, iconic, initPos, origin>>
-----------------------------------------------------------------------------
Init ==
    /\ list = <<>> /\ iconic = {} /\ initPos = 0
    /\ rc = [w \in Window |-> RectAt([a \in Axis |-> 0], NewSize[w])]
    /\ origin = [a \in Axis |-> 0] /\ bar \in Bars /\ rcScreen = ScreenBeside(bar) /\ ops = 0
    /\ icons = Redrawn(Asking, rcScreen)

IconsInReach(shown) == \A i \in Icon, a \in Axis : Abs(shown[i].rcVirt[a]) <= IconReach[a]

WindowStep ==
    \/ \E w \in Window :
         \/ NewWindow(w) \/ DestroyWindow(w)
         \/ \E dirs \in Directions : ExpandWindow(w, dirs)
         \/ \E pt \in Drops : MoveWindow(w, pt)
    \/ \E all \in BOOLEAN :
         \/ Overlap(all) \/ MinimizeAll(all) \/ RestoreAll(all)
         \/ \E axis \in Axis : Tile(axis, all)
    \/ \E to \in Origins : SwitchPage(to)

\* What is done before the first window is opened; windows and icons do not meet.
DesktopStep ==
    \/ \E i \in Icon, move \in IconMoves, enableDrop \in BOOLEAN :
         DragIcon(i, move, enableDrop) /\ IconsInReach(icons') /\ UNCHANGED rcScreen
    \/ LineUpAllIcons /\ UNCHANGED rcScreen
    \/ \E b \in Bars : SetTaskbar(b)

Next ==
    \/ ops = 0 /\ DesktopStep /\ UNCHANGED ops
    \/ /\ ops = 0 => icons = Redrawn(Asking, rcScreen)
       /\ WindowStep
       /\ ops < MaxOps /\ ops' = ops + 1 /\ UNCHANGED rcScreen

Spec == Init /\ [][Next]_vars
-----------------------------------------------------------------------------
(* Properties *)

Clear(rect) == Covered(rect) = {}

\* GetNextPlace finds a clear place for a new window whenever there is one on the
\* screen (a place that would reach the last point of the screen does not count: the
\* loops stop short of it), although it looks at the corners it comes upon only.
PlacedClear ==
    [][\A w \in Window :
         LET Tops(a) == {Here[a].at} \cup {End(rc[v][a]) : v \in Mapped}
             Free(pt) == /\ \A a \in Axis : /\ Here[a].at <= pt[a]
                                            /\ pt[a] + NewSize[w][a] < End(Here[a])
                         /\ Clear(RectAt(pt, NewSize[w]))
         IN  (/\ SmartPlacement /\ w \notin Known /\ w \in Known'
              /\ \E x \in Tops("x"), y \in Tops("y") : Free([x |-> x, y |-> y]))
             => Free(Corner(rc'[w]))]_vars

\* A window that begins on the screen and is no smaller than its hints ask, expanded
\* in one direction, covers at most the first two columns or rows of an obstacle that
\* it did not cover before.  Its outermost row or column on either side does not count:
\* what overlaps only that is not beside the window for FixExpandedShape.
ExpandStops ==
    [][\A w \in Window, dir \in Sides :
         LET a == dir[1]
         IN  /\ rc'[w] # rc[w] /\ iconic' = iconic /\ ExpandWindow(w, {dir})
             /\ Here[a].at <= rc[w][a].at
             /\ \A c \in Axis : Hints[w][c].base <= rc[w][c].len
             => LET inner == [rc'[w] EXCEPT ![a].len = @ - 2,
                                            ![Other(a)] = [at |-> @.at + 1, len |-> @.len - 2]]
                IN  \A t \in Obstacles : Overlapping(inner, t) => Overlapping(rc[w], t)]_vars

\* Each window that attracts the one being moved takes it no further than SnappingMove
\* twice on an axis, and so do the edges of the screen, and then resist: if windows are
\* longer than SnappingMove, and the one that is moved fits on the screen, none takes
\* it out of the reach of the pointer.
SnapNear ==
    [][\A w \in Window, pt \in Drops :
         /\ rc'[w] # rc[w] /\ iconic' = iconic /\ MoveWindow(w, pt)
         /\ \A v \in Mapped, a \in Axis : SnappingMove < rc[v][a].len
         /\ \A a \in Axis : rc[w][a].len <= rcScreen[a].len
         => \A a \in Axis : Abs(rc'[w][a].at - origin[a] - pt[a])
                <= 2 * SnappingMove * Cardinality(Mapped \ {w}) + 2 * SnappingEdges + EdgeResistance]_vars

\* Tiled windows lie side by side, whatever size their hints give them.
TilesApart ==
    [][\A axis \in Axis, all \in BOOLEAN :
         rc' # rc /\ list' = list /\ iconic' = iconic /\ Tile(axis, all) =>
            \A i, j \in DOMAIN list :
                i < j /\ {list[i], list[j]} \subseteq Rearranged(all)
                  => End(rc'[list[i]][axis]) <= rc'[list[j]][axis].at]_vars

\* The buttons of the taskbar cover neither each other nor the start button nor the
\* box of the clock (but for a taskbar of several rows: ButtonGrid leaves the space
\* between the buttons out when it counts how many fit).
ButtonsApart ==
    [][bar' # bar =>
         \A n \in Counts, num \in NumInd :
            LET rects == {Buttons(bar', n, num)[i] : i \in 0..n - 1}
                rows == Div(bar'.thick, ButtonHeight + BETWEEN_SPACE)
                apart == {StartRect(bar')} \cup
                         (IF Horizontal(bar') /\ rows > 1 THEN {} ELSE {TaskbarBox(bar', num)})
            IN  /\ Cardinality(rects) = n
                /\ \A r \in rects :
                    /\ r["x"].len > 0
                    /\ \A t \in apart \cup (rects \ {r}) : ~Overlapping(r, t)]_vars
=============================================================================
