------------------------------- MODULE Geometry -------------------------------
(***************************************************************************)
(* Points, rectangles and the arithmetic qvwm does with them: the frame    *)
(* round a client, gravity, sizes that fit the client's hints, snapping,   *)
(* and the scale of the pager.  The code treats x and width as it treats y *)
(* and height wherever it can, so a point is a function of the axis and a  *)
(* rectangle has, on each axis, where it starts and how long it is.        *)
(***************************************************************************)
EXTENDS Integers, FiniteSets

CONSTANTS
    Window,          \* windows of the clients
    Display,         \* DisplayWidth and DisplayHeight: the size of the root window
    rcVirt,          \* Paging::rcVirt, in pages
    PageSize,        \* Pager::pageSize: a page in the pager
    FrameBorder,     \* Qvwm::BORDER_WIDTH
    TitleHeight,     \* Qvwm::TITLE_HEIGHT
    bwOrig,          \* the border width the client gave its window
    Gravity,         \* GetGravityOffset() of each window
    Hints,           \* WM_NORMAL_HINTS of each window, as GetWindowSizeHints fills it
    SnappingMove, SnappingEdges, EdgeResistance   \* variables of qvwmrc

Axis == {"x", "y"}
Other(a) == IF a = "x" THEN "y" ELSE "x"

Point == [Axis -> Int]
Span == [at : Int, len : Int]
Rect == [Axis -> Span]
Dim == [Axis -> Int]

\* What the server can give a window.
Shape == [Axis -> [at : Int, len : Nat \ {0}]]

End(span) == span.at + span.len

\* Flags that shape the frame, and STICKY.
Flag == {"BORDER", "BORDER_EDGE", "TITLE", "STICKY"}

CENTER == -1
EAST == -2
SOUTH == -2

\* GetWindowSizeHints makes an increment of 0 one; a negative one is left out.
HintsType == [Axis -> [inc : Nat \ {0}, base : Int, min : Int, max : Int]]

ASSUME GeometryType ==
    /\ Display \in [Axis -> Nat \ {0}]
    /\ rcVirt \in [Axis -> [at : Int, len : Nat \ {0}]]
    /\ PageSize \in [Axis -> Nat \ {0}]
    /\ FrameBorder \in Nat /\ TitleHeight \in Nat
    /\ bwOrig \in [Window -> Nat]
    /\ Gravity \in [Window -> [Axis -> {0, CENTER, EAST}]]
    /\ Hints \in [Window -> HintsType]
    /\ SnappingMove \in Nat /\ SnappingEdges \in Nat /\ EdgeResistance \in Nat

\* The constructor of Paging: the pages hold page (0, 0).
ASSUME PagesHoldZero == \A a \in Axis : rcVirt[a].at <= 0 /\ End(rcVirt[a]) > 0

Abs(n) == IF n < 0 THEN -n ELSE n
MinOf(m, n) == IF m < n THEN m ELSE n
MaxOf(m, n) == IF m < n THEN n ELSE m

\* Division of C++, which truncates, and the roundings of util.h built on it.
Div(n, d) == IF n >= 0 THEN n \div d ELSE -((-n) \div d)
RoundDown(n, d) == Div(n, d) * d
RoundOff(n, d) == LET down == RoundDown(n, d)
                  IN  IF n - down > d \div 2 THEN down + d ELSE down

Inside(pt, rc) == \A a \in Axis : rc[a].at <= pt[a] /\ pt[a] < End(rc[a])

Corners(rc) == {[a \in Axis |-> IF far[a] THEN End(rc[a]) - 1 ELSE rc[a].at] :
                    far \in [Axis -> BOOLEAN]}

\* Intersect of util.cc: a corner of one lies in the other.
Intersect(r, t) ==
    (\E pt \in Corners(r) : Inside(pt, t)) \/ (\E pt \in Corners(t) : Inside(pt, r))

Shift(rc, pt) == [a \in Axis |-> [rc[a] EXCEPT !.at = @ + pt[a]]]
Plus(p, q) == [a \in Axis |-> p[a] + q[a]]
Minus(p, q) == [a \in Axis |-> p[a] - q[a]]
Corner(rc) == [a \in Axis |-> rc[a].at]
PlaceAt(rc, pt) == [a \in Axis |-> [rc[a] EXCEPT !.at = pt[a]]]
-----------------------------------------------------------------------------
(* The frame round the client *)

\* GetBorderAndTitle: what the frame takes before and after the client.
BorderWidth(f) == (IF "BORDER" \in f THEN FrameBorder ELSE 2) - (IF "BORDER_EDGE" \in f THEN 0 ELSE 2)
TitleEdge(f) == (IF "BORDER_EDGE" \in f THEN 2 ELSE 0) + (IF "TITLE" \in f THEN 1 ELSE 0)
Before(f) == [x |-> BorderWidth(f),
              y |-> (IF "BORDER" \in f THEN FrameBorder - 2 ELSE 0)
                    + (IF "TITLE" \in f THEN TitleHeight ELSE 0) + TitleEdge(f)]
Around(f) == [a \in Axis |-> Before(f)[a] + BorderWidth(f)]

\* How far the gravity puts the frame from the place the client asked for.
GravityShift(w, f) ==
    [x |-> (BorderWidth(f) - bwOrig[w]) * Gravity[w]["x"],
     y |-> CASE Gravity[w]["y"] = CENTER -> bwOrig[w] - Before(f)["y"]
             [] Gravity[w]["y"] = SOUTH -> 2 * bwOrig[w] - Around(f)["y"]
             [] OTHER -> 0]

\* GetFixSize: rect cut to the largest size, to the screen and to the increments.
GetFixSize(w, f, rect, rcScreen) ==
    [a \in Axis |->
       LET outer == Around(f)[a]
           h == Hints[w][a]
           cut == MinOf(MinOf(h.max, rect[a].len - outer) + outer, rcScreen[a].len)
       IN  [at |-> rect[a].at,
            len |-> RoundDown(cut - h.base - outer, h.inc) + h.base + outer]]
-----------------------------------------------------------------------------
(* The pages *)

Lowest(a) == rcVirt[a].at * Display[a]
Highest(a) == (End(rcVirt[a]) - 1) * Display[a]

Clamp(to) == [a \in Axis |-> MinOf(MaxOf(to[a], Lowest(a)), Highest(a))]

\* Mutant: the page of a negative coordinate is rounded towards page (0, 0).
PageOfTruncated(rc) ==
    [a \in Axis |-> RoundDown(rc[a].at + Div(rc[a].len, 2), Display[a])]

\* The page AdjustPage turns to: the one with the centre of the window.
PageOf(rc) ==
    [a \in Axis |->
       LET centre == rc[a].at + Div(rc[a].len, 2)
       IN  IF centre >= 0 THEN RoundDown(centre, Display[a])
           ELSE (Div(centre, Display[a]) - 1) * Display[a]]

-----------------------------------------------------------------------------
(* The pager shows the pages at a scale *)

ConvertToPagerPos(pt) ==
    [a \in Axis |-> Div(pt[a] * PageSize[a], Display[a]) - rcVirt[a].at * PageSize[a]]

\* Mutant: a window thinner than a point of the pager has no size.
ConvertToPagerSizeExact(rc) ==
    [a \in Axis |-> [at  |-> ConvertToPagerPos(Corner(rc))[a],
                     len |-> Div(rc[a].len * PageSize[a], Display[a])]]

ConvertToPagerSize(rc) ==
    [a \in Axis |-> [at  |-> ConvertToPagerPos(Corner(rc))[a],
                     len |-> MaxOf(1, Div(rc[a].len * PageSize[a], Display[a]))]]

ConvertToRealPos(pt) ==
    [a \in Axis |-> Div(pt[a] * Display[a], PageSize[a]) + rcVirt[a].at * Display[a]]
-----------------------------------------------------------------------------
(* A frame that is resized, and one that is moved: places on the screen *)

\* Mutant: the left side is placed before the limits of the size are applied.
FixWindowShapeEarly(w, rcNew, pos, base, pt, need) ==
    [a \in Axis |->
       LET h == Hints[w][a]
           client == (IF pos[a] = -1 THEN base[a] - pt[a] ELSE pt[a] - base[a]) - need[a]
           round == IF pos[a] = 0 THEN rcNew[a].len - need[a]
                    ELSE RoundOff(client - h.base, h.inc) + h.base
           fits == IF round <= 0 THEN MaxOf(1, h.base) ELSE MaxOf(h.min, round)
       IN  [at  |-> IF pos[a] = -1 THEN base[a] - (round + need[a]) ELSE rcNew[a].at,
            len |-> MinOf(h.max, fits) + need[a]]]

\* FixWindowShape: pos is -1 on an axis whose left or top side moves, 1 where the
\* right or bottom one does, 0 where neither; need is what the frame takes.
FixWindowShape(w, rcNew, pos, base, pt, need) ==
    [a \in Axis |->
       LET h == Hints[w][a]
           client == (IF pos[a] = -1 THEN base[a] - pt[a] ELSE pt[a] - base[a]) - need[a]
           round == IF pos[a] = 0 THEN rcNew[a].len - need[a]
                    ELSE RoundOff(client - h.base, h.inc) + h.base
           fits == IF round <= 0 THEN MaxOf(1, h.base) ELSE MaxOf(h.min, round)
           len == MinOf(h.max, fits) + need[a]
       IN  [at |-> IF pos[a] = -1 THEN base[a] - len ELSE rcNew[a].at, len |-> len]]

\* The end of FixWindowPos: the edges of the screen attract, and then resist.
SnapToScreen(rc, scr) ==
    [a \in Axis |->
       LET toEnd == IF Abs(End(scr[a]) - End(rc[a])) <= SnappingEdges
                    THEN End(scr[a]) - rc[a].len ELSE rc[a].at
       IN  [rc[a] EXCEPT !.at = IF Abs(scr[a].at - toEnd) <= SnappingEdges THEN scr[a].at ELSE toEnd]]

ResistEdges(rc, scr) ==
    [a \in Axis |->
       LET below == scr[a].at - rc[a].at
           over == End(rc[a]) - End(scr[a])
           back == End(scr[a]) - rc[a].len
       IN  [rc[a] EXCEPT !.at = IF 0 < below /\ below < EdgeResistance THEN scr[a].at
                                ELSE IF 0 < over /\ over < EdgeResistance
                                     THEN (IF a = "y" THEN MaxOf(back, scr[a].at) ELSE back)
                                     ELSE @]]

FixToScreen(rc, scr) ==
    LET snapped == IF SnappingEdges = 0 THEN rc ELSE SnapToScreen(rc, scr)
    IN  IF EdgeResistance = 0 THEN snapped ELSE ResistEdges(snapped, scr)
=============================================================================
