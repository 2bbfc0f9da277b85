----------------------------- MODULE PagingProofs -----------------------------
(***************************************************************************)
(* Paging implements Plane, and the belts lead on, for any windows, hints, *)
(* flags, pages and settings: what the operators of Geometry and Paging    *)
(* return, where they leave the frame of a window, and then the steps.     *)
(*                                                                         *)
(* Then the frame on the server has the size and the place its Qvwm        *)
(* believes, and rcOrig goes along with rc: what each operator on one      *)
(* window leaves of the two, and then the steps.  Last, two things the     *)
(* numbers promise: the page that AdjustPage shows, and the side that a    *)
(* resize leaves alone, page turns or not.                                 *)
(***************************************************************************)
EXTENDS Paging, TLAPS

(* What the operators return *)
\* The division of C++ stays in the integers.
LEMMA DivType ==
    ASSUME NEW n \in Int, NEW d \in Nat \ {0}
    PROVE  Div(n, d) \in Int
    BY DEF Div

\* So do the roundings built on it.
LEMMA RoundType ==
    ASSUME NEW n \in Int, NEW d \in Nat \ {0}
    PROVE  RoundDown(n, d) \in Int /\ RoundOff(n, d) \in Int
  <1>1. RoundDown(n, d) \in Int BY DivType DEF RoundDown
  <1>2. d \div 2 \in Int OBVIOUS
  <1>3. QED BY <1>1, <1>2 DEF RoundOff

\* A rectangle that is shifted has its corner shifted.
LEMMA ShiftType ==
    ASSUME NEW rc \in Rect, NEW pt \in Point
    PROVE  Shift(rc, pt) \in Rect /\ Corner(Shift(rc, pt)) = Plus(Corner(rc), pt)
    BY DEF Rect, Span, Point, Axis, Shift, Corner, Plus

\* A rectangle that is placed at a point has its corner there.
LEMMA PlaceAtType ==
    ASSUME NEW rc \in Rect, NEW pt \in Point
    PROVE  PlaceAt(rc, pt) \in Rect /\ Corner(PlaceAt(rc, pt)) = pt
    BY DEF Rect, Span, Point, Axis, PlaceAt, Corner

\* The screen shows a rectangle of the plane at its corner less origin.
LEMMA ShownType ==
    ASSUME NEW rc \in Rect, NEW o \in Point
    PROVE  Shown(rc, o) \in Rect /\ Corner(Shown(rc, o)) = Minus(Corner(rc), o)
    BY DEF Rect, Span, Point, Axis, Shown, Corner, Minus

\* The corner of a rectangle is a point.
LEMMA CornerType ==
    ASSUME NEW rc \in Rect
    PROVE  Corner(rc) \in Point
    BY DEF Rect, Span, Point, Axis, Corner

\* Points can be added and subtracted.
LEMMA PointType ==
    ASSUME NEW p \in Point, NEW q \in Point
    PROVE  Plus(p, q) \in Point /\ Minus(p, q) \in Point
    BY DEF Point, Axis, Minus, Plus

\* Page (0, 0) is one of the pages.
LEMMA Bounds ==
    ASSUME NEW a \in Axis
    PROVE  Lowest(a) \in Int /\ Highest(a) \in Int /\ Lowest(a) <= 0 /\ 0 <= Highest(a)
  <1> DEFINE n == rcVirt[a].at  m == End(rcVirt[a]) - 1  d == Display[a]
  <1>1. n \in Int /\ m \in Int /\ d \in Nat /\ n <= 0 /\ m >= 0
    BY GeometryType, PagesHoldZero DEF End
  <1>2. n * d <= 0 /\ n * d \in Int /\ m * d \in Int /\ m * d >= 0
    <2> HIDE DEF n, m, d
    <2> QED BY <1>1
  <1>3. QED BY <1>2 DEF Lowest, Highest

\* Clamp brings every point into the pages.
LEMMA ClampType ==
    ASSUME NEW to \in Point
    PROVE  Clamp(to) \in Point /\ \A a \in Axis : Lowest(a) <= Clamp(to)[a]
          /\ Clamp(to)[a] <= Highest(a)
  <1>1. ASSUME NEW a \in Axis
        PROVE LET c == MinOf(MaxOf(to[a], Lowest(a)), Highest(a)) IN c \in Int
              /\ Lowest(a) <= c /\ c <= Highest(a)
    BY Bounds DEF Point, MinOf, MaxOf
  <1>2. QED BY <1>1 DEF Clamp, Point

\* The page of the centre of a rectangle is a point.
LEMMA PageOfType ==
    ASSUME NEW rc \in Rect
    PROVE  PageOf(rc) \in Point
  <1>1. ASSUME NEW a \in Axis PROVE PageOf(rc)[a] \in Int
    <2> DEFINE c == rc[a].at + Div(rc[a].len, 2)
    <2>1. c \in Int BY DivType DEF Rect, Span
    <2>2. Display[a] \in Nat \ {0} BY GeometryType
    <2>3. RoundDown(c, Display[a]) \in Int /\ Div(c, Display[a]) \in Int
      BY <2>1, <2>2, RoundType, DivType
    <2>4. (Div(c, Display[a]) - 1) * Display[a] \in Int BY <2>2, <2>3
    <2> QED BY <2>1, <2>3, <2>4 DEF PageOf
  <1>2. QED BY <1>1 DEF PageOf, Point

-----------------------------------------------------------------------------
(* Frames and sizes *)

\* What a frame takes.
LEMMA AroundType ==
    ASSUME NEW f \in SUBSET Flag
    PROVE  Around(f) \in Point /\ Before(f) \in Point
  <1>1. BorderWidth(f) \in Int /\ TitleEdge(f) \in Int /\ FrameBorder \in Int
        /\ TitleHeight \in Int
    BY GeometryType DEF BorderWidth, TitleEdge
  <1>2. Before(f)["x"] \in Int /\ Before(f)["y"] \in Int
        /\ Before(f) = [x |-> Before(f)["x"], y |-> Before(f)["y"]]
    BY <1>1 DEF Before
  <1>3. QED BY <1>1, <1>2 DEF Around, Point, Axis

\* How far gravity puts the frame away.
LEMMA GravityType ==
    ASSUME NEW w \in Window, NEW f \in SUBSET Flag
    PROVE  GravityShift(w, f) \in Point
  <1>1. BorderWidth(f) \in Int BY GeometryType DEF BorderWidth
  <1>2. Before(f)["y"] \in Int /\ Around(f)["y"] \in Int BY AroundType DEF Point, Axis
  <1>3. bwOrig[w] \in Int /\ Gravity[w]["x"] \in Int BY GeometryType DEF Axis, CENTER, EAST
  <1>4. (BorderWidth(f) - bwOrig[w]) * Gravity[w]["x"] \in Int BY <1>1, <1>3
  <1>5. (CASE Gravity[w]["y"] = CENTER -> bwOrig[w] - Before(f)["y"]
               [] Gravity[w]["y"] = SOUTH -> 2 * bwOrig[w] - Around(f)["y"]
               [] OTHER -> 0) \in Int
    BY <1>2, <1>3 DEF SOUTH, CENTER
  <1>6. QED BY <1>4, <1>5 DEF GravityShift, Point, Axis

\* A rectangle cut to the hints of a window.
LEMMA FixSizeType ==
    ASSUME NEW w \in Window, NEW f \in SUBSET Flag, NEW rect \in Rect, NEW scr \in Rect
    PROVE  GetFixSize(w, f, rect, scr) \in Rect
  <1>1. ASSUME NEW a \in Axis PROVE GetFixSize(w, f, rect, scr)[a] \in Span
    <2> DEFINE outer == Around(f)[a]
               h == Hints[w][a]
               cut == MinOf(MinOf(h.max, rect[a].len - outer) + outer, scr[a].len)
    <2>1. outer \in Int BY AroundType DEF Point
    <2>2. h.inc \in Nat \ {0} /\ h.base \in Int /\ h.max \in Int BY GeometryType DEF HintsType
    <2>3. rect[a].len \in Int /\ rect[a].at \in Int /\ scr[a].len \in Int BY DEF Rect, Span
    <2>4. cut \in Int BY <2>1, <2>2, <2>3 DEF MinOf, MaxOf
    <2>5. RoundDown(cut - h.base - outer, h.inc) \in Int
      <3> HIDE DEF cut, h, outer
      <3> QED BY <2>1, <2>2, <2>4, RoundType
    <2>6. GetFixSize(w, f, rect, scr)[a] = [at |-> rect[a].at,
           len |-> RoundDown(cut - h.base - outer, h.inc) + h.base + outer]
      BY Zenon DEF GetFixSize
    <2> HIDE DEF cut, h, outer
    <2> QED BY <2>1, <2>2, <2>3, <2>5, <2>6 DEF Span
  <1>2. QED BY <1>1 DEF GetFixSize, Rect

\* What separates rc from rcOrig.
LEMMA DisplacementType ==
    ASSUME NEW w \in Window, NEW f \in SUBSET Flag, NEW e \in Env
    PROVE  Displacement(w, f, e) \in Point
  <1>1. Thick(e.bar) \in Int BY DEF Env, Bar, Thick
  <1>2. ASSUME NEW a \in Axis
        PROVE e.rcScreen[a].at \in Int /\ e.origin[a] \in Int /\ GravityShift(w, f)[a] \in Int
    BY GravityType DEF Env, Rect, Span, Point
  <1> HIDE DEF Env
  <1>3. QED BY <1>1, <1>2 DEF Displacement, Point

\* The place CalcWindowPos gives a frame.
LEMMA CalcType ==
    ASSUME NEW w \in Window, NEW base \in Rect, NEW f \in SUBSET Flag, NEW e \in Env
    PROVE  CalcWindowPos(w, base, f, e) \in Rect
  <1>1. ASSUME NEW a \in Axis PROVE Displacement(w, f, e)[a] \in Int /\ Around(f)[a] \in Int
    BY DisplacementType, AroundType DEF Point
  <1>2. QED BY <1>1 DEF CalcWindowPos, Rect, Span

\* To the scale of the pager and back.
LEMMA PagerType ==
    ASSUME NEW pt \in Point, NEW rc \in Rect
    PROVE  ConvertToPagerPos(pt) \in Point /\ ConvertToPagerSize(rc) \in Rect
          /\ ConvertToRealPos(pt) \in Point
  <1>1. ASSUME NEW a \in Axis, NEW n \in Int
        PROVE Div(n * PageSize[a], Display[a]) \in Int /\ Div(n * Display[a], PageSize[a]) \in Int
      /\ rcVirt[a].at * PageSize[a] \in Int /\ rcVirt[a].at * Display[a] \in Int
    <2>1. PageSize[a] \in Nat \ {0} /\ Display[a] \in Nat \ {0} /\ rcVirt[a].at \in Int
      BY GeometryType
    <2> QED BY SMTT(40), <2>1, DivType
  <1>2. ASSUME NEW p \in Point PROVE ConvertToPagerPos(p) \in Point
    BY <1>1 DEF ConvertToPagerPos, Point
  <1>3. ConvertToRealPos(pt) \in Point BY <1>1 DEF ConvertToRealPos, Point
  <1>4. ConvertToPagerPos(Corner(rc)) \in Point BY <1>2, PointType, CornerType, pt \in Point
  <1>5. ASSUME NEW a \in Axis PROVE MaxOf(1, Div(rc[a].len * PageSize[a], Display[a])) \in Int
    BY <1>1 DEF MinOf, MaxOf, Rect, Span
  <1>6. QED BY <1>2, <1>3, <1>4, <1>5 DEF ConvertToPagerSize, Rect, Span, Point

\* The shape FixWindowShape gives a frame that is resized.
LEMMA ShapeType ==
    ASSUME NEW w \in Window, NEW rc \in Rect, NEW pos \in [Axis -> {-1, 0, 1}],
           NEW base \in Point, NEW pt \in Point, NEW need \in Point
    PROVE  FixWindowShape(w, rc, pos, base, pt, need) \in Rect
  <1>1. ASSUME NEW a \in Axis PROVE FixWindowShape(w, rc, pos, base, pt, need)[a] \in Span
    <2> DEFINE h == Hints[w][a]
             client == (IF pos[a] = -1 THEN base[a] - pt[a] ELSE pt[a] - base[a]) - need[a]
             round == IF pos[a] = 0 THEN rc[a].len - need[a]
                      ELSE RoundOff(client - h.base, h.inc) + h.base
             fits == IF round <= 0 THEN MaxOf(1, h.base) ELSE MaxOf(h.min, round)
             len == MinOf(h.max, fits) + need[a]
    <2>1. base[a] \in Int /\ pt[a] \in Int /\ need[a] \in Int /\ rc[a].len \in Int
          /\ rc[a].at \in Int
      BY DEF Point, Rect, Span
    <2>2. h.inc \in Nat \ {0} /\ h.base \in Int /\ h.max \in Int /\ h.min \in Int
      BY GeometryType DEF HintsType
    <2> HIDE DEF h
    <2>3. client \in Int BY <2>1
    <2> HIDE DEF client
    <2>4. RoundOff(client - h.base, h.inc) \in Int BY <2>2, <2>3, RoundType
    <2>5. round \in Int BY <2>1, <2>2, <2>4
    <2> HIDE DEF round
    <2>6. fits \in Int BY <2>2, <2>5 DEF MinOf, MaxOf
    <2> HIDE DEF fits
    <2>7. len \in Int BY <2>1, <2>2, <2>6 DEF MinOf, MaxOf
    <2>8. FixWindowShape(w, rc, pos, base, pt, need)[a] =
            [at |-> IF pos[a] = -1 THEN base[a] - len ELSE rc[a].at, len |-> len]
      BY Zenon DEF FixWindowShape, len, fits, round, client, h
    <2> HIDE DEF len
    <2> QED BY <2>1, <2>7, <2>8 DEF Span
  <1>2. QED BY <1>1 DEF FixWindowShape, Rect

\* The edges of the screen leave a rectangle a rectangle.
LEMMA ToScreenType ==
    ASSUME NEW rc \in Rect, NEW scr \in Rect
    PROVE  FixToScreen(rc, scr) \in Rect
  <1>1. ASSUME NEW r \in Rect PROVE SnapToScreen(r, scr) \in Rect
    BY GeometryType DEF SnapToScreen, Rect, Span, End, Axis
  <1>2. ASSUME NEW r \in Rect PROVE ResistEdges(r, scr) \in Rect
    BY GeometryType DEF ResistEdges, Rect, Span, End, MaxOf, Axis
  <1>3. QED BY <1>1, <1>2 DEF FixToScreen

-----------------------------------------------------------------------------
(* Qvwm records *)

\* A Qvwm with any frame: that the server can have it is for TLC to check.
QvwmType == [rc : Rect, rcOrig : Rect, rcOrigBak : Rect, flags : SUBSET Flag,
             flagsBak : SUBSET Flag, status : SUBSET Status, frame : Rect, mini : Rect]
\* The frame of x is at rc less o.
Placed(x, o) == Corner(x.frame) = Minus(Corner(x.rc), o)

\* ConfigureNewRect sets rc and leaves the frame where it is.
LEMMA ConfigureNewRectType ==
    ASSUME NEW w \in Window, NEW x \in QvwmType, NEW rect \in Rect, NEW e \in Env
    PROVE  LET y == ConfigureNewRect(w, x, rect, e)
           IN  y \in QvwmType /\ y.rc = rect /\ y.flags = x.flags /\ y.frame = x.frame
  <1> DEFINE base == [a \in Axis |-> [at  |-> rect[a].at - Displacement(w, x.flags, e)[a],
                               len |-> rect[a].len - Around(x.flags)[a]]]
  <1>1. x.flags \in SUBSET Flag BY DEF QvwmType
  <1>2. ASSUME NEW a \in Axis
        PROVE Displacement(w, x.flags, e)[a] \in Int /\ Around(x.flags)[a] \in Int
    BY <1>1, DisplacementType, AroundType DEF Point
  <1>3. base \in Rect BY <1>2 DEF Rect, Span
  <1>4. ConfigureNewRect(w, x, rect, e) = [x EXCEPT !.rc = rect, !.rcOrig = base]
    BY Zenon DEF ConfigureNewRect
  <1> HIDE DEF base
  <1>5. QED BY <1>3, <1>4 DEF QvwmType

\* RedrawWindow puts the frame where rc is.
LEMMA RedrawType ==
    ASSUME NEW x \in QvwmType, NEW e \in Env
    PROVE  LET y == RedrawWindow(x, e)
           IN  y \in QvwmType /\ y.rc = x.rc /\ y.flags = x.flags /\ Placed(y, e.origin)
  <1>1. e.origin \in Point /\ x.rc \in Rect BY DEF Env, QvwmType
  <1>2. Shown(x.rc, e.origin) \in Rect
        /\ Corner(Shown(x.rc, e.origin)) = Minus(Corner(x.rc), e.origin)
    BY <1>1, ShownType
  <1>3. ConvertToPagerSize(x.rc) \in Rect BY <1>1, PagerType
  <1>4. RedrawWindow(x, e) = [x EXCEPT !.frame = Shown(x.rc, e.origin),
         !.mini = ConvertToPagerSize(x.rc)]
    BY Zenon DEF RedrawWindow
  <1> DEFINE fr == Shown(x.rc, e.origin)  mi == ConvertToPagerSize(x.rc)
  <1> HIDE DEF fr, mi
  <1>5. QED BY <1>2, <1>3, <1>4 DEF QvwmType, Placed, fr, mi

\* So does a handler that ends in both.
LEMMA ResizedType ==
    ASSUME NEW w \in Window, NEW x \in QvwmType, NEW rect \in Rect, NEW e \in Env
    PROVE  LET y == Resized(w, x, rect, e)
           IN  y \in QvwmType /\ y.rc = rect /\ y.flags = x.flags /\ Placed(y, e.origin)
  <1> DEFINE z == ConfigureNewRect(w, x, rect, e)
  <1>1. z \in QvwmType /\ z.rc = rect /\ z.flags = x.flags BY ConfigureNewRectType
  <1> HIDE DEF z
  <1>3. Resized(w, x, rect, e) = RedrawWindow(z, e) BY Zenon DEF Resized, z
  <1>4. QED BY <1>1, <1>3, RedrawType

\* MoveMiniature changes nothing but the miniature.
LEMMA MiniatureType ==
    ASSUME NEW x \in QvwmType, NEW pt \in Point
    PROVE  LET y == MoveMiniature(x, pt)
           IN  y \in QvwmType /\ y.rc = x.rc /\ y.flags = x.flags /\ y.frame = x.frame
  <1>1. x.mini \in Rect BY DEF QvwmType
  <1>2. ConvertToPagerPos(pt) \in Point BY <1>1, PagerType
  <1>3. PlaceAt(x.mini, ConvertToPagerPos(pt)) \in Rect BY PlaceAtType, <1>1, <1>2
  <1> DEFINE mi == PlaceAt(x.mini, ConvertToPagerPos(pt))
  <1>4. MoveMiniature(x, pt) = [x EXCEPT !.mini = mi] BY Zenon DEF MoveMiniature
  <1>5. QED BY <1>3, <1>4 DEF QvwmType

\* To place the frame changes nothing but the frame.
LEMMA PlacedBack ==
    ASSUME NEW x \in QvwmType, NEW pt \in Point PROVE
      LET y == [x EXCEPT !.frame = PlaceAt(@, pt)] IN y \in QvwmType
            /\ y = [x EXCEPT !.frame = y.frame] /\ Corner(y.frame) = pt
    BY PlaceAtType DEF QvwmType

\* Of points, what goes to and fro cancels.
LEMMA PointSums ==
    ASSUME NEW p \in Point, NEW q \in Point, NEW r \in Point
    PROVE  Plus(p, Minus(q, q)) = p /\ Minus(Plus(p, Minus(q, r)), q) = Minus(p, r)
    BY DEF Point, Plus, Minus

\* A page turn takes rc of a STICKY window along, and the frame of another one back:
\* either way the frame is where rc is.
LEMMA PagedType ==
    ASSUME NEW x \in QvwmType, NEW from \in Point, NEW to \in Point
    PROVE  LET y == Paged(x, from, to)
           IN  /\ y \in QvwmType /\ y.flags = x.flags
               /\ Corner(y.rc) = IF "STICKY" \in x.flags
                                 THEN Plus(Corner(x.rc), Minus(to, from)) ELSE Corner(x.rc)
               /\ Placed(x, from) => Placed(y, to)
  <1>1. x.rc \in Rect /\ Corner(x.rc) \in Point /\ Minus(to, from) \in Point
    BY PointType, CornerType DEF QvwmType
  <1>2. CASE "STICKY" \in x.flags
    <2> DEFINE rect == Shift(x.rc, Minus(to, from))
               z == [x EXCEPT !.rc = rect]
    <2>1. rect \in Rect /\ Corner(rect) = Plus(Corner(x.rc), Minus(to, from)) BY <1>1, ShiftType
    <2>2. Paged(x, from, to) = MoveMiniature(z, Corner(rect)) BY <1>2, Zenon DEF Paged
    <2>3. Corner(rect) \in Point BY <2>1, PointType, CornerType, <1>1
    <2> HIDE DEF rect
    <2>4. z \in QvwmType /\ z.rc = rect /\ z.flags = x.flags /\ z.frame = x.frame
      BY <2>1 DEF QvwmType
    <2> HIDE DEF z
    <2>5. LET y == Paged(x, from, to) IN y \in QvwmType /\ y.rc = rect /\ y.flags = x.flags
          /\ y.frame = x.frame
      BY SMTT(40), <2>2, <2>3, <2>4, MiniatureType
    <2>6. Placed(x, from) => Corner(x.frame) = Minus(Plus(Corner(x.rc), Minus(to, from)), to)
      BY <1>1, PointSums DEF Placed
    <2>7. QED BY <1>2, <2>1, <2>5, <2>6 DEF Placed
  <1>3. CASE "STICKY" \notin x.flags
    <2>1. Corner(Shown(x.rc, to)) = Minus(Corner(x.rc), to) BY <1>1, ShownType
    <2>2. Minus(Corner(x.rc), to) \in Point BY <1>1, PointType, CornerType
    <2>3. Paged(x, from, to) = [x EXCEPT !.frame = PlaceAt(@, Minus(Corner(x.rc), to))]
      BY <1>3, <2>1, Zenon DEF Paged
    <2>4. LET y == Paged(x, from, to) IN y \in QvwmType /\ y = [x EXCEPT !.frame = y.frame]
          /\ Corner(y.frame) = Minus(Corner(x.rc), to)
      BY <2>2, <2>3, PlacedBack
    <2>5. QED BY <1>3, <2>4 DEF Placed, QvwmType
  <1>4. QED BY <1>2, <1>3

\* RecalcWindow puts the frame where the new rc is.
LEMMA RecalcType ==
    ASSUME NEW w \in Window, NEW x \in QvwmType, NEW e \in Env
    PROVE  LET y == RecalcWindow(w, x, e)
           IN  y \in QvwmType /\ y.flags = x.flags /\ Placed(y, e.origin)
  <1>0. x.flags \in SUBSET Flag /\ x.rcOrig \in Rect /\ e.rcScreen \in Rect /\ e.origin \in Point
    BY DEF QvwmType, Env
  <1>1. CASE "MAXIMIZE" \in x.status
    <2> DEFINE fix == GetFixSize(w, x.flags, e.rcScreen, e.rcScreen)
    <2>1. Shift(fix, e.origin) \in Rect BY <1>0, FixSizeType, ShiftType
    <2>2. RecalcWindow(w, x, e) = Resized(w, x, Shift(fix, e.origin), e)
      BY <1>1, Zenon DEF RecalcWindow, Resized
    <2>3. QED BY <2>1, <2>2, ResizedType
  <1>2. CASE "MAXIMIZE" \notin x.status
    <2> DEFINE rect == CalcWindowPos(w, x.rcOrig, x.flags, e)
               y == [x EXCEPT !.rc = rect]
               pt == Minus(Corner(rect), e.origin)
    <2>1. rect \in Rect BY <1>0, CalcType
    <2>2. pt \in Point /\ Corner(Shown(rect, e.origin)) = pt
      BY <1>0, <2>1, PointType, CornerType, ShownType
    <2>3. y \in QvwmType /\ y.rc = rect /\ y.flags = x.flags BY <2>1 DEF QvwmType
    <2>4. RecalcWindow(w, x, e) = [y EXCEPT !.frame = PlaceAt(@, Corner(Shown(y.rc, e.origin)))]
      BY <1>2, Zenon DEF RecalcWindow
    <2>5. RecalcWindow(w, x, e) = [y EXCEPT !.frame = PlaceAt(@, pt)] BY <2>2, <2>3, <2>4
    <2> HIDE DEF y
    <2>6. LET z == RecalcWindow(w, x, e) IN z \in QvwmType /\ z = [y EXCEPT !.frame = z.frame]
          /\ Corner(z.frame) = pt
      BY <2>2, <2>3, <2>5, PlacedBack
    <2>7. LET z == RecalcWindow(w, x, e) IN z.rc = rect /\ z.flags = x.flags
      BY <2>3, <2>6 DEF QvwmType
    <2>8. QED BY <2>6, <2>7 DEF Placed
  <1>3. QED BY <1>1, <1>2
-----------------------------------------------------------------------------
(* The steps *)

MoveDrag == [kind : {"move"}, w : Window, rc : Rect, shown : Rect, pt : Point]
ResizeDrag == [kind : {"resize"}, w : Window, rc : Rect, pos : [Axis -> {-1, 0, 1}],
               keys : Int, base : Point]
MiniDrag == [kind : {"mini"}, w : Window, moved : BOOLEAN]
\* What drag may hold.
DragType == {NoDrag} \cup MoveDrag \cup ResizeDrag \cup MiniDrag

\* The types of what the proof speaks of.
StateType ==
  /\ origin \in Point /\ bar \in Bar /\ rcScreen \in Rect
  /\ win \in [Window -> QvwmType] /\ drag \in DragType

\* origin is on the pages.
Bounded == \A a \in Axis : Lowest(a) <= origin[a] /\ origin[a] <= Highest(a)
\* FrameAgrees, but for the sizes.
AllPlaced == \A w \in Window \ Held : Placed(win[w], origin)

\* The inductive invariant: the clamped origin and where the frames are go together,
\* for a page turn computes the new places from the difference of two origins.
IInv == StateType /\ Bounded /\ AllPlaced

\* What a place depends on, as the handlers find it.
LEMMA HereType ==
    ASSUME StateType
    PROVE  Here \in Env /\ Here.origin = origin
    BY DEF StateType, Here, Env

\* The place of a maximized window.
LEMMA FullScreenType ==
    ASSUME StateType, NEW w \in Window, NEW f \in SUBSET Flag
    PROVE  FullScreen(w, f) \in Rect
    BY FixSizeType, ShiftType DEF FullScreen, StateType

\* MinimizeWindow leaves the places alone.
LEMMA MinimizedType ==
    ASSUME NEW x \in QvwmType
    PROVE  Minimized(x) \in QvwmType
    BY DEF Minimized, QvwmType, Status

\* A toggled attribute leaves rc and the frame alone.
LEMMA ToggledType ==
    ASSUME StateType, NEW w \in Window, NEW f \in Flag
    PROVE  LET y == Toggled(w, f) IN y \in QvwmType /\ y.rc = win[w].rc /\ y.frame = win[w].frame
  <1> DEFINE x == [win[w] EXCEPT !.flags = Toggle(@, f)]
  <1>1. win[w] \in QvwmType BY DEF StateType
  <1>2. Toggle(win[w].flags, f) \in SUBSET Flag BY <1>1 DEF QvwmType, Toggle
  <1>3. x \in QvwmType /\ x.rc = win[w].rc /\ x.frame = win[w].frame BY <1>1, <1>2 DEF QvwmType
  <1>4. Toggled(w, f) = ConfigureNewRect(w, x, x.rc, Here) BY Zenon DEF Toggled
  <1> HIDE DEF x
  <1>5. x.rc \in Rect BY <1>3 DEF QvwmType
  <1>6. QED BY <1>3, <1>4, <1>5, ConfigureNewRectType, HereType

\* RestoreWindow draws the frame where it has put rc.
LEMMA RestoredType ==
    ASSUME StateType, NEW w \in Window, NEW x \in QvwmType
    PROVE  LET y == Restored(w, x) IN y \in QvwmType /\ Placed(y, origin)
  <1>1. x.flags \in SUBSET Flag /\ x.flagsBak \in SUBSET Flag /\ x.rcOrig \in Rect
        /\ x.rcOrigBak \in Rect
    BY DEF QvwmType
  <1>2. CASE x.status = Status
    <2> DEFINE y == [x EXCEPT !.flags = @ \ {"BORDER"}, !.status = {"MAXIMIZE"}]
    <2>1. y \in QvwmType BY DEF QvwmType, Status
    <2>2. Restored(w, x) = Resized(w, y, FullScreen(w, x.flags), Here) BY <1>2, Zenon DEF Restored
    <2> HIDE DEF y
    <2>3. QED BY <1>1, <2>1, <2>2, FullScreenType, ResizedType, HereType
  <1>3. CASE x.status # Status
    <2> DEFINE base == IF "MAXIMIZE" \in x.status THEN x.rcOrigBak ELSE x.rcOrig
               y == [x EXCEPT !.flags = x.flagsBak, !.rcOrig = base, !.status = {}]
    <2>1. base \in Rect BY <1>1
    <2>2. Restored(w, x) = Resized(w, y, CalcWindowPos(w, base, y.flags, Here), Here)
      BY <1>3, Zenon DEF Restored
    <2> HIDE DEF base
    <2>3. y \in QvwmType /\ y.flags \in SUBSET Flag BY <2>1, <1>1 DEF QvwmType
    <2> HIDE DEF y
    <2>4. CalcWindowPos(w, base, y.flags, Here) \in Rect BY <2>1, <2>3, CalcType, HereType
    <2>5. QED BY <2>2, <2>3, <2>4, ResizedType, HereType
  <1>4. QED BY <1>2, <1>3

\* A drop in the pager puts rc and the frame in the same place.
LEMMA PlaceFromPagerType ==
    ASSUME StateType, NEW w \in Window, NEW x \in QvwmType, NEW pt \in Point
    PROVE  LET y == PlaceFromPager(w, x, pt) IN y \in QvwmType /\ Placed(y, origin)
  <1> DEFINE rect == PlaceAt(x.rc, ConvertToRealPos(pt))
             y == ConfigureNewRect(w, x, rect, Here)
             to == Minus(Corner(rect), origin)
  <1>1. x.rc \in Rect /\ origin \in Point BY DEF QvwmType, StateType
  <1>2. rect \in Rect
    <2>1. ConvertToRealPos(pt) \in Point BY <1>1, PagerType
    <2>2. QED BY <1>1, <2>1, PlaceAtType
  <1>3. PlaceFromPager(w, x, pt) = [y EXCEPT !.frame = PlaceAt(@, Corner(Shown(rect, origin)))]
    BY Zenon DEF PlaceFromPager
  <1> HIDE DEF rect
  <1>4. to \in Point /\ Corner(Shown(rect, origin)) = to
    BY <1>1, <1>2, PointType, CornerType, ShownType
  <1>5. y \in QvwmType /\ y.rc = rect BY <1>2, ConfigureNewRectType, HereType
  <1> HIDE DEF y
  <1>6. LET z == PlaceFromPager(w, x, pt) IN z \in QvwmType
        /\ z = [y EXCEPT !.frame = z.frame] /\ Corner(z.frame) = to
    BY <1>3, <1>4, <1>5, PlacedBack
  <1>7. QED BY <1>5, <1>6 DEF Placed, QvwmType

\* The windows after a page turn.
AllPaged(ws, from, to) == IF to = from THEN ws ELSE [w \in Window |-> Paged(ws[w], from, to)]
\* x has become y by a page turn.
MovedBy(x, y, from, to) ==
   /\ y.flags = x.flags
   /\ Corner(y.rc) = IF "STICKY" \in x.flags
                     THEN Plus(Corner(x.rc), Minus(to, from)) ELSE Corner(x.rc)

\* A window that does not change stays.
LEMMA Stays ==
    ASSUME NEW x \in QvwmType, NEW o \in Point
    PROVE  MovedBy(x, x, o, o)
    BY PointType, CornerType, PointSums DEF MovedBy, QvwmType

\* After a page turn every window has moved as its flags say.
LEMMA AllPagedType ==
    ASSUME NEW ws \in [Window -> QvwmType], NEW from \in Point, NEW to \in Point
    PROVE  LET r == AllPaged(ws, from, to)
           IN  /\ r \in [Window -> QvwmType]
               /\ \A w \in Window : /\ MovedBy(ws[w], r[w], from, to)
                                    /\ Placed(ws[w], from) => Placed(r[w], to)
  <1>1. CASE to = from
    BY <1>1, Stays DEF AllPaged
  <1>2. CASE to # from
    <2>1. AllPaged(ws, from, to) = [w \in Window |-> Paged(ws[w], from, to)] BY <1>2 DEF AllPaged
    <2>2. QED BY <2>1, PagedType DEF MovedBy
  <1>3. QED BY <1>1, <1>2

-----------------------------------------------------------------------------
(* Steps of Plane *)

\* Only windows of D have been given new places.
Kept(D) == \A v \in Window \ D : MovedBy(win[v], win'[v], origin, origin')

\* A step that keeps every window but those of D is a Turn of Plane.
LEMMA TurnStep ==
    ASSUME StateType, IInv', NEW D \in SUBSET Window, Held' \subseteq D \cup Held, Kept(D)
    PROVE  Pages!Turn(D)
  <1>1. Pages!InRange(origin)' BY DEF IInv, Bounded, Pages!InRange
  <1>2. ASSUME NEW w \in Window \ D PROVE Pages!Follows(w)
    <2>1. MovedBy(win[w], win'[w], origin, origin') BY DEF Kept
    <2>2. Pages!Minus(origin', origin) = Minus(origin', origin)
       /\ Pages!Plus(Corner(win[w].rc), Minus(origin', origin)) = Plus(Corner(win[w].rc),
              Minus(origin', origin))
      BY DEF Pages!Minus, Pages!Plus, Minus, Plus
    <2>3. QED BY <2>1, <2>2 DEF Pages!Follows, MovedBy
  <1>3. Pages!Agreed
    BY DEF Pages!Agreed, Pages!Agree, Pages!Minus, Minus, IInv, AllPlaced, Placed
  <1>4. QED BY <1>1, <1>2, <1>3 DEF Pages!Turn

\* Nothing is held when no loop of a drag runs.
LEMMA HeldType ==
    ASSUME StateType
    PROVE  Held \in SUBSET Window /\ (Idle => Held = {})
    BY DEF StateType, DragType, MiniDrag, ResizeDrag, MoveDrag, Held, Idle, NoDrag

\* To turn the page after windows of D have been given new places.
LEMMA PagingStep ==
    ASSUME IInv, Held = {}, Held' = {}, bar' \in Bar, rcScreen' \in Rect, drag' \in DragType,
           NEW D \in SUBSET Window, NEW ws \in [Window -> QvwmType], NEW to \in Point,
           \A v \in Window : Placed(ws[v], origin),
           \A v \in Window \ D : ws[v] = win[v],
           PagingAllWindows(ws, to)
    PROVE  IInv' /\ Kept(D)
  <1>1. origin' = Clamp(to) /\ origin' \in Point /\ Bounded'
    BY ClampType DEF PagingAllWindows, Bounded
  <1>2. win' = AllPaged(ws, origin, origin') BY DEF PagingAllWindows, AllPaged
  <1>3. origin \in Point BY DEF IInv, StateType
  <1>4. /\ win' \in [Window -> QvwmType]
        /\ \A w \in Window : MovedBy(ws[w], win'[w], origin, origin') /\ Placed(win'[w], origin')
    BY <1>1, <1>2, <1>3, AllPagedType
  <1>5. QED BY <1>1, <1>4 DEF IInv, StateType, AllPlaced, Kept

\* To give one window a new place, with no page turn.
LEMMA OneStep ==
    ASSUME IInv, NEW w \in Window, NEW x \in QvwmType, win' = [win EXCEPT ![w] = x],
           origin' = origin,
           bar' \in Bar, rcScreen' \in Rect, drag' \in DragType,
           Held \subseteq Held' \cup {w}, w \in Held' \/ Placed(x, origin)
    PROVE  IInv' /\ Kept({w})
  <1>1. win \in [Window -> QvwmType] /\ origin \in Point BY DEF IInv, StateType
  <1>2. win' \in [Window -> QvwmType] BY <1>1
  <1>3. \A v \in Window \ {w} : win'[v] = win[v] BY <1>1
  <1>4. win'[w] = x BY <1>1
  <1>5. Kept({w}) BY <1>1, <1>3, Stays DEF Kept
  <1>6. AllPlaced' BY <1>3, <1>4 DEF IInv, AllPlaced
  <1>7. QED BY <1>1, <1>2, <1>5, <1>6 DEF IInv, StateType, Bounded

\* Such a step is a step of Plane.
LEMMA TurnsOne ==
    ASSUME IInv, IInv', NEW w \in Window, Kept({w}), Held' \subseteq {w} \cup Held
    PROVE  Pages!Next
    BY TurnStep DEF IInv, Pages!Next

\* And so is one that gives no window a new place.
LEMMA TurnsNone ==
    ASSUME IInv, IInv', Kept({}), Held' \subseteq Held
    PROVE  Pages!Next
    BY TurnStep DEF IInv, Pages!Next

\* The screen without the taskbar is a rectangle.
LEMMA ScreenRectType ==
    ASSUME NEW b \in Bar
    PROVE  ScreenRect(b) \in Rect
  <1>1. Thick(b) \in Int BY DEF Thick, Bar
  <1>2. ASSUME NEW n \in Int PROVE ScreenBeside(b, n) \in Rect
    BY <1>2, GeometryType DEF ScreenBeside, Rect, Span
  <1>3. QED BY <1>1, <1>2 DEF ScreenRect

\* A handler of the taskbar places the windows anew, and is Rearrange of Plane.
LEMMA RecalcStep ==
    ASSUME IInv, NEW b \in Bar, NEW scr \in Rect, Idle, RecalcAllWindows(b, scr)
    PROVE  IInv' /\ Pages!Next
  <1> DEFINE e == [Here EXCEPT !.bar = b, !.rcScreen = scr]
  <1>1. e \in Env /\ e.origin = origin BY HereType DEF IInv, Env
  <1>2. win' = [w \in Window |-> RecalcWindow(w, win[w], e)] BY Zenon DEF RecalcAllWindows
  <1> HIDE DEF e
  <1>3. bar' = b /\ rcScreen' = scr /\ origin' = origin /\ drag' = drag /\ Held' = Held
    BY DEF RecalcAllWindows, Held
  <1>4. win \in [Window -> QvwmType] /\ drag \in DragType /\ origin \in Point
    BY DEF IInv, StateType
  <1>5. win' \in [Window -> QvwmType] /\ \A w \in Window : Placed(win'[w], origin')
        /\ win'[w].flags = win[w].flags
    BY <1>1, <1>2, <1>3, <1>4, RecalcType
  <1>6. IInv' BY <1>3, <1>4, <1>5 DEF IInv, StateType, Bounded, AllPlaced
  <1>7. Pages!Agreed BY <1>5 DEF Pages!Agreed, Pages!Agree, Pages!Minus, Minus, Placed
  <1>8. Pages!Rearrange BY <1>3, <1>5, <1>7 DEF Pages!Rearrange
  <1>9. QED BY <1>6, <1>8 DEF Pages!Next

\* What HandlePaging returns is a point.
LEMMA HandlePagingType ==
    ASSUME NEW pt \in Point, NEW delta \in HandlePaging(pt)
    PROVE  delta \in Point
  <1>1. ASSUME NEW belt \in [Axis -> {-1, 0, 1}] PROVE BeltMove(belt) \in Point
    <2>1. ASSUME NEW a \in Axis PROVE belt[a] * Div(PagingMovement * Display[a], 100) \in Int
      <3>1. PagingMovement * Display[a] \in Int BY GeometryType, PagingType
      <3>2. Div(PagingMovement * Display[a], 100) \in Int BY <3>1, DivType
      <3>3. belt[a] \in Int OBVIOUS
      <3>4. QED BY <3>2, <3>3
    <2>2. QED BY <2>1 DEF BeltMove, Point
  <1>2. BeltAt(pt) \in [Axis -> {-1, 0, 1}] BY DEF BeltAt
  <1>3. QED BY <1>1, <1>2 DEF HandlePaging, Zero, Point

\* The windows after HandlePaging has turned the page.
LEMMA AfterType ==
    ASSUME StateType, Bounded, NEW delta \in Point, HandlePagingDone(delta)
    PROVE  LET ws == After(delta, win)
           IN  /\ origin' \in Point /\ Bounded' /\ ws = AllPaged(win, origin, origin')
               /\ ws \in [Window -> QvwmType]
               /\ \A w \in Window : /\ MovedBy(win[w], ws[w], origin, origin')
                                    /\ Placed(win[w], origin) => Placed(ws[w], origin')
  <1> DEFINE to == Clamp(Plus(origin, delta))
  <1>0. origin \in Point /\ win \in [Window -> QvwmType] BY DEF StateType
  <1>1. to \in Point /\ \A a \in Axis : Lowest(a) <= to[a] /\ to[a] <= Highest(a)
    BY <1>0, PointType, ClampType
  <1>2. origin' = to
    <2>1. CASE delta # Zero BY <2>1 DEF HandlePagingDone
    <2>2. CASE delta = Zero
      <3>1. Clamp(Plus(origin, delta)) = origin
         BY <1>0, <2>2 , Bounds DEF Bounded, Clamp, Plus, Zero, MinOf, MaxOf, Point
      <3>2. QED BY <2>2, <3>1 DEF HandlePagingDone
    <2>3. QED BY <2>1, <2>2
  <1>3. After(delta, win) = AllPaged(win, origin, to) BY DEF After, AllPaged
  <1> HIDE DEF to
  <1>4. QED BY <1>0, <1>1, <1>2, <1>3, AllPagedType DEF Bounded

-----------------------------------------------------------------------------
(* The actions outside the loops of a drag *)

\* In the beginning origin is page (0, 0), and each frame is where rc is.
LEMMA InitInv ==
    Init => IInv /\ Pages!Init
  <1> SUFFICES ASSUME Init PROVE IInv /\ Pages!Init OBVIOUS
  <1>1. origin \in Point /\ Bounded BY Bounds DEF Init, Zero, Point, Bounded
  <1>2. bar \in Bar BY PagingType DEF Init, Bar, TaskbarPos
  <1>3. rcScreen \in Rect BY <1>2, ScreenRectType DEF Init
  <1>4. ASSUME NEW w \in Window PROVE win[w] \in QvwmType /\ Placed(win[w], origin)
    <2> DEFINE e == [origin |-> Zero, bar |-> bar, rcScreen |-> rcScreen]
               rc == CalcWindowPos(w, Asked[w], InitFlags[w], e)
    <2>1. e \in Env /\ Zero \in Point BY <1>2, <1>3 DEF Env, Zero, Point
    <2> HIDE DEF e
    <2>2. Asked[w] \in Rect /\ InitFlags[w] \in SUBSET Flag BY PagingType
    <2>3. rc \in Rect BY <2>1, <2>2, CalcType
    <2>4. win[w] = [rc |-> rc, rcOrig |-> Asked[w], rcOrigBak |-> Asked[w],
           flags |-> InitFlags[w],
           flagsBak |-> InitFlags[w], status |-> {}, frame |-> Shown(rc, Zero),
                  mini |-> ConvertToPagerSize(rc)]
      BY Zenon DEF Init, NewQvwm, e
    <2> HIDE DEF rc
    <2>5. Shown(rc, Zero) \in Rect /\ Corner(Shown(rc, Zero)) = Minus(Corner(rc), Zero)
      BY <2>1, <2>3, ShownType
    <2>6. ConvertToPagerSize(rc) \in Rect BY <2>1, <2>3, PagerType
    <2>7. QED BY <2>2, <2>3, <2>4, <2>5, <2>6 DEF QvwmType, Placed, Init
  <1>5. win \in [Window -> QvwmType] BY <1>4 DEF Init
  <1>6. drag \in DragType /\ Held = {}
    BY DEF Init, DragType, MiniDrag, ResizeDrag, MoveDrag, Held, NoDrag
  <1>7. IInv BY <1>1, <1>2, <1>3, <1>4, <1>5, <1>6 DEF IInv, StateType, AllPlaced
  <1>8. Pages!InRange(origin) BY <1>1 DEF Pages!InRange, Bounded
  <1>9. \A w \in Window : Pages!Agree(w) BY <1>4 DEF Pages!Agree, Pages!Minus, Minus, Placed
  <1>10. QED BY <1>6, <1>7, <1>8, <1>9 DEF Pages!Init

\* What holds outside the loops of a drag.
LEMMA IdleFacts ==
    ASSUME IInv, Idle
    PROVE  Held = {} /\ win \in [Window -> QvwmType] /\ origin \in Point /\ bar \in Bar
          /\ rcScreen \in Rect
    /\ drag \in DragType /\ \A v \in Window : Placed(win[v], origin)
    BY HeldType DEF IInv, StateType, AllPlaced

\* A handler that turns the page and does nothing else.
LEMMA PageTurn ==
    ASSUME IInv, Idle, NEW to \in Point, PagingAllWindows(win, to), UNCHANGED <<bar, rcScreen,
           drag>>
    PROVE  IInv' /\ Pages!Next
  <1>1. Held' = {} BY IdleFacts DEF Held
  <1>2. IInv' /\ Kept({}) BY <1>1, IdleFacts, PagingStep
  <1>3. QED BY <1>1, <1>2, TurnsNone

\* Q_LEFT_PAGING and its like.
LEMMA SwitchPageTo ==
    ASSUME origin \in Point, NEW a \in Axis, NEW step \in {-1, 1}
    PROVE  [origin EXCEPT ![a] = @ + step * Display[a]] \in Point
  <1>1. step * Display[a] \in Int BY GeometryType
  <1>2. QED BY <1>1 DEF Point

\* SwitchPage is a step of Plane.
LEMMA SwitchPageStep ==
    ASSUME IInv, NEW a \in Axis, NEW step \in {-1, 1}, SwitchPage(a, step)
    PROVE  IInv' /\ Pages!Next
    BY SwitchPageTo, PageTurn DEF SwitchPage, IInv, StateType

\* Where a belt leads.
LEMMA EnterBeltTo ==
    ASSUME origin \in Point, NEW pt \in Pointers, BeltAt(pt) \in mapped
    PROVE  Plus(origin, BeltMove(BeltAt(pt))) \in Point
  <1>1. pt \in Point BY PagingType
  <1>2. BeltMove(BeltAt(pt)) \in Point BY <1>1, HandlePagingType DEF HandlePaging
  <1>3. QED BY <1>2, PointType

\* EnterBelt is a step of Plane.
LEMMA EnterBeltStep ==
    ASSUME IInv, NEW pt \in Pointers, EnterBelt(pt)
    PROVE  IInv' /\ Pages!Next
    BY EnterBeltTo, PageTurn DEF EnterBelt, IInv, StateType

\* A page of the pager.
LEMMA PageType ==
    ASSUME NEW cell \in Cells
    PROVE  Page(cell) \in Point
  <1>1. ASSUME NEW a \in Axis PROVE (cell[a] + rcVirt[a].at) * Display[a] \in Int
    <2>1. cell[a] \in Int BY GeometryType DEF Cells
    <2>2. rcVirt[a].at \in Int /\ Display[a] \in Int BY GeometryType
    <2>3. QED BY <2>1, <2>2
  <1>2. QED BY <1>1 DEF Page, Point

\* TurnToPage is a step of Plane.
LEMMA TurnToPageStep ==
    ASSUME IInv, NEW cell \in Cells, TurnToPage(cell)
    PROVE  IInv' /\ Pages!Next
    BY PageType, PageTurn DEF TurnToPage

\* Where the pager is dragged to.
LEMMA PagerMotionTo ==
    ASSUME origin \in Point, NEW move \in PagerMoves
    PROVE  [a \in Axis |-> origin[a] + move[a] * Div(Display[a], PageSize[a])] \in Point
  <1>1. ASSUME NEW a \in Axis PROVE origin[a] + move[a] * Div(Display[a], PageSize[a]) \in Int
    <2>1. Div(Display[a], PageSize[a]) \in Int BY GeometryType, DivType
    <2>2. move[a] \in Int /\ origin[a] \in Int BY PagingType DEF Point
    <2>3. QED BY <2>1, <2>2
  <1>2. QED BY <1>1 DEF Point

\* PagerButton3Motion is a step of Plane.
LEMMA PagerMotionStep ==
    ASSUME IInv, NEW move \in PagerMoves, PagerButton3Motion(move)
    PROVE  IInv' /\ Pages!Next
    BY PagerMotionTo, PageTurn DEF PagerButton3Motion, IInv, StateType

\* AdjustPage is a step of Plane.
LEMMA AdjustPageStep ==
    ASSUME IInv, NEW w \in Window, AdjustPage(w)
    PROVE  IInv' /\ Pages!Next
  <1>1. win[w].rc \in Rect BY DEF IInv, StateType, QvwmType
  <1>2. QED BY <1>1, PageOfType, PageTurn DEF AdjustPage

\* A handler that gives one window a place on the page the user looks at.
LEMMA OneWindow ==
    ASSUME IInv, Idle, NEW w \in Window, NEW x \in QvwmType, Placed(x, origin),
           win' = [win EXCEPT ![w] = x],
           UNCHANGED <<origin, bar, rcScreen, drag>>
    PROVE  IInv' /\ Pages!Next
  <1>1. Held = {} /\ Held' = {} BY IdleFacts DEF Held
  <1>2. IInv' /\ Kept({w}) BY <1>1, IdleFacts, OneStep
  <1>3. QED BY <1>1, <1>2, TurnsOne

\* A handler that gives one window a place and then looks for it.
LEMMA ThenAdjustPageStep ==
    ASSUME IInv, Idle, NEW w \in Window, NEW x \in QvwmType, Placed(x, origin), ThenAdjustPage(w,
           x),
           UNCHANGED <<bar, rcScreen>>, drag' \in DragType, Held' = {}
    PROVE  IInv' /\ Pages!Next
  <1> DEFINE ws == [win EXCEPT ![w] = x]
  <1>1. ws \in [Window -> QvwmType] /\ (\A v \in Window : Placed(ws[v], origin))
        /\ \A v \in Window \ {w} : ws[v] = win[v]
    BY IdleFacts
  <1>2. x.rc \in Rect BY DEF QvwmType
  <1>3. CASE "STICKY" \in x.flags
    <2>1. win' = ws /\ origin' = origin BY <1>3, Zenon DEF ThenAdjustPage
    <2>2. IInv' /\ Kept({w}) BY <2>1, IdleFacts, OneStep
    <2>3. QED BY <2>2, TurnsOne
  <1>4. CASE "STICKY" \notin x.flags
    <2>1. PagingAllWindows(ws, PageOf(x.rc)) BY <1>4, Zenon DEF ThenAdjustPage
    <2> HIDE DEF ws
    <2>2. IInv' /\ Kept({w}) BY <1>1, <1>2, <2>1, PageOfType, IdleFacts, PagingStep
    <2>3. QED BY <2>2, TurnsOne
  <1>5. QED BY <1>3, <1>4

\* MaximizeWindow is a step of Plane.
LEMMA MaximizeStep ==
    ASSUME IInv, NEW w \in Window, MaximizeWindow(w)
    PROVE  IInv' /\ Pages!Next
  <1> DEFINE x == win[w]
             f == x.flags \ {"BORDER"}
             y == [x EXCEPT !.flags = f, !.rcOrigBak = x.rcOrig, !.status = {"MAXIMIZE"},
                            !.flagsBak = IF "MINIMIZE" \in x.status THEN @ ELSE x.flags]
             z == Resized(w, y, FullScreen(w, f), Here)
  <1>0. StateType /\ Idle BY DEF IInv, MaximizeWindow
  <1>1. x \in QvwmType BY <1>0 DEF StateType
  <1>2. f \in SUBSET Flag BY <1>1 DEF QvwmType
  <1>3. y \in QvwmType BY <1>1, <1>2 DEF QvwmType, Status
  <1>4. win' = [win EXCEPT ![w] = z] /\ UNCHANGED <<origin, bar, rcScreen, drag>>
    BY Zenon DEF MaximizeWindow
  <1> HIDE DEF y, f
  <1>5. z \in QvwmType /\ Placed(z, origin)
    BY <1>0, <1>2, <1>3, FullScreenType, HereType, ResizedType
  <1> HIDE DEF z
  <1>6. QED BY <1>0, <1>4, <1>5, OneWindow

\* MinimizeWindow is a step of Plane.
LEMMA MinimizeStep ==
    ASSUME IInv, NEW w \in Window, MinimizeWindow(w)
    PROVE  IInv' /\ Pages!Next
  <1>1. Idle /\ win[w] \in QvwmType /\ Placed(win[w], origin) BY IdleFacts DEF MinimizeWindow
  <1>2. Minimized(win[w]) \in QvwmType /\ Placed(Minimized(win[w]), origin)
    BY <1>1, MinimizedType DEF Minimized, QvwmType, Placed
  <1>3. win' = [win EXCEPT ![w] = Minimized(win[w])] /\ UNCHANGED <<origin, bar, rcScreen, drag>>
    BY DEF MinimizeWindow
  <1>4. QED BY <1>1, <1>2, <1>3, OneWindow

\* RestoreWindow is a step of Plane.
LEMMA RestoreStep ==
    ASSUME IInv, NEW w \in Window, RestoreWindow(w)
    PROVE  IInv' /\ Pages!Next
  <1>1. Idle /\ win[w] \in QvwmType /\ drag' \in DragType /\ Held' = {}
    BY IdleFacts DEF RestoreWindow, Held
  <1>2. QED BY <1>1, RestoredType, ThenAdjustPageStep DEF IInv, RestoreWindow

\* ToggleSticky is a step of Plane.
LEMMA ToggleStickyStep ==
    ASSUME IInv, NEW w \in Window, ToggleSticky(w)
    PROVE  IInv' /\ Pages!Next
  <1>1. Idle /\ Placed(win[w], origin) BY IdleFacts DEF ToggleSticky
  <1>2. LET y == Toggled(w, "STICKY") IN y \in QvwmType /\ y.rc = win[w].rc
        /\ y.frame = win[w].frame
    BY ToggledType DEF IInv, Flag
  <1>3. Placed(Toggled(w, "STICKY"), origin) BY <1>1, <1>2 DEF Placed
  <1>4. QED BY <1>1, <1>2, <1>3, OneWindow DEF ToggleSticky

\* ToggleFrame is a step of Plane.
LEMMA ToggleFrameStep ==
    ASSUME IInv, NEW w \in Window, NEW f \in {"BORDER", "BORDER_EDGE", "TITLE"}, ToggleFrame(w, f)
    PROVE  IInv' /\ Pages!Next
  <1>1. Idle /\ drag' \in DragType /\ Held' = {} BY IdleFacts DEF ToggleFrame, Held
  <1>2. Minimized(Toggled(w, f)) \in QvwmType BY ToggledType, MinimizedType DEF IInv, Flag
  <1>3. QED BY <1>1, <1>2, RestoredType, ThenAdjustPageStep DEF IInv, ToggleFrame

\* Configure is a step of Plane.
LEMMA ConfigureStep ==
    ASSUME IInv, NEW w \in Window, NEW req \in Requests, Configure(w, req)
    PROVE  IInv' /\ Pages!Next
  <1> DEFINE x == win[w]
             unmax == x.status = {"MAXIMIZE"}
             Asks(a, field) == <<a, field>> \in req.mask
             orig == [a \in Axis |->
                      [at  |-> IF Asks(a, "at")
                               THEN req.at[a] - rcScreen[a].at
                                    + (IF "STICKY" \in x.flags THEN 0 ELSE origin[a])
                               ELSE x.rcOrig[a].at,
                       len |-> IF Asks(a, "len") THEN req.len[a] ELSE x.rcOrig[a].len]]
             rect == [a \in Axis |->
                      [at  |-> IF Asks(a, "at") THEN req.at[a] + origin[a] - Before(x.flags)[a]
                               ELSE x.rc[a].at,
                       len |-> IF Asks(a,
                              "len") THEN req.len[a] + Around(x.flags)[a] ELSE x.rc[a].len]]
             y == [x EXCEPT !.rcOrig = orig, !.rc = rect,
                  !.status = IF unmax THEN {} ELSE @,
                  !.flags = IF unmax THEN x.flagsBak ELSE @]
  <1>0. StateType /\ Idle BY DEF IInv, Configure
  <1>1. x \in QvwmType /\ origin \in Point /\ rcScreen \in Rect BY <1>0 DEF StateType
  <1>2. req.at \in Point /\ req.len \in Point BY PagingType DEF Dim, Point
  <1>3. Around(x.flags) \in Point /\ Before(x.flags) \in Point BY <1>1, AroundType DEF QvwmType
  <1>4. ASSUME NEW a \in Axis
        PROVE req.at[a] \in Int /\ req.len[a] \in Int /\ Around(x.flags)[a] \in Int
              /\ Before(x.flags)[a] \in Int
       /\ origin[a] \in Int /\ rcScreen[a].at \in Int /\ x.rc[a].at \in Int
             /\ x.rc[a].len \in Int /\ x.rcOrig[a].at \in Int /\ x.rcOrig[a].len \in Int
    BY <1>1, <1>2, <1>3 DEF Point, Rect, Span, QvwmType
  <1>5. orig \in Rect BY <1>4 DEF Rect, Span
  <1>6. rect \in Rect BY <1>4 DEF Rect, Span
  <1>7. win' = [win EXCEPT ![w] = RedrawWindow(y, Here)]
        /\ UNCHANGED <<origin, bar, rcScreen, drag>>
    BY Zenon DEF Configure
  <1> HIDE DEF orig, rect
  <1>8. y \in QvwmType BY <1>1, <1>5, <1>6 DEF QvwmType, Status
  <1> HIDE DEF y
  <1>9. LET z == RedrawWindow(y, Here) IN z \in QvwmType /\ Placed(z, origin)
    BY <1>0, <1>8, HereType, RedrawType
  <1>10. QED BY <1>0, <1>7, <1>9, OneWindow

\* Each handler of the taskbar is a step of Plane.
LEMMA RearrangeStep ==
    ASSUME IInv, RearrangeAll
    PROVE  IInv' /\ Pages!Next
  <1>0. Idle /\ bar \in Bar /\ rcScreen \in Rect
    BY DEF IInv, StateType, RearrangeAll, MoveTaskbar, ResizeTaskbar, ToggleTaskbar
  <1>1. CASE ToggleTaskbar
    <2> DEFINE b == [bar EXCEPT !.enabled = ~@]
               all == [a \in Axis |-> [at |-> 0, len |-> Display[a]]]
    <2>1. b \in Bar BY <1>0 DEF Bar
    <2>2. all \in Rect BY GeometryType DEF Rect, Span
    <2>3. RecalcAllWindows(b, IF b.enabled THEN ScreenRect(b) ELSE all)
      BY <1>1, Zenon DEF ToggleTaskbar
    <2> HIDE DEF b, all
    <2>4. QED BY <1>0, <2>1, <2>2, <2>3, ScreenRectType, RecalcStep
  <1>2. ASSUME NEW pos \in Positions, MoveTaskbar(pos) PROVE IInv' /\ Pages!Next
    <2>1. [bar EXCEPT !.pos = pos] \in Bar BY <1>0, PagingType DEF Bar, TaskbarPos
    <2>2. QED BY <1>0, <1>2, <2>1, RecalcStep DEF MoveTaskbar
  <1>3. ASSUME NEW thick \in Thickness, ResizeTaskbar(thick) PROVE IInv' /\ Pages!Next
    <2> DEFINE b == [bar EXCEPT !.thick[bar.pos] = thick]
    <2>1. b \in Bar BY <1>0, PagingType DEF Bar
    <2>2. RecalcAllWindows(b, ScreenRect(IF Opaque THEN b ELSE bar))
      BY <1>3, Zenon DEF ResizeTaskbar
    <2> HIDE DEF b
    <2>3. QED BY <1>0, <2>1, <2>2, ScreenRectType, RecalcStep
  <1>4. QED BY <1>1, <1>2, <1>3 DEF RearrangeAll

\* ToggleAutoHide is a step of Plane.
LEMMA ToggleAutoHideStep ==
    ASSUME IInv, ToggleAutoHide
    PROVE  IInv' /\ Pages!Next
  <1>1. bar' \in Bar BY DEF ToggleAutoHide, IInv, StateType, Bar
  <1>2. rcScreen' \in Rect BY <1>1, ScreenRectType DEF ToggleAutoHide
  <1>3. Held' = Held /\ origin' = origin /\ win' = win /\ drag' = drag BY DEF ToggleAutoHide, Held
  <1>4. IInv' BY <1>1, <1>2, <1>3 DEF IInv, StateType, Bounded, AllPlaced
  <1>5. Kept({}) BY <1>3, Stays DEF Kept, IInv, StateType
  <1>6. QED BY <1>3, <1>4, <1>5, TurnsNone

-----------------------------------------------------------------------------
(* The loops of a drag *)

\* The kinds of drag.
LEMMA DragKinds ==
    ASSUME StateType
    PROVE  /\ drag.kind = "move" => drag \in MoveDrag /\ Held = {drag.w} /\ drag.w \in Window
           /\ drag.kind = "resize" => drag \in ResizeDrag /\ Held = {} /\ drag.w \in Window
           /\ drag.kind = "mini" => drag \in MiniDrag /\ Held = {} /\ drag.w \in Window
    BY DEF StateType, DragType, NoDrag, Held, MoveDrag, ResizeDrag, MiniDrag

\* A drag that begins moves nothing.
LEMMA DragOnly ==
    ASSUME IInv, Idle, UNCHANGED <<origin, win, bar, rcScreen>>, drag' \in DragType,
           NEW w \in Window, Held' \subseteq {w}
    PROVE  IInv' /\ Pages!Next
  <1>1. Held = {} /\ bar' \in Bar /\ rcScreen' \in Rect BY IdleFacts
  <1>2. Kept({w}) BY Stays DEF Kept, IInv, StateType
  <1>3. AllPlaced' BY <1>1 DEF IInv, AllPlaced
  <1>4. IInv' BY <1>1, <1>3 DEF IInv, StateType, Bounded
  <1>5. QED BY <1>1, <1>2, <1>4, TurnsOne

\* MoveWindow is a step of Plane.
LEMMA MoveWindowStep ==
    ASSUME IInv, NEW w \in Window, NEW pt \in Pointers, MoveWindow(w, pt)
    PROVE  IInv' /\ Pages!Next
  <1>1. win[w].frame \in Rect /\ pt \in Point BY PagingType DEF IInv, StateType, QvwmType
  <1>2. drag' \in DragType /\ Held' \subseteq {w}
    BY <1>1 DEF MoveWindow, DragType, MiniDrag, ResizeDrag, MoveDrag, Held
  <1>3. QED BY <1>2, DragOnly DEF MoveWindow

\* ResizeWindow is a step of Plane.
LEMMA ResizeWindowStep ==
    ASSUME IInv, NEW w \in Window, NEW pos \in Grips, ResizeWindow(w, pos)
    PROVE  IInv' /\ Pages!Next
  <1> DEFINE rc == win[w].frame
             base == [a \in Axis |-> IF pos[a] = -1 THEN End(rc[a]) ELSE rc[a].at]
             keys == IF pos = Zero THEN MaxKeys ELSE 0
  <1>1. rc \in Rect /\ pos \in [Axis -> {-1, 0, 1}] BY PagingType DEF IInv, StateType, QvwmType
  <1>2. base \in Point BY <1>1 DEF Point, Rect, Span, End
  <1>3. drag' = [kind |-> "resize", w |-> w, rc |-> rc, pos |-> pos, keys |-> keys, base |-> base]
    BY Zenon DEF ResizeWindow
  <1>5. keys \in Int BY PagingType
  <1> HIDE DEF rc, base, keys
  <1>4. drag' \in DragType /\ Held' \subseteq {w}
    BY <1>1, <1>2, <1>3, <1>5 DEF DragType, MiniDrag, ResizeDrag, MoveDrag, Held
  <1>6. QED BY <1>4, DragOnly DEF ResizeWindow

\* A window being dragged keeps its rc.
LEMMA DraggedType ==
    ASSUME NEW x \in QvwmType, NEW shown \in Rect, NEW o \in Point
    PROVE  LET y == Dragged(x, shown, o) IN y \in QvwmType /\ y.rc = x.rc
          /\ Corner(y.frame) = Corner(shown)
  <1> DEFINE z == [x EXCEPT !.frame = PlaceAt(@, Corner(shown))]
  <1>1. Corner(shown) \in Point /\ Plus(Corner(shown), o) \in Point BY CornerType, PointType
  <1>2. Dragged(x, shown, o) = MoveMiniature(z, Plus(Corner(shown), o)) BY Zenon DEF Dragged
  <1>3. z \in QvwmType /\ z = [x EXCEPT !.frame = z.frame] /\ Corner(z.frame) = Corner(shown)
    BY <1>1, PlacedBack
  <1> HIDE DEF z
  <1>4. z.rc = x.rc BY <1>3 DEF QvwmType
  <1>5. QED BY SMTT(40), <1>1, <1>2, <1>3, <1>4, MiniatureType

\* MoveMotion turns the page under the other windows and moves the frame of its own.
LEMMA MoveMotionStep ==
    ASSUME IInv, NEW pt \in Pointers, MoveMotion(pt)
    PROVE  IInv' /\ Pages!Next
  <1>0. StateType /\ drag.kind = "move" /\ pt \in Point BY PagingType DEF IInv, MoveMotion
  <1>1. drag \in MoveDrag /\ Held = {drag.w} /\ drag.w \in Window BY <1>0, DragKinds
  <1> DEFINE w == drag.w
  <1>2. PICK delta \in HandlePaging(pt) :
           LET at == Minus(pt, delta)
               rc == Shift(drag.rc, Minus(at, drag.pt))
               shown == FixToScreen(rc, rcScreen)
               ws == After(delta, win)
           IN  /\ HandlePagingDone(delta)
               /\ drag' = [drag EXCEPT !.rc = rc, !.shown = shown, !.pt = at]
               /\ win' = IF ~Opaque THEN ws
                         ELSE [ws EXCEPT ![drag.w] = Dragged(@, shown, origin')]
    BY Zenon DEF MoveMotion
  <1> DEFINE at == Minus(pt, delta)
             rc == Shift(drag.rc, Minus(at, drag.pt))
             shown == FixToScreen(rc, rcScreen)
             ws == After(delta, win)
             y == Dragged(ws[w], shown, origin')
  <1>3. delta \in Point BY <1>0, HandlePagingType
  <1>4. drag.rc \in Rect /\ drag.pt \in Point /\ rcScreen \in Rect
    BY <1>0, <1>1 DEF MoveDrag, StateType
  <1>5. at \in Point /\ rc \in Rect
    <2>1. at \in Point BY <1>0, <1>3, PointType
    <2>2. Minus(at, drag.pt) \in Point BY <1>4, <2>1, PointType
    <2>3. QED BY <1>4, <2>1, <2>2, ShiftType
  <1>6. shown \in Rect BY <1>4, <1>5, ToScreenType
  <1>7. drag' = [drag EXCEPT !.rc = rc, !.shown = shown, !.pt = at] /\ HandlePagingDone(delta)
    BY <1>2
  <1>8. win' = IF ~Opaque THEN ws ELSE [ws EXCEPT ![w] = y] BY <1>2, Zenon
  <1> HIDE DEF rc, at
  <1>9. /\ origin' \in Point /\ Bounded' /\ ws \in [Window -> QvwmType]
        /\ \A v \in Window : MovedBy(win[v], ws[v], origin, origin')
              /\ (Placed(win[v], origin) => Placed(ws[v], origin'))
    BY <1>3, <1>7, AfterType DEF IInv
  <1> HIDE DEF ws, shown
  <1>10. drag' \in MoveDrag /\ drag'.w = w /\ Held' = {w} /\ drag' \in DragType
    BY <1>1, <1>5, <1>6, <1>7 DEF MoveDrag, Held, DragType, MiniDrag, ResizeDrag
  <1>11. y \in QvwmType BY <1>1, <1>6, <1>9, DraggedType
  <1> HIDE DEF y
  <1>12. win' \in [Window -> QvwmType] /\ \A v \in Window \ {w} : win'[v] = ws[v]
    BY <1>1, <1>8, <1>9, <1>11
  <1>13. bar' \in Bar /\ rcScreen' \in Rect BY <1>0 DEF MoveMotion, StateType
  <1>14. AllPlaced' BY <1>1, <1>9, <1>10, <1>12 DEF IInv, AllPlaced
  <1>15. IInv' BY <1>9, <1>10, <1>12, <1>13, <1>14 DEF IInv, StateType
  <1>16. Kept({w}) BY <1>9, <1>12 DEF Kept
  <1>17. QED BY <1>1, <1>10, <1>15, <1>16, TurnsOne

\* MoveDecide brings rc to where the frame has been dragged.
LEMMA MoveDecideStep ==
    ASSUME IInv, MoveDecide
    PROVE  IInv' /\ Pages!Next
  <1>0. StateType /\ drag.kind = "move" BY DEF IInv, MoveDecide
  <1>1. drag \in MoveDrag /\ Held = {drag.w} /\ drag.w \in Window BY <1>0, DragKinds
  <1> DEFINE w == drag.w
             rect == Shift(drag.shown, origin)
             x == ConfigureNewRect(w, win[w], rect, Here)
             z == Dragged(x, drag.shown, origin)
  <1>2. drag.shown \in Rect /\ origin \in Point /\ win[w] \in QvwmType
    BY <1>0, <1>1 DEF MoveDrag, StateType
  <1>3. rect \in Rect /\ Corner(rect) = Plus(Corner(drag.shown), origin) BY <1>2, ShiftType
  <1>4. win' = [win EXCEPT ![w] = z] /\ drag' = NoDrag /\ UNCHANGED <<origin, bar, rcScreen>>
    BY Zenon DEF MoveDecide
  <1> HIDE DEF rect
  <1>5. x \in QvwmType /\ x.rc = rect BY <1>0, <1>1, <1>2, <1>3, ConfigureNewRectType, HereType
  <1> HIDE DEF x
  <1>6. z \in QvwmType /\ z.rc = rect /\ Corner(z.frame) = Corner(drag.shown)
    BY <1>2, <1>5, DraggedType
  <1>7. Minus(Plus(Corner(drag.shown), origin), origin) = Corner(drag.shown)
    BY <1>2, CornerType DEF Plus, Minus, Point
  <1>8. Placed(z, origin) BY <1>3, <1>6, <1>7 DEF Placed
  <1> HIDE DEF z
  <1>11. drag' \in DragType /\ Held' = {}
    BY <1>4 DEF DragType, MiniDrag, ResizeDrag, MoveDrag, Held, NoDrag
  <1>12. bar' \in Bar /\ rcScreen' \in Rect /\ origin' = origin BY <1>0, <1>4 DEF StateType
  <1>13. IInv' /\ Kept({w}) BY <1>1, <1>4, <1>6, <1>8, <1>11, <1>12, OneStep
  <1>14. QED BY <1>1, <1>11, <1>13, TurnsOne

\* A motion of a resize turns the page and places the window that is resized.
LEMMA ResizeToStep ==
    ASSUME IInv, drag \in ResizeDrag, Held = {}, NEW d \in ResizeDrag, NEW pt \in Point,
           ResizeTo(d, pt)
    PROVE  IInv' /\ Pages!Next
  <1>0. StateType BY DEF IInv
  <1> DEFINE w == d.w
  <1>1. w \in Window BY DEF ResizeDrag
  <1>2. PICK delta \in HandlePaging(pt) :
           LET base == Minus(d.base, delta)
               rc == FixWindowShape(d.w, Shift(d.rc, Minus(Zero, delta)), d.pos, base,
                                    Minus(pt, delta), Around(win[d.w].flags))
               ws == After(delta, win)
           IN  /\ HandlePagingDone(delta)
               /\ drag' = [d EXCEPT !.rc = rc, !.base = base]
               /\ win' = IF ~Opaque THEN ws
                         ELSE [ws EXCEPT ![d.w] =
                                 Resized(d.w, @, Shift(rc, origin'),
                                         [Here EXCEPT !.origin = origin'])]
    BY Zenon DEF ResizeTo
  <1> DEFINE base == Minus(d.base, delta)
             rc == FixWindowShape(w, Shift(d.rc, Minus(Zero, delta)), d.pos, base,
                                  Minus(pt, delta), Around(win[w].flags))
             ws == After(delta, win)
             e == [Here EXCEPT !.origin = origin']
             y == Resized(w, ws[w], Shift(rc, origin'), e)
  <1>3. delta \in Point /\ Zero \in Point BY <1>0, HandlePagingType DEF Zero, Point
  <1>4. d.rc \in Rect /\ d.base \in Point /\ d.pos \in [Axis -> {-1, 0, 1}]
    BY DEF ResizeDrag
  <1>5. win[w].flags \in SUBSET Flag BY <1>0, <1>1 DEF StateType, QvwmType
  <1>6. base \in Point BY <1>3, <1>4, PointType
  <1>7. rc \in Rect
    <2>1. Shift(d.rc, Minus(Zero, delta)) \in Rect BY <1>3, <1>4, PointType, ShiftType
    <2>2. Minus(pt, delta) \in Point /\ Around(win[w].flags) \in Point
      BY <1>3, <1>5, PointType, AroundType
    <2> HIDE DEF base
    <2>3. QED BY <1>1, <1>4, <1>6, <2>1, <2>2, ShapeType
  <1>8. drag' = [d EXCEPT !.rc = rc, !.base = base] /\ HandlePagingDone(delta) BY <1>2
  <1>9. win' = IF ~Opaque THEN ws ELSE [ws EXCEPT ![w] = y] BY <1>2
  <1> HIDE DEF rc, base
  <1>10. /\ origin' \in Point /\ Bounded' /\ ws \in [Window -> QvwmType]
         /\ \A v \in Window : MovedBy(win[v], ws[v], origin, origin')
               /\ (Placed(win[v], origin) => Placed(ws[v], origin'))
    BY <1>3, <1>8, AfterType DEF IInv
  <1> HIDE DEF ws
  <1>11. drag' \in ResizeDrag /\ Held' = {} /\ drag' \in DragType
    BY <1>6, <1>7, <1>8 DEF ResizeDrag, Held, DragType, MiniDrag, MoveDrag
  <1>12. y \in QvwmType /\ Placed(y, origin')
    <2>1. e \in Env /\ e.origin = origin' BY <1>0, <1>10, HereType DEF Env
    <2>2. Shift(rc, origin') \in Rect BY <1>7, <1>10, ShiftType
    <2> HIDE DEF e
    <2>3. QED BY <1>1, <1>10, <2>1, <2>2, ResizedType
  <1> HIDE DEF y
  <1>13. /\ win' \in [Window -> QvwmType] /\ \A v \in Window \ {w} : win'[v] = ws[v]
         /\ win'[w] = ws[w] \/ win'[w] = y BY <1>1, <1>9, <1>10, <1>12
  <1>14. bar' \in Bar /\ rcScreen' \in Rect BY <1>0 DEF ResizeTo, StateType
  <1>15. AllPlaced' BY <1>1, <1>10, <1>11, <1>12, <1>13 DEF IInv, AllPlaced
  <1>16. IInv' BY <1>10, <1>11, <1>13, <1>14, <1>15 DEF IInv, StateType
  <1>17. Kept({w}) BY <1>10, <1>13 DEF Kept
  <1>18. QED BY <1>1, <1>11, <1>16, <1>17, TurnsOne

\* ResizeMotion is a step of Plane.
LEMMA ResizeMotionStep ==
    ASSUME IInv, NEW pt \in Pointers, ResizeMotion(pt)
    PROVE  IInv' /\ Pages!Next
  <1>1. StateType /\ drag.kind = "resize" /\ pt \in Point /\ ResizeTo(drag, pt)
    BY PagingType DEF IInv, ResizeMotion
  <1>2. drag \in ResizeDrag /\ Held = {} BY <1>1, DragKinds
  <1>3. QED BY <1>1, <1>2, ResizeToStep

\* The side that stays where the left or the top one is dragged is the one base holds.
Based(d) == \A a \in Axis : d.pos[a] = -1 => d.base[a] = End(d.rc[a])

\* A key ends in such a motion, whichever side it takes.
LEMMA ResizeKeyIsMotion ==
    ASSUME IInv, NEW key \in Keys, NEW pt \in Pointers, ResizeKey(key, pt)
    PROVE  \E d \in ResizeDrag, to \in Point :
              ResizeTo(d, to) /\ d.rc = drag.rc /\ d.w = drag.w /\ (Based(drag) => Based(d))
  <1> DEFINE a == key[1]  dir == key[2]
             takes == drag.pos[a] = 0
             side == IF dir = -1 THEN drag.rc[a].at ELSE End(drag.rc[a])
             left == [drag EXCEPT !.keys = @ - 1]
             d == IF takes THEN Taken(left, a, dir) ELSE left
             to == [pt EXCEPT ![a] = (IF takes THEN side ELSE @) + dir * MOVEMENT]
  <1>1. StateType /\ drag.kind = "resize" /\ pt \in Point /\ a \in Axis /\ dir \in {-1, 1}
    BY PagingType DEF IInv, ResizeKey
  <1>2. drag \in ResizeDrag /\ Held = {} BY <1>1, DragKinds
  <1>3. ResizeTo(d, to) BY Zenon DEF ResizeKey
  <1>4. left \in ResizeDrag BY <1>2 DEF ResizeDrag
  <1>5. side \in Int BY <1>1, <1>2 DEF ResizeDrag, Rect, Span, End
  <1> HIDE DEF left, side
  <1>6. to \in Point
    <2>1. dir * MOVEMENT \in Int BY <1>1 DEF MOVEMENT
    <2>2. QED BY <1>1, <1>5, <2>1 DEF Point
  <1>7. left.rc = drag.rc /\ left.w = drag.w /\ left.pos = drag.pos /\ left.base = drag.base
    BY <1>2 DEF ResizeDrag, left
  <1>8. /\ Taken(left, a, dir) \in ResizeDrag
        /\ Taken(left, a, dir).rc = left.rc /\ Taken(left, a, dir).w = left.w
        /\ Based(left) => Based(Taken(left, a, dir))
    <2> DEFINE at == IF dir = -1 THEN End(left.rc[a]) ELSE left.rc[a].at
               pos == [left.pos EXCEPT ![a] = dir]
               base == [left.base EXCEPT ![a] = at]
               e == Taken(left, a, dir)
    <2>1. at \in Int BY <1>1, <1>4 DEF ResizeDrag, Rect, Span, End
    <2>2. e = [left EXCEPT !.pos = pos, !.base = base]
      BY <1>4 DEF Taken, ResizeDrag
    <2>3. left.pos \in [Axis -> {-1, 0, 1}] /\ left.base \in Point BY <1>4 DEF ResizeDrag
    <2>4. \A c \in Axis : (pos[c] = -1 /\ (left.pos[c] = -1 => left.base[c] = End(left.rc[c])))
                          => base[c] = End(left.rc[c])
      BY <1>1, <2>3 DEF Point
    <2> HIDE DEF at
    <2>5. pos \in [Axis -> {-1, 0, 1}] /\ base \in Point
      BY <1>1, <2>1, <2>3 DEF Point
    <2> HIDE DEF pos, base, e
    <2>6. e \in ResizeDrag /\ e.rc = left.rc /\ e.w = left.w /\ e.pos = pos /\ e.base = base
      BY <1>4, <2>2, <2>5 DEF ResizeDrag
    <2>7. Based(left) => Based(e) BY <2>4, <2>6 DEF Based
    <2>8. QED BY <2>6, <2>7 DEF e
  <1>9. Based(drag) => Based(left) BY <1>7 DEF Based
  <1>10. d \in ResizeDrag /\ d.rc = drag.rc /\ d.w = drag.w /\ (Based(drag) => Based(d))
    BY <1>4, <1>7, <1>8, <1>9
  <1> HIDE DEF d, to
  <1>11. QED BY <1>3, <1>6, <1>10

\* ResizeKey is a step of Plane.
LEMMA ResizeKeyStep ==
    ASSUME IInv, NEW key \in Keys, NEW pt \in Pointers, ResizeKey(key, pt)
    PROVE  IInv' /\ Pages!Next
  <1>1. StateType /\ drag.kind = "resize" BY DEF IInv, ResizeKey
  <1>2. drag \in ResizeDrag /\ Held = {} BY <1>1, DragKinds
  <1>3. QED BY <1>2, ResizeKeyIsMotion, ResizeToStep

\* A drag that ends with a new place for its window.
LEMMA DragEnd ==
    ASSUME IInv, Held = {}, NEW w \in Window, NEW x \in QvwmType, Placed(x, origin),
           win' = [win EXCEPT ![w] = x],
            UNCHANGED <<origin, bar, rcScreen>>, drag' \in DragType, Held' = {}
    PROVE  IInv' /\ Pages!Next
  <1>1. bar' \in Bar /\ rcScreen' \in Rect BY DEF IInv, StateType
  <1>2. IInv' /\ Kept({w}) BY <1>1, OneStep
  <1>3. QED BY <1>2, TurnsOne

\* ResizeDecide is a step of Plane.
LEMMA ResizeDecideStep ==
    ASSUME IInv, ResizeDecide
    PROVE  IInv' /\ Pages!Next
  <1>0. StateType /\ drag.kind = "resize" /\ UNCHANGED <<origin, bar, rcScreen>>
    BY DEF IInv, ResizeDecide
  <1>1. drag \in ResizeDrag /\ Held = {} /\ drag.w \in Window BY <1>0, DragKinds
  <1> DEFINE w == drag.w  y == Resized(w, win[w], Shift(drag.rc, origin), Here)
  <1>2. drag' \in DragType /\ Held' = {}
    BY DEF ResizeDecide, DragType, MiniDrag, ResizeDrag, MoveDrag, Held, NoDrag
  <1>3. win[w] \in QvwmType /\ Placed(win[w], origin) /\ win \in [Window -> QvwmType]
    BY <1>0, <1>1 DEF StateType, IInv, AllPlaced
  <1>4. y \in QvwmType /\ Placed(y, origin)
    <2>1. Shift(drag.rc, origin) \in Rect BY <1>0, <1>1, ShiftType DEF ResizeDrag, StateType
    <2>2. QED BY <1>0, <1>1, <1>3, <2>1, ResizedType, HereType
  <1>5. win' = IF Opaque THEN win ELSE [win EXCEPT ![w] = y] BY Zenon DEF ResizeDecide
  <1> HIDE DEF y
  <1>6. CASE Opaque
    <2>1. win' = [win EXCEPT ![w] = win[w]] BY <1>3, <1>5, <1>6
    <2>2. QED BY <1>0, <1>1, <1>2, <1>3, <2>1, DragEnd
  <1>7. CASE ~Opaque
    BY <1>0, <1>1, <1>2, <1>4, <1>5, <1>7, DragEnd
  <1>8. QED BY <1>6, <1>7

\* MiniatureButton2Press is a step of Plane.
LEMMA MiniaturePressStep ==
    ASSUME IInv, NEW w \in Window, MiniatureButton2Press(w)
    PROVE  IInv' /\ Pages!Next
  <1>1. Idle /\ win[w] \in QvwmType /\ Placed(win[w], origin)
    BY IdleFacts DEF MiniatureButton2Press
  <1>2. drag' \in DragType /\ Held' = {}
    BY DEF MiniatureButton2Press, DragType, MiniDrag, ResizeDrag, MoveDrag, Held
  <1>3. QED BY <1>1, <1>2, ThenAdjustPageStep DEF MiniatureButton2Press

\* MiniatureMotion is a step of Plane.
LEMMA MiniatureMotionStep ==
    ASSUME IInv, NEW move \in PagerMoves, MiniatureMotion(move)
    PROVE  IInv' /\ Pages!Next
  <1>0. StateType /\ drag.kind = "mini" /\ UNCHANGED <<origin, bar, rcScreen>>
    BY DEF IInv, MiniatureMotion
  <1>1. drag \in MiniDrag /\ Held = {} /\ drag.w \in Window BY <1>0, DragKinds
  <1> DEFINE w == drag.w
             x == [win[w] EXCEPT !.mini = Shift(@, move)]
             y == PlaceFromPager(w, x, Corner(x.mini))
  <1>2. drag' \in DragType /\ Held' = {}
    BY <1>1 DEF MiniatureMotion, MiniDrag, DragType, ResizeDrag, MoveDrag, Held
  <1>3. win[w] \in QvwmType /\ Placed(win[w], origin) BY <1>0, <1>1 DEF StateType, IInv, AllPlaced
  <1>4. Shift(win[w].mini, move) \in Rect BY <1>3, ShiftType, PagingType DEF QvwmType
  <1>5. x \in QvwmType /\ Placed(x, origin) BY <1>3, <1>4 DEF QvwmType, Placed
  <1>6. win' = [win EXCEPT ![w] = IF Opaque THEN y ELSE x] BY Zenon DEF MiniatureMotion
  <1> HIDE DEF x
  <1>7. y \in QvwmType /\ Placed(y, origin)
    <2>1. Corner(x.mini) \in Point BY <1>5, CornerType DEF QvwmType
    <2>2. QED BY <1>0, <1>1, <1>5, <2>1, PlaceFromPagerType
  <1> HIDE DEF y
  <1>8. QED BY <1>0, <1>1, <1>2, <1>5, <1>6, <1>7, DragEnd

\* MiniatureDecide is a step of Plane, wherever it takes the window.
LEMMA MiniatureDecideStep ==
    ASSUME IInv, MiniatureDecide
    PROVE  IInv' /\ Pages!Next
  <1>0. StateType /\ drag.kind = "mini" /\ UNCHANGED <<origin, bar, rcScreen>>
    BY DEF IInv, MiniatureDecide
  <1>1. drag \in MiniDrag /\ Held = {} /\ drag.w \in Window BY <1>0, DragKinds
  <1> DEFINE w == drag.w
  <1>2. drag' \in DragType /\ Held' = {}
    BY DEF MiniatureDecide, DragType, MiniDrag, ResizeDrag, MoveDrag, Held, NoDrag
  <1>3. win[w] \in QvwmType /\ Placed(win[w], origin) /\ win \in [Window -> QvwmType]
    BY <1>0, <1>1 DEF StateType, IInv, AllPlaced
  <1>4. CASE Opaque
    <2>1. win' = [win EXCEPT ![w] = win[w]] BY <1>3, <1>4 DEF MiniatureDecide
    <2>2. QED BY <1>0, <1>1, <1>2, <1>3, <2>1, DragEnd
  <1>5. CASE ~Opaque
    <2>1. PICK pt \in (IF drag.moved THEN {Corner(win[w].mini)} ELSE Junk) :
             win' = [win EXCEPT ![w] = PlaceFromPager(w, win[w], pt)]
      BY <1>5, Zenon DEF MiniatureDecide
    <2>2. pt \in Point BY <1>3, CornerType, PagingType DEF QvwmType
    <2>3. QED BY <1>0, <1>1, <1>2, <1>3, <2>1, <2>2, PlaceFromPagerType, DragEnd
  <1>6. QED BY <1>4, <1>5

\* Every step keeps the invariant and is a step of Plane.
LEMMA NextStep ==
    ASSUME IInv, Next
    PROVE  IInv' /\ Pages!Next
  <1>1. ASSUME NEW a \in Axis, NEW step \in {-1, 1}, SwitchPage(a, step) PROVE IInv' /\ Pages!Next
    BY <1>1, SwitchPageStep
  <1>2. ASSUME NEW pt \in Pointers, EnterBelt(pt) \/ MoveMotion(pt) \/ ResizeMotion(pt)
        PROVE IInv' /\ Pages!Next
    BY <1>2, EnterBeltStep, MoveMotionStep, ResizeMotionStep
  <1>0. ASSUME NEW key \in Keys, NEW pt \in Pointers, ResizeKey(key, pt) PROVE IInv' /\ Pages!Next
    BY <1>0, ResizeKeyStep
  <1>3. ASSUME NEW cell \in Cells, TurnToPage(cell) PROVE IInv' /\ Pages!Next
    BY <1>3, TurnToPageStep
  <1>4. ASSUME NEW move \in PagerMoves, PagerButton3Motion(move) \/ MiniatureMotion(move)
        PROVE IInv' /\ Pages!Next
    BY <1>4, PagerMotionStep, MiniatureMotionStep
  <1>5. ASSUME NEW w \in Handled,
              \/ AdjustPage(w) \/ MaximizeWindow(w) \/ MinimizeWindow(w) \/ RestoreWindow(w)
              \/ ToggleSticky(w) \/ MiniatureButton2Press(w)
              \/ \E f \in {"BORDER", "BORDER_EDGE", "TITLE"} : ToggleFrame(w, f)
              \/ \E pt \in Pointers : MoveWindow(w, pt)
              \/ \E pos \in Grips : ResizeWindow(w, pos)
        PROVE IInv' /\ Pages!Next
    <2>1. w \in Window BY PagingType
    <2>2. QED
      BY <1>5, <2>1, AdjustPageStep, MaximizeStep, MinimizeStep, RestoreStep, ToggleStickyStep,
         MiniaturePressStep, ToggleFrameStep, MoveWindowStep, ResizeWindowStep
  <1>6. ASSUME NEW w \in Configurable, NEW req \in Requests, Configure(w, req)
        PROVE IInv' /\ Pages!Next
    BY <1>6, ConfigureStep, PagingType
  <1>7. QED
    BY <1>0, <1>1, <1>2, <1>3, <1>4, <1>5, <1>6, RearrangeStep, ToggleAutoHideStep,
       MoveDecideStep, ResizeDecideStep, MiniatureDecideStep, Zenon DEF Next

\* Paging implements Plane: whatever page the user turns to, and whichever window is
\* being moved meanwhile, no handler moves a window that is not its own but by the page
\* turn, and every frame is where rc less origin says.
THEOREM PagingImplementsPlane ==
    Spec => PagesKept
  <1>1. Init => IInv /\ Pages!Init BY InitInv
  <1>2. IInv /\ [Next]_vars => IInv' /\ [Pages!Next]_(Pages!vars)
    <2>1. IInv /\ UNCHANGED vars => IInv' /\ UNCHANGED Pages!vars
      BY DEF vars, Pages!vars, IInv, StateType, Bounded, AllPlaced, Held
    <2>2. QED BY <2>1, NextStep
  <1>3. QED BY <1>1, <1>2, PTL DEF Spec, PagesKept, Pages!Spec

-----------------------------------------------------------------------------
(* The belts *)

\* More than one page on each axis.
MorePages == \A a \in Axis : rcVirt[a].len > 1

\* With more than one page there is room for origin.
LEMMA Range ==
    ASSUME MorePages, NEW a \in Axis
    PROVE  Lowest(a) \in Int /\ Highest(a) \in Int /\ Lowest(a) < Highest(a)
  <1> DEFINE n == rcVirt[a].at  m == End(rcVirt[a]) - 1  d == Display[a]
  <1>1. n \in Int /\ m \in Int /\ d \in Nat \ {0} /\ n < m BY GeometryType DEF End, MorePages
  <1>2. n * d < m * d
    <2> HIDE DEF n, m, d
    <2>1. (m - n) * d > 0 BY <1>1
    <2> QED BY <1>1, <2>1
  <1>3. QED BY <1>2, Bounds DEF Lowest, Highest

\* MapBelts maps the belts that lead on from where Clamp puts origin.
LEMMA BeltsOf ==
    ASSUME MorePages, PagingBeltSize > 0, NEW to \in Point, NEW b \in Belt
    PROVE  b \in MapBelts(to) <=> \A a \in Axis : b[a] # 0
          => Clamp(Plus(Clamp(to), b))[a] # Clamp(to)[a]
  <1> DEFINE Leads(a, dir) == CASE dir = -1 -> to[a] > Lowest(a)
                             [] dir = 1  -> MaxOf(to[a], Lowest(a)) < Highest(a)
                             [] OTHER    -> TRUE
  <1>1. ASSUME NEW a \in Axis
        PROVE Leads(a, b[a]) <=> (b[a] # 0 => Clamp(Plus(Clamp(to), b))[a] # Clamp(to)[a])
    <2>1. b[a] \in {-1, 0, 1} /\ to[a] \in Int BY DEF Belt, Point
    <2> DEFINE c == MinOf(MaxOf(to[a], Lowest(a)), Highest(a))
    <2>2. Clamp(to)[a] = c
          /\ Clamp(Plus(Clamp(to), b))[a] = MinOf(MaxOf(c + b[a], Lowest(a)), Highest(a))
      BY Zenon DEF Clamp, Plus
    <2>3. (b[a] # 0 => MinOf(MaxOf(c + b[a], Lowest(a)), Highest(a)) # c) <=> Leads(a, b[a])
      BY <2>1, Range DEF MinOf, MaxOf
    <2>4. QED BY <2>2, <2>3
  <1>2. MapBelts(to) = {d \in Belt : \A a \in Axis : Leads(a, d[a])}
    BY GeometryType, PagingType DEF MapBelts
  <1> HIDE DEF Leads
  <1>3. QED BY <1>1, <1>2

\* The belts go with origin: both stay, or both are set for the same place.
Belted == \/ UNCHANGED <<origin, mapped>>
          \/ \E to \in Point : origin' = Clamp(to) /\ mapped' = MapBelts(to)

\* PagingAllWindows sets them together.
LEMMA BeltsAfterPaging ==
    ASSUME NEW to \in Point, NEW ws, PagingAllWindows(ws, to)
    PROVE  Belted
    BY DEF PagingAllWindows, Belted

\* HandlePaging does as PagingAllWindows.
LEMMA BeltsAfterHandle ==
    ASSUME StateType, NEW pt \in Point, NEW delta \in HandlePaging(pt), HandlePagingDone(delta)
    PROVE  Belted
  <1>1. Plus(origin, delta) \in Point BY HandlePagingType, PointType, PagingType DEF StateType
  <1>2. QED BY <1>1 DEF HandlePagingDone, Belted

\* AdjustPage turns the page or does nothing.
LEMMA BeltsAfterAdjust ==
    ASSUME NEW w \in Window, NEW x \in QvwmType, ThenAdjustPage(w, x)
    PROVE  Belted
  <1>1. PageOf(x.rc) \in Point BY PageOfType DEF QvwmType
  <1>2. QED BY <1>1, BeltsAfterPaging, Zenon DEF ThenAdjustPage, Belted

\* Every step sets origin and the belts together.
LEMMA BeltedStep ==
    ASSUME IInv, Next
    PROVE  Belted
  <1>0. StateType /\ origin \in Point /\ win \in [Window -> QvwmType] BY DEF IInv, StateType
  <1>1. ASSUME NEW a \in Axis, NEW step \in {-1, 1}, SwitchPage(a, step) PROVE Belted
    BY <1>0, <1>1, SwitchPageTo, BeltsAfterPaging DEF SwitchPage
  <1>2. ASSUME NEW pt \in Pointers, EnterBelt(pt) \/ MoveMotion(pt) \/ ResizeMotion(pt)
        PROVE Belted
    <2>1. CASE EnterBelt(pt) BY <1>0, <2>1, EnterBeltTo, BeltsAfterPaging DEF EnterBelt
    <2>2. CASE MoveMotion(pt) \/ ResizeMotion(pt)
      <3>1. \E delta \in HandlePaging(pt) : HandlePagingDone(delta)
        BY <2>2, Zenon DEF MoveMotion, ResizeMotion, ResizeTo
      <3>2. pt \in Point BY PagingType
      <3>3. QED BY <1>0, <3>1, <3>2, BeltsAfterHandle
    <2>3. QED BY <1>2, <2>1, <2>2
  <1>0a. ASSUME NEW key \in Keys, NEW pt \in Pointers, ResizeKey(key, pt) PROVE Belted
    <2>1. PICK to \in Point : \E delta \in HandlePaging(to) : HandlePagingDone(delta)
      BY <1>0a, ResizeKeyIsMotion, Zenon DEF ResizeTo
    <2>2. QED BY <1>0, <2>1, BeltsAfterHandle
  <1>3. ASSUME NEW cell \in Cells, TurnToPage(cell) PROVE Belted
    BY <1>3, PageType, BeltsAfterPaging DEF TurnToPage
  <1>4. ASSUME NEW move \in PagerMoves, PagerButton3Motion(move) \/ MiniatureMotion(move)
        PROVE Belted
    BY <1>0, <1>4, PagerMotionTo, BeltsAfterPaging
       DEF PagerButton3Motion, MiniatureMotion, Belted
  <1>5. ASSUME NEW w \in Handled,
              \/ AdjustPage(w) \/ MaximizeWindow(w) \/ MinimizeWindow(w) \/ RestoreWindow(w)
              \/ ToggleSticky(w) \/ MiniatureButton2Press(w)
              \/ \E f \in {"BORDER", "BORDER_EDGE", "TITLE"} : ToggleFrame(w, f)
              \/ \E pt \in Pointers : MoveWindow(w, pt)
              \/ \E pos \in Grips : ResizeWindow(w, pos)
        PROVE Belted
    <2>1. w \in Window /\ win[w] \in QvwmType BY <1>0, PagingType
    <2>2. CASE AdjustPage(w) BY <2>1, <2>2, PageOfType, BeltsAfterPaging DEF AdjustPage, QvwmType
    <2>3. CASE RestoreWindow(w)
      BY <1>0, <2>1, <2>3, RestoredType, BeltsAfterAdjust DEF RestoreWindow
    <2>4. CASE MiniatureButton2Press(w) BY <2>1, <2>4, BeltsAfterAdjust DEF MiniatureButton2Press
    <2>5. ASSUME NEW f \in {"BORDER", "BORDER_EDGE", "TITLE"}, ToggleFrame(w, f) PROVE Belted
      <3>1. Minimized(Toggled(w, f)) \in QvwmType
        BY <1>0, <2>1, ToggledType, MinimizedType DEF Flag
      <3>2. QED BY <1>0, <2>1, <2>5, <3>1, RestoredType, BeltsAfterAdjust DEF ToggleFrame
    <2>6. CASE MaximizeWindow(w) \/ MinimizeWindow(w) \/ ToggleSticky(w)
               \/ (\E pt \in Pointers : MoveWindow(w, pt))
                     \/ (\E pos \in Grips : ResizeWindow(w, pos))
      BY <2>6, Zenon
         DEF MaximizeWindow, MinimizeWindow, ToggleSticky, MoveWindow, ResizeWindow, Belted
    <2>7. QED BY <1>5, <2>2, <2>3, <2>4, <2>5, <2>6
  <1>6. ASSUME NEW w \in Configurable, NEW req \in Requests, Configure(w, req) PROVE Belted
    BY <1>6, Zenon DEF Configure, Belted
  <1>7. CASE RearrangeAll \/ ToggleAutoHide \/ MoveDecide \/ ResizeDecide \/ MiniatureDecide
    BY <1>7, Zenon
       DEF RearrangeAll, ToggleTaskbar, MoveTaskbar, ResizeTaskbar, RecalcAllWindows,
       ToggleAutoHide, MoveDecide, ResizeDecide, MiniatureDecide, Belted
  <1>8. QED BY <1>0a, <1>1, <1>2, <1>3, <1>4, <1>5, <1>6, <1>7, Zenon DEF Next

\* A step that sets them together sets them right.
LEMMA BeltsStep ==
    ASSUME MorePages, BeltsLead, Belted
    PROVE  BeltsLead'
  <1>1. CASE UNCHANGED <<origin, mapped>> BY <1>1 DEF BeltsLead
  <1>2. ASSUME NEW to \in Point, origin' = Clamp(to), mapped' = MapBelts(to) PROVE BeltsLead'
    BY <1>2, BeltsOf DEF BeltsLead
  <1>3. QED BY <1>1, <1>2 DEF Belted

\* With more than one page on each axis the belts mapped are those that lead on.
THEOREM BeltsLeadCorrect ==
    ASSUME MorePages
    PROVE  Spec => []BeltsLead
  <1>1. Init => IInv /\ BeltsLead
    <2> SUFFICES ASSUME Init PROVE BeltsLead BY InitInv
    <2>1. Zero \in Point /\ Clamp(Zero) = Zero BY Bounds DEF Zero, Point, Clamp, MinOf, MaxOf
    <2>2. QED BY <2>1, BeltsOf DEF Init, BeltsLead
  <1>2. IInv /\ BeltsLead /\ [Next]_vars => IInv' /\ BeltsLead'
    <2>1. IInv /\ BeltsLead /\ UNCHANGED vars => IInv' /\ BeltsLead'
      BY DEF vars, IInv, StateType, Bounded, AllPlaced, Held, BeltsLead
    <2>2. QED BY <2>1, NextStep, BeltedStep, BeltsStep
  <1>3. QED BY <1>1, <1>2, PTL DEF Spec
-----------------------------------------------------------------------------
(* The size and the place of a frame *)
\* How far x is, on the axis a, from where its rcOrig would put it, and how much longer.
Off(w, x, e, a) == x.rc[a].at - (x.rcOrig[a].at + Displacement(w, x.flags, e)[a])
Long(x, a) == x.rc[a].len - (x.rcOrig[a].len + Around(x.flags)[a])

\* x is where and as long as its rcOrig puts it.
Rests(w, x, e) == \A a \in Axis : Off(w, x, e, a) = 0 /\ Long(x, a) = 0

\* The frame of x is as long as rc.
Fits(x) == \A a \in Axis : x.frame[a].len = x.rc[a].len

\* rc, rcOrig and the frame are as long as each other.
Sized(x) == Fits(x) /\ \A a \in Axis : Long(x, a) = 0

\* The same frame for the same client.
SameLook(x, y) == y.flags = x.flags /\ y.status = x.status

\* x has become y, and what places depend on has gone from e to f: what the user has
\* not touched looks as it did, and no gap has opened.
Goes(w, x, y, e, f) ==
    /\ w \in Handled \/ SameLook(x, y)
    /\ Sized(x) => Sized(y)
    /\ \A a \in Axis : \/ Off(w, y, f, a) = Off(w, x, e, a) /\ Long(y, a) = Long(x, a)
                       \/ Off(w, y, f, a) = 0 /\ Long(y, a) = 0

\* The page is turned.
Turned(e, p) == [e EXCEPT !.origin = p]
-----------------------------------------------------------------------------
(* One window *)

\* What is turned is an Env still.
LEMMA TurnedType ==
    ASSUME NEW e \in Env, NEW p \in Point
    PROVE  Turned(e, p) \in Env /\ Turned(e, p).origin = p
    BY DEF Turned, Env

\* Only a STICKY window is where origin is.
LEMMA DisplacementMoves ==
    ASSUME NEW w \in Window, NEW f \in SUBSET Flag, NEW e \in Env, NEW p \in Point, NEW a \in Axis
    PROVE  /\ Displacement(w, f, e)[a] \in Int
           /\ Displacement(w, f, Turned(e, p))[a] = Displacement(w, f, e)[a]
                 + (IF "STICKY" \in f THEN p[a] - e.origin[a] ELSE 0)
  <1> DEFINE g == GravityShift(w, f)[a]
             s == e.rcScreen[a].at
             t == IF a = AxisOf(e.bar.pos) /\ Gravity[w][a] = EAST THEN Thick(e.bar) ELSE 0
  <1>1. g \in Int
    BY GravityType DEF Point
  <1>2. s \in Int /\ Thick(e.bar) \in Int
    BY DEF Env, Rect, Span, Bar, Thick
  <1>3. t \in Int
    BY <1>2
  <1>4. Displacement(w, f, e)[a] = s + g + (IF "STICKY" \in f THEN e.origin[a] ELSE 0) - t
    BY DEF Displacement
  <1>5. Turned(e, p).bar = e.bar /\ Turned(e, p).rcScreen = e.rcScreen /\ Turned(e, p).origin = p
    BY DEF Turned, Env
  <1>6. Displacement(w, f, Turned(e, p))[a] = s + g + (IF "STICKY" \in f THEN p[a] ELSE 0) - t
    BY <1>5 DEF Displacement
  <1>7. e.origin[a] \in Int /\ p[a] \in Int
    BY DEF Point, Env
  <1> HIDE DEF g, s, t
  <1> QED
    BY <1>1, <1>2, <1>3, <1>4, <1>6, <1>7

\* The numbers of a Qvwm.
LEMMA Numbers ==
    ASSUME NEW w \in Window, NEW x \in QvwmType, NEW e \in Env, NEW a \in Axis
    PROVE  /\ x.rc[a].at \in Int /\ x.rc[a].len \in Int /\ x.frame[a].len \in Int
           /\ x.rcOrig[a].at \in Int /\ x.rcOrig[a].len \in Int
           /\ Around(x.flags)[a] \in Int /\ Displacement(w, x.flags, e)[a] \in Int
           /\ Off(w, x, e, a) \in Int /\ Long(x, a) \in Int
  <1>1. x.flags \in SUBSET Flag
    BY DEF QvwmType
  <1>2. Around(x.flags)[a] \in Int /\ Displacement(w, x.flags, e)[a] \in Int
    BY <1>1, AroundType, DisplacementMoves DEF Point
  <1>3. /\ x.rc[a].at \in Int /\ x.rc[a].len \in Int /\ x.frame[a].len \in Int
        /\ x.rcOrig[a].at \in Int /\ x.rcOrig[a].len \in Int
    BY DEF QvwmType, Rect, Span
  <1> QED
    BY <1>2, <1>3 DEF Off, Long

\* To place a rectangle leaves its sizes.
LEMMA PlaceAtLen ==
    ASSUME NEW rc \in Rect, NEW pt \in Point
    PROVE  PlaceAt(rc, pt) \in Rect /\ \A a \in Axis : PlaceAt(rc, pt)[a].len = rc[a].len
  <1>1. ASSUME NEW a \in Axis PROVE PlaceAt(rc, pt)[a].len = rc[a].len
    BY DEF PlaceAt, Rect, Span
  <1> QED
    BY <1>1, PlaceAtType

\* Nothing changes that a window is measured by.
LEMMA GoesNowhere ==
    ASSUME NEW w, NEW x, NEW y, NEW e, y.rc = x.rc, y.rcOrig = x.rcOrig, y.flags = x.flags,
           w \in Handled \/ y.status = x.status,
           \A a \in Axis : y.frame[a].len = x.frame[a].len
    PROVE  Goes(w, x, y, e, e)
    BY DEF Goes, SameLook, Sized, Fits, Long, Off

\* A window that is at rest after it has been drawn.
LEMMA GoesToRest ==
    ASSUME NEW w, NEW x, NEW y, NEW e, NEW f, Rests(w, y, f), Sized(x) => Fits(y),
           w \in Handled \/ SameLook(x, y)
    PROVE  Goes(w, x, y, e, f)
    BY DEF Goes, Rests, Sized

\* One after another.
LEMMA GoesOn ==
    ASSUME NEW w, NEW x, NEW y, NEW z, NEW e, NEW f, NEW g, Goes(w, x, y, e, f), Goes(w, y, z, f, g)
    PROVE  Goes(w, x, z, e, g)
  <1>1. w \in Handled \/ SameLook(x, z)
    BY DEF Goes, SameLook
  <1>2. Sized(x) => Sized(z)
    BY DEF Goes
  <1>3. ASSUME NEW a \in Axis
        PROVE  \/ Off(w, z, g, a) = Off(w, x, e, a) /\ Long(z, a) = Long(x, a)
               \/ Off(w, z, g, a) = 0 /\ Long(z, a) = 0
    BY DEF Goes
  <1> QED
    BY <1>1, <1>2, <1>3 DEF Goes

\* ConfigureNewRect takes rcOrig along.
LEMMA ConfigureNewRectRests ==
    ASSUME NEW w \in Window, NEW x \in QvwmType, NEW rect \in Rect, NEW e \in Env
    PROVE  LET y == ConfigureNewRect(w, x, rect, e)
           IN  /\ y \in QvwmType /\ y.rc = rect /\ y.frame = x.frame
               /\ SameLook(x, y) /\ Rests(w, y, e)
  <1> DEFINE y == ConfigureNewRect(w, x, rect, e)
             base == [a \in Axis |-> [at  |-> rect[a].at - Displacement(w, x.flags, e)[a],
                                      len |-> rect[a].len - Around(x.flags)[a]]]
  <1>1. y \in QvwmType /\ y.rc = rect /\ y.flags = x.flags /\ y.frame = x.frame
    BY ConfigureNewRectType
  <1>2. y = [x EXCEPT !.rc = rect, !.rcOrig = base]
    BY Zenon DEF ConfigureNewRect
  <1> HIDE DEF y
  <1>3. \A a \in Axis : base[a].at = rect[a].at - Displacement(w, x.flags, e)[a]
                        /\ base[a].len = rect[a].len - Around(x.flags)[a]
    OBVIOUS
  <1> HIDE DEF base
  <1>4. y.rcOrig = base /\ y.status = x.status
    BY <1>2 DEF QvwmType
  <1>5. ASSUME NEW a \in Axis PROVE Off(w, y, e, a) = 0 /\ Long(y, a) = 0
    <2>1. /\ Around(x.flags)[a] \in Int /\ Displacement(w, x.flags, e)[a] \in Int
          /\ y.rc[a].at \in Int /\ y.rc[a].len \in Int
      BY <1>1, Numbers
    <2> QED
      BY <1>1, <1>3, <1>4, <2>1 DEF Off, Long
  <1> QED
    BY <1>1, <1>4, <1>5 DEF Rests, SameLook, y

\* RedrawWindow gives the frame the size of rc, and keeps the rest.
LEMMA RedrawFits ==
    ASSUME NEW x \in QvwmType, NEW e \in Env
    PROVE  LET y == RedrawWindow(x, e)
           IN  /\ y \in QvwmType /\ Fits(y) /\ y.rc = x.rc /\ y.rcOrig = x.rcOrig /\ SameLook(x, y)
  <1> DEFINE fr == Shown(x.rc, e.origin)  mi == ConvertToPagerSize(x.rc)  y == RedrawWindow(x, e)
  <1>1. y \in QvwmType /\ y.rc = x.rc /\ y.flags = x.flags
    BY RedrawType
  <1>2. y = [x EXCEPT !.frame = fr, !.mini = mi]
    BY Zenon DEF RedrawWindow
  <1> HIDE DEF y
  <1>3. \A a \in Axis : fr[a].len = x.rc[a].len
    BY DEF Shown, QvwmType, Rect, Span
  <1> HIDE DEF fr, mi
  <1>4. y.frame = fr /\ y.rcOrig = x.rcOrig /\ y.status = x.status
    BY <1>2 DEF QvwmType
  <1> QED
    BY <1>1, <1>3, <1>4 DEF Fits, SameLook, y

\* A handler that ends in both leaves the window at rest.
LEMMA ResizedRests ==
    ASSUME NEW w \in Window, NEW x \in QvwmType, NEW rect \in Rect, NEW e \in Env
    PROVE  LET y == Resized(w, x, rect, e)
           IN  y \in QvwmType /\ SameLook(x, y) /\ Fits(y) /\ Rests(w, y, e)
  <1> DEFINE z == ConfigureNewRect(w, x, rect, e)
             y == RedrawWindow(z, e)
  <1>1. z \in QvwmType /\ SameLook(x, z) /\ Rests(w, z, e)
    BY ConfigureNewRectRests
  <1>2. Resized(w, x, rect, e) = y
    BY Zenon DEF Resized
  <1> HIDE DEF z
  <1>3. y \in QvwmType /\ Fits(y) /\ y.rc = z.rc /\ y.rcOrig = z.rcOrig /\ SameLook(z, y)
    BY <1>1, RedrawFits
  <1> HIDE DEF y
  <1> QED
    BY <1>1, <1>2, <1>3 DEF SameLook, Rests, Off, Long

\* The rest of x is that of y, and the frame as long.
Alike(x, y) ==
    /\ y \in QvwmType /\ y.rc = x.rc /\ y.rcOrig = x.rcOrig /\ SameLook(x, y)
    /\ \A a \in Axis : y.frame[a].len = x.frame[a].len

\* What is alike twice is alike.
LEMMA AlikeTwice ==
    ASSUME NEW x, NEW y, NEW z, Alike(x, y), Alike(y, z)
    PROVE  Alike(x, z)
    BY DEF Alike, SameLook

\* What looks alike goes nowhere.
LEMMA AlikeGoes ==
    ASSUME NEW w, NEW x, NEW y, NEW e, Alike(x, y)
    PROVE  Goes(w, x, y, e, e)
    BY GoesNowhere DEF Alike, SameLook

\* MoveMiniature changes the miniature, and XMoveWindow the place of the frame.
LEMMA MovedAlike ==
    ASSUME NEW x \in QvwmType, NEW pt \in Point
    PROVE  /\ Alike(x, MoveMiniature(x, pt))
           /\ Alike(x, [x EXCEPT !.frame = PlaceAt(@, pt)])
  <1> DEFINE mi == PlaceAt(x.mini, ConvertToPagerPos(pt))
             fr == PlaceAt(x.frame, pt)
             y == MoveMiniature(x, pt)
             z == [x EXCEPT !.frame = fr]
  <1>1. y \in QvwmType /\ y.rc = x.rc /\ y.flags = x.flags /\ y.frame = x.frame
    BY MiniatureType
  <1>2. y = [x EXCEPT !.mini = mi]
    BY Zenon DEF MoveMiniature
  <1>3. fr \in Rect /\ \A a \in Axis : fr[a].len = x.frame[a].len
    BY PlaceAtLen DEF QvwmType
  <1> HIDE DEF mi, fr, y
  <1>4. y.rcOrig = x.rcOrig /\ y.status = x.status
    BY <1>2 DEF QvwmType
  <1>5. Alike(x, y)
    BY <1>1, <1>4 DEF Alike, SameLook
  <1>6. z \in QvwmType /\ z.rc = x.rc /\ z.rcOrig = x.rcOrig /\ SameLook(x, z) /\ z.frame = fr
    BY <1>3 DEF QvwmType, SameLook
  <1> HIDE DEF z
  <1>7. Alike(x, z)
    BY <1>3, <1>6 DEF Alike
  <1> QED
    BY <1>5, <1>7 DEF y, z, fr

\* A page turn takes a STICKY window along with the origin it is measured from.
LEMMA PagedGoes ==
    ASSUME NEW w \in Window, NEW x \in QvwmType, NEW e \in Env, NEW p \in Point
    PROVE  Goes(w, x, Paged(x, e.origin, p), e, Turned(e, p))
  <1> DEFINE o == e.origin
             f == Turned(e, p)
  <1>0. o \in Point /\ f \in Env
    BY TurnedType DEF Env
  <1>1. x.rc \in Rect /\ Minus(p, o) \in Point /\ x.flags \in SUBSET Flag
    BY <1>0, PointType DEF QvwmType
  <1>2. CASE "STICKY" \in x.flags
    <2> DEFINE rect == Shift(x.rc, Minus(p, o))
               z == [x EXCEPT !.rc = rect]
               y == MoveMiniature(z, Corner(rect))
    <2>1. rect \in Rect /\ Corner(rect) \in Point
      BY <1>1, ShiftType, CornerType
    <2>2. Paged(x, o, p) = y
      BY <1>2, Zenon DEF Paged
    <2>3. \A a \in Axis : rect[a].at = x.rc[a].at + (p[a] - o[a]) /\ rect[a].len = x.rc[a].len
      BY <1>1 DEF Shift, Minus, Rect, Span
    <2> HIDE DEF rect
    <2>4. z \in QvwmType /\ z.rc = rect /\ z.rcOrig = x.rcOrig /\ SameLook(x, z) /\ z.frame = x.frame
      BY <2>1 DEF QvwmType, SameLook
    <2> HIDE DEF z
    <2>5. Alike(z, y)
      BY <2>1, <2>4, MovedAlike
    <2>6. ASSUME NEW a \in Axis
          PROVE  Off(w, z, f, a) = Off(w, x, e, a) /\ Long(z, a) = Long(x, a)
      <3>1. /\ Displacement(w, x.flags, f)[a] = Displacement(w, x.flags, e)[a] + (p[a] - o[a])
            /\ Displacement(w, x.flags, e)[a] \in Int
        BY <1>1, <1>2, DisplacementMoves
      <3>2. x.rc[a].at \in Int /\ x.rcOrig[a].at \in Int /\ p[a] \in Int /\ o[a] \in Int
        BY <1>0, Numbers DEF Point
      <3>3. z.flags = x.flags
        BY <2>4 DEF SameLook
      <3> QED
        BY <2>3, <2>4, <3>1, <3>2, <3>3 DEF Off, Long
    <2>7. Goes(w, x, z, e, f)
      BY <2>3, <2>4, <2>6 DEF Goes, Sized, Fits
    <2>8. Goes(w, z, y, f, f)
      BY <2>5, AlikeGoes
    <2> HIDE DEF y
    <2> QED
      BY <2>2, <2>7, <2>8, GoesOn
  <1>3. CASE "STICKY" \notin x.flags
    <2> DEFINE pt == Corner(Shown(x.rc, p))
               y == [x EXCEPT !.frame = PlaceAt(@, pt)]
    <2>1. pt \in Point
      BY <1>1, ShownType, CornerType
    <2>2. Paged(x, o, p) = y
      BY <1>3, Zenon DEF Paged
    <2> HIDE DEF pt
    <2>3. Alike(x, y)
      BY <2>1, MovedAlike
    <2>4. \A a \in Axis : Off(w, x, f, a) = Off(w, x, e, a)
      BY <1>1, <1>3, DisplacementMoves DEF Off
    <2>5. Goes(w, x, x, e, f)
      BY <2>4 DEF Goes, SameLook
    <2>6. Goes(w, x, y, f, f)
      BY <2>3, AlikeGoes
    <2> HIDE DEF y
    <2> QED
      BY <2>2, <2>5, <2>6, GoesOn
  <1> QED
    BY <1>2, <1>3

\* CalcWindowPos puts a window to rest.
LEMMA CalcRests ==
    ASSUME NEW w \in Window, NEW x \in QvwmType, NEW e \in Env,
           x.rc = CalcWindowPos(w, x.rcOrig, x.flags, e)
    PROVE  Rests(w, x, e)
  <1>1. ASSUME NEW a \in Axis PROVE Off(w, x, e, a) = 0 /\ Long(x, a) = 0
    <2>1. /\ x.rc[a].at = x.rcOrig[a].at + Displacement(w, x.flags, e)[a]
          /\ x.rc[a].len = x.rcOrig[a].len + Around(x.flags)[a]
      BY DEF CalcWindowPos
    <2> QED
      BY <2>1, Numbers DEF Off, Long
  <1> QED
    BY <1>1 DEF Rests

\* MinimizeWindow leaves all but the status as it is.
LEMMA MinimizedGoes ==
    ASSUME NEW w \in Handled, NEW x \in QvwmType, NEW e
    PROVE  Goes(w, x, Minimized(x), e, e)
  <1> DEFINE y == Minimized(x)
  <1>1. y.rc = x.rc /\ y.rcOrig = x.rcOrig /\ y.flags = x.flags /\ y.frame = x.frame
    BY DEF Minimized, QvwmType
  <1> HIDE DEF y
  <1> QED
    BY <1>1, GoesNowhere DEF y

\* A toggled attribute: the same rc, and rcOrig for the new frame.
LEMMA ToggledGoes ==
    ASSUME StateType, NEW w \in Handled, NEW f \in Flag
    PROVE  Goes(w, win[w], Toggled(w, f), Here, Here)
  <1> DEFINE x == [win[w] EXCEPT !.flags = Toggle(@, f)]
             y == ConfigureNewRect(w, x, x.rc, Here)
  <1>1. win[w] \in QvwmType /\ w \in Window /\ origin \in Point
    BY PagingType DEF StateType
  <1>2. Toggle(win[w].flags, f) \in SUBSET Flag
    BY <1>1 DEF QvwmType, Toggle
  <1>3. x \in QvwmType /\ x.rc = win[w].rc /\ x.frame = win[w].frame
    BY <1>1, <1>2 DEF QvwmType
  <1>4. Toggled(w, f) = y
    BY <1>1, HereType, Zenon DEF Toggled
  <1> HIDE DEF x
  <1>5. x.rc \in Rect
    BY <1>3 DEF QvwmType
  <1>6. y.rc = x.rc /\ y.frame = x.frame /\ Rests(w, y, Here)
    BY HereType, <1>1, <1>3, <1>5, ConfigureNewRectRests
  <1> HIDE DEF y
  <1>7. Sized(win[w]) => Fits(y)
    BY <1>3, <1>6 DEF Sized, Fits
  <1> QED
    BY <1>4, <1>6, <1>7, GoesToRest

\* RestoreWindow draws the window at rest.
LEMMA RestoredRests ==
    ASSUME StateType, NEW w \in Window, NEW x \in QvwmType
    PROVE  LET y == Restored(w, x) IN y \in QvwmType /\ Fits(y) /\ Rests(w, y, Here)
  <1>1. /\ x.flags \in SUBSET Flag /\ x.flagsBak \in SUBSET Flag
        /\ x.rcOrig \in Rect /\ x.rcOrigBak \in Rect /\ origin \in Point /\ Here \in Env
    BY HereType DEF QvwmType, StateType
  <1>2. CASE x.status = Status
    <2> DEFINE y == [x EXCEPT !.flags = @ \ {"BORDER"}, !.status = {"MAXIMIZE"}]
    <2>1. y \in QvwmType
      BY DEF QvwmType, Status
    <2>2. Restored(w, x) = Resized(w, y, FullScreen(w, x.flags), Here)
      BY <1>1, <1>2, Zenon DEF Restored
    <2> HIDE DEF y
    <2> QED
      BY <1>1, <2>1, <2>2, FullScreenType, ResizedRests
  <1>3. CASE x.status # Status
    <2> DEFINE base == IF "MAXIMIZE" \in x.status THEN x.rcOrigBak ELSE x.rcOrig
               y == [x EXCEPT !.flags = x.flagsBak, !.rcOrig = base, !.status = {}]
    <2>1. base \in Rect
      BY <1>1
    <2>2. Restored(w, x) = Resized(w, y, CalcWindowPos(w, base, y.flags, Here), Here)
      BY <1>1, <1>3, Zenon DEF Restored
    <2> HIDE DEF base
    <2>3. y \in QvwmType /\ y.flags \in SUBSET Flag
      BY <1>1, <2>1 DEF QvwmType
    <2> HIDE DEF y
    <2>4. CalcWindowPos(w, base, y.flags, Here) \in Rect
      BY <1>1, <2>1, <2>3, CalcType, HereType
    <2> QED
      BY <1>1, <2>2, <2>3, <2>4, ResizedRests
  <1> QED
    BY <1>2, <1>3

\* A drop in the pager.
LEMMA PlaceFromPagerGoes ==
    ASSUME StateType, NEW w \in Window, NEW x \in QvwmType, NEW pt \in Point
    PROVE  Goes(w, x, PlaceFromPager(w, x, pt), Here, Here)
  <1> DEFINE rect == PlaceAt(x.rc, ConvertToRealPos(pt))
             y == ConfigureNewRect(w, x, rect, Here)
             to == Corner(Shown(rect, origin))
             z == [y EXCEPT !.frame = PlaceAt(@, to)]
  <1>1. x.rc \in Rect /\ origin \in Point /\ Here \in Env
    BY HereType DEF QvwmType, StateType
  <1>2. rect \in Rect /\ \A a \in Axis : rect[a].len = x.rc[a].len
    <2>1. ConvertToRealPos(pt) \in Point
      BY <1>1, PagerType
    <2> QED
      BY <1>1, <2>1, PlaceAtLen
  <1>3. PlaceFromPager(w, x, pt) = z
    BY <1>1, Zenon DEF PlaceFromPager
  <1> HIDE DEF rect
  <1>4. to \in Point
    BY <1>1, <1>2, ShownType, CornerType
  <1>5. y \in QvwmType /\ y.rc = rect /\ y.frame = x.frame /\ SameLook(x, y) /\ Rests(w, y, Here)
    BY <1>1, <1>2, ConfigureNewRectRests
  <1> HIDE DEF y, to
  <1>6. Sized(x) => Fits(y)
    BY <1>2, <1>5 DEF Sized, Fits
  <1>7. Goes(w, x, y, Here, Here)
    BY <1>5, <1>6, GoesToRest
  <1>8. Goes(w, y, z, Here, Here)
    BY <1>4, <1>5, MovedAlike, AlikeGoes
  <1> HIDE DEF z
  <1> QED
    BY <1>3, <1>7, <1>8, GoesOn

\* A window being dragged.
LEMMA DraggedAlike ==
    ASSUME NEW x \in QvwmType, NEW shown \in Rect, NEW o \in Point
    PROVE  Alike(x, Dragged(x, shown, o))
  <1> DEFINE z == [x EXCEPT !.frame = PlaceAt(@, Corner(shown))]
             y == MoveMiniature(z, Plus(Corner(shown), o))
  <1>1. Corner(shown) \in Point /\ Plus(Corner(shown), o) \in Point
    BY CornerType, PointType
  <1>2. Dragged(x, shown, o) = y
    BY Zenon DEF Dragged
  <1>3. Alike(x, z)
    BY <1>1, MovedAlike
  <1> HIDE DEF z
  <1>4. Alike(z, y)
    BY <1>1, <1>3, MovedAlike DEF Alike
  <1> HIDE DEF y
  <1> QED
    BY <1>2, <1>3, <1>4, AlikeTwice

\* RecalcWindow puts a window to rest, where the taskbar and the screen have gone.
LEMMA RecalcGoes ==
    ASSUME NEW w \in Window, NEW x \in QvwmType, NEW e \in Env, NEW f \in Env
    PROVE  Goes(w, x, RecalcWindow(w, x, f), e, f)
  <1>0. x.flags \in SUBSET Flag /\ x.rcOrig \in Rect /\ f.rcScreen \in Rect /\ f.origin \in Point
    BY DEF QvwmType, Env
  <1>1. CASE "MAXIMIZE" \in x.status
    <2> DEFINE rect == Shift(GetFixSize(w, x.flags, f.rcScreen, f.rcScreen), f.origin)
               y == Resized(w, x, rect, f)
    <2>1. rect \in Rect
      BY <1>0, FixSizeType, ShiftType
    <2>2. RecalcWindow(w, x, f) = y
      BY <1>1, Zenon DEF RecalcWindow, Resized
    <2> HIDE DEF rect
    <2>3. SameLook(x, y) /\ Fits(y) /\ Rests(w, y, f)
      BY <2>1, ResizedRests
    <2> HIDE DEF y
    <2> QED
      BY <2>2, <2>3, GoesToRest
  <1>2. CASE "MAXIMIZE" \notin x.status
    <2> DEFINE rect == CalcWindowPos(w, x.rcOrig, x.flags, f)
               y == [x EXCEPT !.rc = rect]
               pt == Corner(Shown(rect, f.origin))
               z == [y EXCEPT !.frame = PlaceAt(@, pt)]
    <2>1. rect \in Rect /\ \A a \in Axis : rect[a].len = x.rcOrig[a].len + Around(x.flags)[a]
      BY <1>0, CalcType DEF CalcWindowPos
    <2>2. y \in QvwmType /\ y.rc = rect /\ y.rcOrig = x.rcOrig /\ y.frame = x.frame /\ SameLook(x, y)
      BY <2>1 DEF QvwmType, SameLook
    <2>3. RecalcWindow(w, x, f) = z
      BY <1>2, <2>2, Zenon DEF RecalcWindow
    <2>4. pt \in Point
      BY <1>0, <2>1, ShownType, CornerType
    <2>5. Rests(w, y, f)
      BY <2>2, CalcRests DEF SameLook
    <2> HIDE DEF rect, y, pt
    <2>6. Sized(x) => Fits(y)
      <3>1. \A a \in Axis : /\ x.rc[a].len \in Int /\ x.rcOrig[a].len \in Int
                            /\ Around(x.flags)[a] \in Int
        BY Numbers
      <3> QED
        BY <2>1, <2>2, <3>1 DEF Sized, Fits, Long
    <2>7. Goes(w, x, y, e, f)
      BY <2>2, <2>5, <2>6, GoesToRest
    <2>8. Goes(w, y, z, f, f)
      BY <2>2, <2>4, MovedAlike, AlikeGoes
    <2> HIDE DEF z
    <2> QED
      BY <2>3, <2>7, <2>8, GoesOn
  <1> QED
    BY <1>1, <1>2

\* A page turn leaves rc as long as it was.
LEMMA PagedLen ==
    ASSUME NEW x \in QvwmType, NEW o \in Point, NEW p \in Point, NEW a \in Axis
    PROVE  Paged(x, o, p).rc[a].len = x.rc[a].len
  <1>1. x.rc \in Rect /\ Minus(p, o) \in Point
    BY PointType DEF QvwmType
  <1>2. CASE "STICKY" \in x.flags
    <2> DEFINE rect == Shift(x.rc, Minus(p, o))
               z == [x EXCEPT !.rc = rect]
    <2>1. rect \in Rect /\ Corner(rect) \in Point
      BY <1>1, ShiftType, CornerType
    <2>2. rect[a].len = x.rc[a].len
      BY <1>1 DEF Shift, Rect, Span
    <2>3. Paged(x, o, p) = MoveMiniature(z, Corner(rect))
      BY <1>2, Zenon DEF Paged
    <2> HIDE DEF rect
    <2>4. z \in QvwmType /\ z.rc = rect
      BY <2>1 DEF QvwmType
    <2> HIDE DEF z
    <2>5. Alike(z, MoveMiniature(z, Corner(rect)))
      BY <2>1, <2>4, MovedAlike
    <2> QED
      BY <2>2, <2>3, <2>4, <2>5 DEF Alike
  <1>3. CASE "STICKY" \notin x.flags
    <2>1. Paged(x, o, p) = [x EXCEPT !.frame = PlaceAt(@, Corner(Shown(x.rc, p)))]
      BY <1>3, Zenon DEF Paged
    <2> QED
      BY <2>1 DEF QvwmType
  <1> QED
    BY <1>2, <1>3

\* FixWindowPos leaves the sizes.
LEMMA ToScreenLen ==
    ASSUME NEW rc \in Rect, NEW scr \in Rect, NEW a \in Axis
    PROVE  FixToScreen(rc, scr)[a].len = rc[a].len
  <1>1. ASSUME NEW r \in Rect PROVE SnapToScreen(r, scr)[a].len = r[a].len
    BY DEF SnapToScreen, Rect, Span
  <1>2. ASSUME NEW r \in Rect PROVE ResistEdges(r, scr)[a].len = r[a].len
    BY DEF ResistEdges, Rect, Span
  <1>3. SnapToScreen(rc, scr) \in Rect
    BY GeometryType DEF SnapToScreen, Rect, Span, End, Axis
  <1> QED
    BY <1>1, <1>2, <1>3 DEF FixToScreen
-----------------------------------------------------------------------------
(* The steps *)

\* Each window goes on.
AllGo == \A w \in Window : Goes(w, win[w], win'[w], Here, Here')

\* Where the taskbar stays, the next step measures from the new origin.
LEMMA HereNext ==
    ASSUME StateType, origin' \in Point, UNCHANGED <<bar, rcScreen>>
    PROVE  Here \in Env /\ Here.origin = origin /\ Here' = Turned(Here, origin') /\ Here' \in Env
  <1>1. Here \in Env /\ Here.origin = origin
    BY HereType
  <1>2. Here' = Turned(Here, origin')
    BY DEF Here, Turned
  <1> QED
    BY <1>1, <1>2, TurnedType

\* All windows go along with a page turn.
LEMMA TurnGoes ==
    ASSUME StateType, origin' \in Point, UNCHANGED <<bar, rcScreen>>,
           NEW ws \in [Window -> QvwmType], \A w \in Window : Goes(w, win[w], ws[w], Here, Here)
    PROVE  \A w \in Window : Goes(w, win[w], AllPaged(ws, origin, origin')[w], Here, Here')
  <1> SUFFICES ASSUME NEW w \in Window
               PROVE  Goes(w, win[w], AllPaged(ws, origin, origin')[w], Here, Here')
    OBVIOUS
  <1>1. Here \in Env /\ Here.origin = origin /\ Here' = Turned(Here, origin') /\ Here' \in Env
    BY HereNext
  <1>2. CASE origin' = origin
    <2>1. Here' = Here
      BY <1>2 DEF Here
    <2> QED
      BY <1>2, <2>1 DEF AllPaged
  <1>3. CASE origin' # origin
    <2>1. AllPaged(ws, origin, origin')[w] = Paged(ws[w], origin, origin')
      BY <1>3 DEF AllPaged
    <2>2. Goes(w, ws[w], Paged(ws[w], origin, origin'), Here, Here')
      BY <1>1, PagedGoes
    <2>3. Goes(w, win[w], ws[w], Here, Here)
      OBVIOUS
    <2> QED
      BY <2>1, <2>2, <2>3, GoesOn
  <1> QED
    BY <1>2, <1>3

\* A window that has not changed.
LEMMA StaysThere ==
    ASSUME NEW w, NEW x, NEW e
    PROVE  Goes(w, x, x, e, e)
    BY DEF Goes, SameLook

\* A page turn alone.
LEMMA PagingGoes ==
    ASSUME StateType, origin' \in Point, UNCHANGED <<bar, rcScreen>>, NEW to,
           PagingAllWindows(win, to)
    PROVE  AllGo
  <1>1. win \in [Window -> QvwmType]
    BY DEF StateType
  <1>2. win' = AllPaged(win, origin, origin')
    BY DEF PagingAllWindows, AllPaged
  <1> QED
    BY <1>1, <1>2, StaysThere, TurnGoes DEF AllGo

\* One window.
LEMMA OneGoes ==
    ASSUME StateType, NEW w \in Window, NEW x, win' = [win EXCEPT ![w] = x],
           UNCHANGED <<origin, bar, rcScreen>>, Goes(w, win[w], x, Here, Here)
    PROVE  AllGo
  <1>1. Here' = Here
    BY DEF Here
  <1>2. win'[w] = x /\ \A v \in Window \ {w} : win'[v] = win[v]
    BY DEF StateType
  <1> QED
    BY <1>1, <1>2, StaysThere DEF AllGo

\* One window, and then AdjustPage.
LEMMA AdjustGoes ==
    ASSUME StateType, origin' \in Point, UNCHANGED <<bar, rcScreen>>, NEW w \in Window,
           NEW x \in QvwmType, Goes(w, win[w], x, Here, Here), ThenAdjustPage(w, x)
    PROVE  AllGo
  <1> DEFINE ws == [win EXCEPT ![w] = x]
  <1>1. CASE "STICKY" \in x.flags
    BY <1>1, OneGoes DEF ThenAdjustPage
  <1>2. CASE "STICKY" \notin x.flags
    <2>1. PagingAllWindows(ws, PageOf(x.rc))
      BY <1>2, Zenon DEF ThenAdjustPage
    <2>2. /\ ws \in [Window -> QvwmType] /\ ws[w] = x
          /\ \A v \in Window \ {w} : ws[v] = win[v]
      BY DEF StateType
    <2> HIDE DEF ws
    <2>3. \A v \in Window : Goes(v, win[v], ws[v], Here, Here)
      BY <2>2, StaysThere
    <2>4. win' = AllPaged(ws, origin, origin')
      BY <2>1 DEF PagingAllWindows, AllPaged
    <2> QED
      BY <2>2, <2>3, <2>4, TurnGoes DEF AllGo
  <1> QED
    BY <1>1, <1>2

\* After HandlePaging.
LEMMA AfterGoes ==
    ASSUME StateType, Bounded, NEW delta \in Point, HandlePagingDone(delta),
           UNCHANGED <<bar, rcScreen>>
    PROVE  LET ws == After(delta, win)
           IN  /\ origin' \in Point /\ ws \in [Window -> QvwmType]
               /\ \A w \in Window : /\ Goes(w, win[w], ws[w], Here, Here')
                                    /\ \A a \in Axis : ws[w].rc[a].len = win[w].rc[a].len
  <1> DEFINE ws == After(delta, win)
  <1>1. origin' \in Point /\ ws = AllPaged(win, origin, origin') /\ ws \in [Window -> QvwmType]
    BY AfterType
  <1> HIDE DEF ws
  <1>2. win \in [Window -> QvwmType] /\ origin \in Point
    BY DEF StateType
  <1>3. \A w \in Window : Goes(w, win[w], ws[w], Here, Here')
    BY <1>1, <1>2, StaysThere, TurnGoes
  <1>4. ASSUME NEW w \in Window, NEW a \in Axis PROVE ws[w].rc[a].len = win[w].rc[a].len
    BY <1>1, <1>2, PagedLen DEF AllPaged
  <1> QED
    BY <1>1, <1>3, <1>4 DEF ws
-----------------------------------------------------------------------------
(* The invariant *)

\* Rc and shown of a move are as long as the window that is moved.
DragSized ==
    drag.kind = "move" =>
        \A a \in Axis : /\ drag.rc[a].len = win[drag.w].rc[a].len
                        /\ drag.shown[a].len = win[drag.w].rc[a].len
AllSized == \A w \in Window : Sized(win[w])

\* What the user does not handle is never minimized, maximized or framed anew.
Untouched == \A w \in Window \ Handled : win[w].flags = InitFlags[w] /\ win[w].status = {}

PlaceInv == IInv /\ AllSized /\ DragSized /\ Untouched

\* No window that the user handles is configured by its client: the client of a
\* maximized window takes the frame's sizes with it when Configure un-maximizes it.
Apart == Configurable \cap Handled = {}

\* And its frame is where it is: Configure looks at neither in one of the two places.
Bare == \A w \in Configurable : InitFlags[w] \subseteq {"STICKY"} /\ Gravity[w] = Zero

\* A step in which every window goes on, and none is moved by hand.
Calm == AllGo /\ drag'.kind # "move"

\* A page turn by itself.
LEMMA PagingCalm ==
    ASSUME StateType, StateType', UNCHANGED <<bar, rcScreen, drag>>, Idle, NEW to,
           PagingAllWindows(win, to)
    PROVE  Calm
  <1>1. AllGo
    BY PagingGoes DEF StateType
  <1> QED
    BY <1>1 DEF Calm, Idle, NoDrag

\* A handler of one window that leaves the page.
LEMMA OneCalm ==
    ASSUME StateType, NEW w \in Window, NEW x, win' = [win EXCEPT ![w] = x],
           UNCHANGED <<origin, bar, rcScreen, drag>>, Idle, Goes(w, win[w], x, Here, Here)
    PROVE  Calm
  <1>1. AllGo
    BY OneGoes
  <1> QED
    BY <1>1 DEF Calm, Idle, NoDrag

\* One that ends in AdjustPage.
LEMMA AdjustCalm ==
    ASSUME StateType, StateType', UNCHANGED <<bar, rcScreen>>, drag'.kind # "move", NEW w \in Window,
           NEW x \in QvwmType, Goes(w, win[w], x, Here, Here), ThenAdjustPage(w, x)
    PROVE  Calm
  <1>1. AllGo
    BY AdjustGoes DEF StateType
  <1> QED
    BY <1>1 DEF Calm

\* The handlers of one window, outside the loops of a drag.
LEMMA HandledCalm ==
    ASSUME StateType, StateType', NEW w \in Handled,
           \/ AdjustPage(w) \/ MaximizeWindow(w) \/ MinimizeWindow(w) \/ RestoreWindow(w)
           \/ ToggleSticky(w) \/ MiniatureButton2Press(w)
           \/ \E f \in {"BORDER", "BORDER_EDGE", "TITLE"} : ToggleFrame(w, f)
    PROVE  Calm
  <1>1. w \in Window /\ win[w] \in QvwmType /\ Here \in Env
    BY HereType, PagingType DEF StateType
  <1>2. CASE AdjustPage(w)
    BY <1>2, PagingCalm DEF AdjustPage
  <1>3. CASE MaximizeWindow(w)
    <2> DEFINE x == win[w]
               f == x.flags \ {"BORDER"}
               y == [x EXCEPT !.flags = f, !.rcOrigBak = x.rcOrig, !.status = {"MAXIMIZE"},
                              !.flagsBak = IF "MINIMIZE" \in x.status THEN @ ELSE x.flags]
               z == Resized(w, y, FullScreen(w, f), Here)
    <2>1. f \in SUBSET Flag
      BY <1>1 DEF QvwmType
    <2>2. y \in QvwmType
      BY <1>1, <2>1 DEF QvwmType, Status
    <2>3. win' = [win EXCEPT ![w] = z] /\ UNCHANGED <<origin, bar, rcScreen, drag>> /\ Idle
      BY <1>3, Zenon DEF MaximizeWindow
    <2> HIDE DEF y, f
    <2>4. Fits(z) /\ Rests(w, z, Here)
      BY <1>1, <2>1, <2>2, FullScreenType, ResizedRests
    <2> HIDE DEF z
    <2>5. Goes(w, win[w], z, Here, Here)
      BY <2>4, GoesToRest
    <2> QED
      BY <1>1, <2>3, <2>5, OneCalm
  <1>4. CASE MinimizeWindow(w)
    <2>1. win' = [win EXCEPT ![w] = Minimized(win[w])] /\ UNCHANGED <<origin, bar, rcScreen, drag>>
          /\ Idle
      BY <1>4 DEF MinimizeWindow
    <2> QED
      BY <1>1, <2>1, MinimizedGoes, OneCalm
  <1>5. ASSUME NEW x \in QvwmType PROVE /\ Restored(w, x) \in QvwmType
                                        /\ Goes(w, win[w], Restored(w, x), Here, Here)
    BY <1>1, RestoredRests, GoesToRest
  <1>6. CASE RestoreWindow(w)
    BY <1>1, <1>5, <1>6, AdjustCalm DEF RestoreWindow, Idle, NoDrag
  <1>7. CASE ToggleSticky(w)
    <2>1. Goes(w, win[w], Toggled(w, "STICKY"), Here, Here)
      BY ToggledGoes DEF Flag
    <2> QED
      BY <1>1, <1>7, <2>1, OneCalm DEF ToggleSticky
  <1>8. CASE MiniatureButton2Press(w)
    BY <1>1, <1>8, StaysThere, AdjustCalm DEF MiniatureButton2Press
  <1>9. ASSUME NEW f \in {"BORDER", "BORDER_EDGE", "TITLE"}, ToggleFrame(w, f) PROVE Calm
    <2>1. Minimized(Toggled(w, f)) \in QvwmType
      BY <1>1, ToggledType, MinimizedType DEF Flag
    <2> QED
      BY <1>1, <1>5, <1>9, <2>1, AdjustCalm DEF ToggleFrame, Idle, NoDrag
  <1> QED
    BY <1>2, <1>3, <1>4, <1>6, <1>7, <1>8, <1>9

\* All windows, and the taskbar and the screen they are measured by.
LEMMA RecalcCalm ==
    ASSUME StateType, StateType', NEW b, NEW scr, Idle, RecalcAllWindows(b, scr)
    PROVE  Calm
  <1> DEFINE e == [Here EXCEPT !.bar = b, !.rcScreen = scr]
  <1>1. win' = [w \in Window |-> RecalcWindow(w, win[w], e)] /\ drag' = drag
    BY Zenon DEF RecalcAllWindows
  <1>2. e = Here'
    <2>1. bar' = b /\ rcScreen' = scr /\ origin' = origin
      BY Zenon DEF RecalcAllWindows
    <2>2. Here \in Env /\ b \in Bar /\ scr \in Rect /\ Here.origin = origin
      BY <2>1, HereType DEF StateType
    <2>3. e \in Env
      BY <2>2 DEF Env
    <2>4. e.origin = origin /\ e.bar = b /\ e.rcScreen = scr
      BY <2>2 DEF Env
    <2>5. Here' \in Env
      BY HereType DEF StateType, Here, Env
    <2>6. Here'.origin = origin /\ Here'.bar = b /\ Here'.rcScreen = scr
      BY <2>1 DEF Here
    <2> QED
      BY <2>3, <2>4, <2>5, <2>6 DEF Env
  <1> HIDE DEF e
  <1>3. Here \in Env /\ Here' \in Env
    BY HereType DEF StateType, Here, Env
  <1>4. \A w \in Window : win[w] \in QvwmType
    BY DEF StateType
  <1>5. AllGo
    BY <1>1, <1>2, <1>3, <1>4, RecalcGoes DEF AllGo
  <1> QED
    BY <1>1, <1>5 DEF Calm, Idle, NoDrag

\* Every handler of the taskbar but the two of auto-hide.
LEMMA RearrangeCalm ==
    ASSUME StateType, StateType', RearrangeAll
    PROVE  Calm
  <1>1. \E b, scr : Idle /\ RecalcAllWindows(b, scr)
    BY DEF RearrangeAll, ToggleTaskbar, MoveTaskbar, ResizeTaskbar
  <1> QED
    BY <1>1, RecalcCalm
-----------------------------------------------------------------------------
(* The loops of a drag *)

\* A resize draws the window at rest where origin has gone.
LEMMA ResizeToCalm ==
    ASSUME IInv, NEW d \in ResizeDrag, NEW pt \in Point, ResizeTo(d, pt), StateType'
    PROVE  Calm
  <1>0. StateType /\ Bounded /\ UNCHANGED <<bar, rcScreen>>
    BY DEF IInv, ResizeTo
  <1> DEFINE w == d.w
  <1>1. w \in Window
    BY DEF ResizeDrag
  <1>2. PICK delta \in HandlePaging(pt) :
           LET base == Minus(d.base, delta)
               rc == FixWindowShape(d.w, Shift(d.rc, Minus(Zero, delta)), d.pos, base,
                                    Minus(pt, delta), Around(win[d.w].flags))
               ws == After(delta, win)
           IN  /\ HandlePagingDone(delta)
               /\ drag' = [d EXCEPT !.rc = rc, !.base = base]
               /\ win' = IF ~Opaque THEN ws
                         ELSE [ws EXCEPT ![d.w] =
                                 Resized(d.w, @, Shift(rc, origin'),
                                         [Here EXCEPT !.origin = origin'])]
    BY Zenon DEF ResizeTo
  <1> DEFINE base == Minus(d.base, delta)
             rc == FixWindowShape(w, Shift(d.rc, Minus(Zero, delta)), d.pos, base,
                                  Minus(pt, delta), Around(win[w].flags))
             ws == After(delta, win)
             e == [Here EXCEPT !.origin = origin']
             y == Resized(w, ws[w], Shift(rc, origin'), e)
  <1>3. delta \in Point /\ Zero \in Point
    BY <1>0, HandlePagingType DEF Zero, Point
  <1>4. d.rc \in Rect /\ d.base \in Point /\ d.pos \in [Axis -> {-1, 0, 1}]
    BY DEF ResizeDrag
  <1>5. win[w].flags \in SUBSET Flag
    BY <1>0, <1>1 DEF StateType, QvwmType
  <1>6. base \in Point
    BY <1>3, <1>4, PointType
  <1>7. rc \in Rect
    <2>1. Shift(d.rc, Minus(Zero, delta)) \in Rect
      BY <1>3, <1>4, PointType, ShiftType
    <2>2. Minus(pt, delta) \in Point /\ Around(win[w].flags) \in Point
      BY <1>3, <1>5, PointType, AroundType
    <2> HIDE DEF base
    <2> QED
      BY <1>1, <1>4, <1>6, <2>1, <2>2, ShapeType
  <1>8. drag' = [d EXCEPT !.rc = rc, !.base = base] /\ HandlePagingDone(delta)
    BY <1>2
  <1>9. win' = IF ~Opaque THEN ws ELSE [ws EXCEPT ![w] = y]
    BY <1>2
  <1> HIDE DEF rc, base
  <1>10. /\ origin' \in Point /\ ws \in [Window -> QvwmType]
         /\ \A v \in Window : Goes(v, win[v], ws[v], Here, Here')
    BY <1>0, <1>3, <1>8, AfterGoes
  <1>11. e = Here' /\ e \in Env
    BY <1>0, <1>10, HereNext DEF Turned
  <1> HIDE DEF ws, e
  <1>12. Goes(w, ws[w], y, Here', Here')
    <2>1. Shift(rc, origin') \in Rect
      BY <1>7, <1>10, ShiftType
    <2>2. SameLook(ws[w], y) /\ Fits(y) /\ Rests(w, y, e)
      BY <1>1, <1>10, <1>11, <2>1, ResizedRests
    <2> HIDE DEF y
    <2> QED
      BY <1>11, <2>2, GoesToRest
  <1> HIDE DEF y
  <1>13. \A v \in Window : Goes(v, win[v], win'[v], Here, Here')
    <2>1. Goes(w, win[w], y, Here, Here')
      BY <1>1, <1>10, <1>12, GoesOn
    <2>2. CASE Opaque
      BY <1>1, <1>9, <1>10, <2>1, <2>2
    <2>3. CASE ~Opaque
      BY <1>9, <1>10, <2>3
    <2> QED
      BY <2>2, <2>3
  <1>14. drag'.kind # "move"
    BY <1>8 DEF ResizeDrag
  <1> QED
    BY <1>13, <1>14 DEF Calm, AllGo

\* A move leaves rc alone.
LEMMA MoveMotionGoes ==
    ASSUME PlaceInv, NEW pt \in Pointers, MoveMotion(pt), StateType'
    PROVE  AllGo /\ DragSized'
  <1>0. IInv /\ StateType /\ Bounded /\ drag.kind = "move" /\ pt \in Point
        /\ UNCHANGED <<bar, rcScreen>>
    BY PagingType DEF PlaceInv, IInv, MoveMotion
  <1>1. drag \in MoveDrag /\ drag.w \in Window
    BY <1>0, DragKinds
  <1> DEFINE w == drag.w
  <1>2. PICK delta \in HandlePaging(pt) :
           LET at == Minus(pt, delta)
               rc == Shift(drag.rc, Minus(at, drag.pt))
               shown == FixToScreen(rc, rcScreen)
               ws == After(delta, win)
           IN  /\ HandlePagingDone(delta)
               /\ drag' = [drag EXCEPT !.rc = rc, !.shown = shown, !.pt = at]
               /\ win' = IF ~Opaque THEN ws
                         ELSE [ws EXCEPT ![drag.w] = Dragged(@, shown, origin')]
    BY Zenon DEF MoveMotion
  <1> DEFINE at == Minus(pt, delta)
             rc == Shift(drag.rc, Minus(at, drag.pt))
             shown == FixToScreen(rc, rcScreen)
             ws == After(delta, win)
             y == Dragged(ws[w], shown, origin')
  <1>3. delta \in Point
    BY <1>0, HandlePagingType
  <1>4. drag.rc \in Rect /\ drag.pt \in Point /\ rcScreen \in Rect
    BY <1>0, <1>1 DEF MoveDrag, StateType
  <1>5. at \in Point /\ rc \in Rect
    <2>1. at \in Point
      BY <1>0, <1>3, PointType
    <2>2. Minus(at, drag.pt) \in Point
      BY <1>4, <2>1, PointType
    <2> QED
      BY <1>4, <2>1, <2>2, ShiftType
  <1>6. \A a \in Axis : rc[a].len = drag.rc[a].len
    BY <1>4 DEF Shift, Rect, Span
  <1>7. drag' = [drag EXCEPT !.rc = rc, !.shown = shown, !.pt = at] /\ HandlePagingDone(delta)
    BY <1>2
  <1>8. win' = IF ~Opaque THEN ws ELSE [ws EXCEPT ![w] = y]
    BY <1>2, Zenon
  <1> HIDE DEF rc, at
  <1>9. shown \in Rect /\ \A a \in Axis : shown[a].len = rc[a].len
    BY <1>4, <1>5, ToScreenType, ToScreenLen
  <1> HIDE DEF shown
  <1>10. /\ origin' \in Point /\ ws \in [Window -> QvwmType]
         /\ \A v \in Window : /\ Goes(v, win[v], ws[v], Here, Here')
                              /\ \A a \in Axis : ws[v].rc[a].len = win[v].rc[a].len
    BY <1>0, <1>3, <1>7, AfterGoes
  <1> HIDE DEF ws
  <1>11. Alike(ws[w], y)
    BY <1>1, <1>9, <1>10, DraggedAlike
  <1> HIDE DEF y
  <1>12. Goes(w, win[w], y, Here, Here')
    BY <1>1, <1>10, <1>11, AlikeGoes, GoesOn
  <1>13. /\ \A v \in Window : Goes(v, win[v], win'[v], Here, Here')
         /\ \A a \in Axis : win'[w].rc[a].len = win[w].rc[a].len
    <2>1. CASE Opaque
      <3>1. win'[w] = y /\ \A v \in Window \ {w} : win'[v] = ws[v]
        BY <1>1, <1>8, <1>10, <2>1
      <3> QED
        BY <1>1, <1>10, <1>11, <1>12, <3>1 DEF Alike
    <2>2. CASE ~Opaque
      BY <1>1, <1>8, <1>10, <2>2
    <2> QED
      BY <2>1, <2>2
  <1>14. drag'.w = w /\ drag'.rc = rc /\ drag'.shown = shown
    BY <1>1, <1>7 DEF MoveDrag
  <1>15. \A a \in Axis : drag.rc[a].len = win[w].rc[a].len
    BY <1>0 DEF PlaceInv, DragSized
  <1>16. DragSized'
    BY <1>6, <1>9, <1>13, <1>14, <1>15 DEF DragSized
  <1> QED
    BY <1>13, <1>16 DEF AllGo

\* And ends with the window at rest where it has been dragged.
LEMMA MoveDecideCalm ==
    ASSUME PlaceInv, MoveDecide
    PROVE  Calm
  <1>0. IInv /\ StateType /\ drag.kind = "move"
    BY DEF PlaceInv, IInv, MoveDecide
  <1>1. drag \in MoveDrag /\ drag.w \in Window
    BY <1>0, DragKinds
  <1> DEFINE w == drag.w
             rect == Shift(drag.shown, origin)
             x == ConfigureNewRect(w, win[w], rect, Here)
             z == Dragged(x, drag.shown, origin)
  <1>2. drag.shown \in Rect /\ origin \in Point /\ win[w] \in QvwmType /\ Here \in Env
    BY <1>0, <1>1, HereType DEF MoveDrag, StateType
  <1>3. rect \in Rect
    BY <1>2, ShiftType
  <1>4. \A a \in Axis : rect[a].len = drag.shown[a].len
    BY <1>2 DEF Shift, Rect, Span
  <1>5. win' = [win EXCEPT ![w] = z] /\ drag' = NoDrag /\ UNCHANGED <<origin, bar, rcScreen>>
    BY Zenon DEF MoveDecide
  <1> HIDE DEF rect
  <1>6. /\ x \in QvwmType /\ x.rc = rect /\ x.frame = win[w].frame
        /\ SameLook(win[w], x) /\ Rests(w, x, Here)
    BY <1>1, <1>2, <1>3, ConfigureNewRectRests
  <1> HIDE DEF x
  <1>7. Fits(x)
    <2>1. \A a \in Axis : drag.shown[a].len = win[w].rc[a].len
      BY <1>0 DEF PlaceInv, DragSized
    <2>2. Fits(win[w])
      BY <1>1 DEF PlaceInv, AllSized, Sized
    <2> QED
      BY <1>4, <1>6, <2>1, <2>2 DEF Fits
  <1>8. Goes(w, win[w], x, Here, Here)
    BY <1>6, <1>7, GoesToRest
  <1>9. Goes(w, x, z, Here, Here)
    BY <1>2, <1>6, DraggedAlike, AlikeGoes
  <1> HIDE DEF z
  <1>10. AllGo
    BY <1>0, <1>1, <1>5, <1>8, <1>9, GoesOn, OneGoes
  <1> QED
    BY <1>5, <1>10 DEF Calm, NoDrag

\* A motion or a key that resizes the window.
LEMMA ResizeMotionCalm ==
    ASSUME IInv, NEW pt \in Pointers, StateType',
           ResizeMotion(pt) \/ \E key \in Keys : ResizeKey(key, pt)
    PROVE  Calm
  <1>1. CASE ResizeMotion(pt)
    <2>1. StateType /\ drag.kind = "resize" /\ ResizeTo(drag, pt) /\ pt \in Point
      BY <1>1, PagingType DEF IInv, ResizeMotion
    <2>2. drag \in ResizeDrag
      BY <2>1, DragKinds
    <2> QED
      BY <2>1, <2>2, ResizeToCalm
  <1>2. ASSUME NEW key \in Keys, ResizeKey(key, pt) PROVE Calm
    <2>1. PICK d \in ResizeDrag, to \in Point : ResizeTo(d, to)
      BY <1>2, ResizeKeyIsMotion
    <2> QED
      BY <2>1, ResizeToCalm
  <1> QED
    BY <1>1, <1>2

\* One window is changed and the loop ends, or goes on with a miniature.
LEMMA EndCalm ==
    ASSUME StateType, NEW w \in Window, NEW x, win' = [win EXCEPT ![w] = x],
           UNCHANGED <<origin, bar, rcScreen>>, drag'.kind # "move", Goes(w, win[w], x, Here, Here)
    PROVE  Calm
    BY OneGoes DEF Calm

\* The button is released after a resize.
LEMMA ResizeDecideCalm ==
    ASSUME IInv, ResizeDecide
    PROVE  Calm
  <1>0. StateType /\ drag.kind = "resize" /\ UNCHANGED <<origin, bar, rcScreen>>
        /\ drag' = NoDrag
    BY DEF IInv, ResizeDecide
  <1>1. drag \in ResizeDrag /\ drag.w \in Window /\ drag'.kind # "move"
    BY <1>0, DragKinds DEF NoDrag
  <1> DEFINE w == drag.w  y == Resized(w, win[w], Shift(drag.rc, origin), Here)
  <1>2. win[w] \in QvwmType /\ win \in [Window -> QvwmType] /\ Here \in Env
    BY <1>0, <1>1, HereType DEF StateType
  <1>3. SameLook(win[w], y) /\ Fits(y) /\ Rests(w, y, Here)
    <2>1. Shift(drag.rc, origin) \in Rect
      BY <1>0, <1>1, ShiftType DEF ResizeDrag, StateType
    <2> QED
      BY <1>1, <1>2, <2>1, ResizedRests
  <1>4. win' = IF Opaque THEN win ELSE [win EXCEPT ![w] = y]
    BY Zenon DEF ResizeDecide
  <1> HIDE DEF y
  <1>5. CASE Opaque
    <2>1. win' = [win EXCEPT ![w] = win[w]]
      BY <1>2, <1>4, <1>5
    <2> QED
      BY <1>0, <1>1, <2>1, StaysThere, EndCalm
  <1>6. CASE ~Opaque
    <2>1. Goes(w, win[w], y, Here, Here)
      BY <1>3, GoesToRest
    <2> QED
      BY <1>0, <1>1, <1>4, <1>6, <2>1, EndCalm
  <1> QED
    BY <1>5, <1>6

\* A motion of a miniature.
LEMMA MiniatureMotionCalm ==
    ASSUME IInv, NEW move \in PagerMoves, MiniatureMotion(move)
    PROVE  Calm
  <1>0. StateType /\ drag.kind = "mini" /\ UNCHANGED <<origin, bar, rcScreen>>
    BY DEF IInv, MiniatureMotion
  <1>1. drag \in MiniDrag /\ drag.w \in Window
    BY <1>0, DragKinds
  <1>2. drag'.kind # "move"
    BY <1>1 DEF MiniatureMotion, MiniDrag
  <1> DEFINE w == drag.w
             mi == Shift(win[w].mini, move)
             x == [win[w] EXCEPT !.mini = mi]
             y == PlaceFromPager(w, x, Corner(x.mini))
  <1>3. win[w] \in QvwmType
    BY <1>0, <1>1 DEF StateType
  <1>4. mi \in Rect
    BY <1>3, ShiftType, PagingType DEF QvwmType
  <1>5. win' = [win EXCEPT ![w] = IF Opaque THEN y ELSE x]
    BY Zenon DEF MiniatureMotion
  <1> HIDE DEF mi
  <1>6. x \in QvwmType /\ Alike(win[w], x)
    BY <1>3, <1>4 DEF QvwmType, Alike, SameLook
  <1> HIDE DEF x
  <1>7. Goes(w, x, y, Here, Here)
    <2>1. Corner(x.mini) \in Point
      BY <1>6, CornerType DEF QvwmType
    <2> QED
      BY <1>0, <1>1, <1>6, <2>1, PlaceFromPagerGoes
  <1> HIDE DEF y
  <1>8. Goes(w, win[w], x, Here, Here) /\ Goes(w, win[w], y, Here, Here)
    BY <1>6, <1>7, AlikeGoes, GoesOn
  <1> QED
    BY <1>0, <1>1, <1>2, <1>5, <1>8, EndCalm

\* And its end.
LEMMA MiniatureDecideCalm ==
    ASSUME IInv, MiniatureDecide
    PROVE  Calm
  <1>0. /\ StateType /\ drag.kind = "mini" /\ UNCHANGED <<origin, bar, rcScreen>>
        /\ drag' = NoDrag
    BY DEF IInv, MiniatureDecide
  <1>1. drag \in MiniDrag /\ drag.w \in Window /\ drag'.kind # "move"
    BY <1>0, DragKinds DEF NoDrag
  <1> DEFINE w == drag.w
  <1>2. win[w] \in QvwmType /\ win \in [Window -> QvwmType]
    BY <1>0, <1>1 DEF StateType
  <1>3. CASE Opaque
    <2>1. win' = [win EXCEPT ![w] = win[w]]
      BY <1>2, <1>3 DEF MiniatureDecide
    <2> QED
      BY <1>0, <1>1, <2>1, StaysThere, EndCalm
  <1>4. CASE ~Opaque
    <2>1. PICK pt \in (IF drag.moved THEN {Corner(win[w].mini)} ELSE Junk) :
             win' = [win EXCEPT ![w] = PlaceFromPager(w, win[w], pt)]
      BY <1>4, Zenon DEF MiniatureDecide
    <2>2. pt \in Point
      BY <1>2, CornerType, PagingType DEF QvwmType
    <2> QED
      BY <1>0, <1>1, <1>2, <2>1, <2>2, PlaceFromPagerGoes, EndCalm
  <1> QED
    BY <1>3, <1>4

\* The page is turned and nothing else happens.
LEMMA PageCalm ==
    ASSUME StateType, StateType',
           \/ \E a \in Axis, step \in {-1, 1} : SwitchPage(a, step)
           \/ \E pt \in Pointers : EnterBelt(pt)
           \/ \E cell \in Cells : TurnToPage(cell)
           \/ \E move \in PagerMoves : PagerButton3Motion(move)
    PROVE  Calm
  <1>1. ASSUME NEW a \in Axis, NEW step \in {-1, 1}, SwitchPage(a, step) PROVE Calm
    BY <1>1, PagingCalm DEF SwitchPage
  <1>2. ASSUME NEW pt \in Pointers, EnterBelt(pt) PROVE Calm
    BY <1>2, PagingCalm DEF EnterBelt
  <1>3. ASSUME NEW cell \in Cells, TurnToPage(cell) PROVE Calm
    BY <1>3, PagingCalm DEF TurnToPage
  <1>4. ASSUME NEW move \in PagerMoves, PagerButton3Motion(move) PROVE Calm
    BY <1>4, PagingCalm DEF PagerButton3Motion
  <1> QED
    BY <1>1, <1>2, <1>3, <1>4

\* A loop begins: the frame is as long as rc.
LEMMA DragBegins ==
    ASSUME PlaceInv, NEW w \in Window,
           (\E pt \in Pointers : MoveWindow(w, pt)) \/ (\E pos \in Grips : ResizeWindow(w, pos))
    PROVE  AllGo /\ DragSized'
  <1>1. win' = win /\ UNCHANGED <<origin, bar, rcScreen>>
    BY DEF MoveWindow, ResizeWindow
  <1>2. AllGo
    <2>1. Here' = Here
      BY <1>1 DEF Here
    <2> QED
      BY <1>1, <2>1, StaysThere DEF AllGo
  <1>3. \A a \in Axis : win[w].frame[a].len = win[w].rc[a].len
    BY DEF PlaceInv, AllSized, Sized, Fits
  <1>4. ASSUME NEW pt \in Pointers, MoveWindow(w, pt) PROVE DragSized'
    <2>1. drag'.w = w /\ drag'.rc = win[w].frame /\ drag'.shown = win[w].frame
      BY <1>4 DEF MoveWindow
    <2> QED
      BY <1>1, <1>3, <2>1 DEF DragSized
  <1>5. ASSUME NEW pos \in Grips, ResizeWindow(w, pos) PROVE DragSized'
    <2>1. drag'.kind = "resize"
      BY <1>5 DEF ResizeWindow
    <2> QED
      BY <2>1 DEF DragSized
  <1> QED
    BY <1>2, <1>4, <1>5
-----------------------------------------------------------------------------
(* Configure *)

\* A bare frame takes nothing, and no gravity displaces it.
LEMMA BareFrame ==
    ASSUME Bare, NEW w \in Configurable, NEW e \in Env, NEW a \in Axis
    PROVE  LET f == InitFlags[w]
           IN  /\ Before(f)[a] = 0
               /\ Displacement(w, f, e)[a] =
                     e.rcScreen[a].at + (IF "STICKY" \in f THEN e.origin[a] ELSE 0)
  <1> DEFINE f == InitFlags[w]
  <1>1. f \subseteq {"STICKY"} /\ Gravity[w] = Zero /\ w \in Window
    BY PagingType DEF Bare
  <1>2. "BORDER" \notin f /\ "BORDER_EDGE" \notin f /\ "TITLE" \notin f
    BY <1>1
  <1> HIDE DEF f
  <1>3. BorderWidth(f) = 0 /\ TitleEdge(f) = 0
    BY <1>2 DEF BorderWidth, TitleEdge
  <1>4. Before(f)["x"] = 0 /\ Before(f)["y"] = 0
    BY <1>2, <1>3 DEF Before
  <1>5. Gravity[w][a] = 0 /\ Gravity[w]["x"] = 0 /\ Gravity[w]["y"] = 0
    BY <1>1 DEF Zero, Axis
  <1>6. GravityShift(w, f)[a] = 0
    <2>1. GravityShift(w, f)["x"] = 0
      BY <1>1, <1>3, <1>5, GeometryType DEF GravityShift
    <2>2. GravityShift(w, f)["y"] = 0
      BY <1>5 DEF GravityShift, CENTER, SOUTH
    <2> QED
      BY <2>1, <2>2 DEF Axis
  <1>7. Displacement(w, f, e)[a] =
           e.rcScreen[a].at + GravityShift(w, f)[a] + (IF "STICKY" \in f THEN e.origin[a] ELSE 0)
             - (IF a = AxisOf(e.bar.pos) /\ Gravity[w][a] = EAST THEN Thick(e.bar) ELSE 0)
    BY DEF Displacement
  <1>8. e.rcScreen[a].at \in Int /\ e.origin[a] \in Int
    BY DEF Env, Rect, Span, Point
  <1>9. Gravity[w][a] # EAST
    BY <1>5 DEF EAST
  <1>10. Displacement(w, f, e)[a] =
           e.rcScreen[a].at + 0 + (IF "STICKY" \in f THEN e.origin[a] ELSE 0) - 0
    BY <1>6, <1>7, <1>9
  <1> QED
    BY <1>4, <1>8, <1>10 DEF f, Axis

\* A client configures a window that is neither minimized nor maximized: the sizes of
\* rc and rcOrig go together, and a bare window is put to rest.
LEMMA ConfigureGoes ==
    ASSUME PlaceInv, Apart, NEW w \in Configurable, NEW req \in Requests, Configure(w, req)
    PROVE  /\ \A v \in Window : Sized(win'[v]) /\ SameLook(win[v], win'[v])
           /\ drag'.kind # "move"
           /\ Bare => AllGo
  <1> DEFINE x == win[w]
             Asks(a, field) == <<a, field>> \in req.mask
             orig == [a \in Axis |->
                      [at  |-> IF Asks(a, "at")
                               THEN req.at[a] - rcScreen[a].at
                                    + (IF "STICKY" \in x.flags THEN 0 ELSE origin[a])
                               ELSE x.rcOrig[a].at,
                       len |-> IF Asks(a, "len") THEN req.len[a] ELSE x.rcOrig[a].len]]
             rect == [a \in Axis |->
                      [at  |-> IF Asks(a, "at") THEN req.at[a] + origin[a] - Before(x.flags)[a]
                               ELSE x.rc[a].at,
                       len |-> IF Asks(a, "len") THEN req.len[a] + Around(x.flags)[a]
                               ELSE x.rc[a].len]]
             unmax == x.status = {"MAXIMIZE"}
             y == [x EXCEPT !.rcOrig = orig, !.rc = rect,
                            !.status = IF unmax THEN {} ELSE @,
                            !.flags = IF unmax THEN x.flagsBak ELSE @]
             z == RedrawWindow(y, Here)
  <1>0. StateType /\ Idle /\ w \in Window /\ w \notin Handled
    BY PagingType DEF PlaceInv, IInv, Configure, Apart
  <1>1. /\ x \in QvwmType /\ origin \in Point /\ rcScreen \in Rect /\ Here \in Env
        /\ Here.origin = origin /\ Here.rcScreen = rcScreen
    BY <1>0, HereType DEF StateType, Here
  <1>2. x.flags = InitFlags[w] /\ x.status = {} /\ Sized(x)
    BY <1>0 DEF PlaceInv, Untouched, AllSized
  <1>3. req.at \in Point /\ req.len \in Point
    BY PagingType DEF Dim, Point
  <1>4. Around(x.flags) \in Point /\ Before(x.flags) \in Point
    BY <1>1, AroundType DEF QvwmType
  <1>5. ASSUME NEW a \in Axis
        PROVE  /\ req.at[a] \in Int /\ req.len[a] \in Int /\ Around(x.flags)[a] \in Int
               /\ Before(x.flags)[a] \in Int /\ origin[a] \in Int /\ rcScreen[a].at \in Int
               /\ x.rc[a].at \in Int /\ x.rc[a].len \in Int
               /\ x.rcOrig[a].at \in Int /\ x.rcOrig[a].len \in Int
    BY <1>1, <1>3, <1>4 DEF Point, Rect, Span, QvwmType
  <1>6. orig \in Rect /\ rect \in Rect
    BY <1>5 DEF Rect, Span
  <1>7. win' = [win EXCEPT ![w] = z] /\ UNCHANGED <<origin, bar, rcScreen, drag>>
    BY Zenon DEF Configure
  <1>8. ASSUME NEW a \in Axis
        PROVE  /\ orig[a].at = IF Asks(a, "at")
                               THEN req.at[a] - rcScreen[a].at
                                    + (IF "STICKY" \in x.flags THEN 0 ELSE origin[a])
                               ELSE x.rcOrig[a].at
               /\ orig[a].len = IF Asks(a, "len") THEN req.len[a] ELSE x.rcOrig[a].len
               /\ rect[a].at = IF Asks(a, "at")
                               THEN req.at[a] + origin[a] - Before(x.flags)[a] ELSE x.rc[a].at
               /\ rect[a].len = IF Asks(a, "len") THEN req.len[a] + Around(x.flags)[a]
                                ELSE x.rc[a].len
    OBVIOUS
  <1> HIDE DEF orig, rect
  <1>9. y \in QvwmType /\ y.rc = rect /\ y.rcOrig = orig
    BY <1>1, <1>6 DEF QvwmType, Status
  <1>10. y.flags = x.flags /\ y.status = x.status
    BY <1>1, <1>2 DEF QvwmType
  <1> HIDE DEF y
  <1>11. z \in QvwmType /\ Fits(z) /\ z.rc = rect /\ z.rcOrig = orig /\ SameLook(x, z)
    BY <1>1, <1>9, <1>10, RedrawFits DEF SameLook
  <1> HIDE DEF z
  <1>12. \A a \in Axis : Long(x, a) = 0 /\ Long(z, a) = 0
    <2> SUFFICES ASSUME NEW a \in Axis PROVE Long(x, a) = 0 /\ Long(z, a) = 0
      OBVIOUS
    <2>1. Long(x, a) = 0 /\ z.flags = x.flags
      BY <1>2, <1>11 DEF Sized, SameLook
    <2>2. CASE Asks(a, "len")
      <3>1. rect[a].len = req.len[a] + Around(x.flags)[a] /\ orig[a].len = req.len[a]
        BY <1>8, <2>2
      <3>2. req.len[a] \in Int /\ Around(x.flags)[a] \in Int
        BY <1>5
      <3>3. Long(z, a) = rect[a].len - (orig[a].len + Around(x.flags)[a])
        BY <1>11, <2>1 DEF Long
      <3> QED
        BY <2>1, <3>1, <3>2, <3>3
    <2>3. CASE ~Asks(a, "len")
      BY <1>5, <1>8, <1>11, <2>1, <2>3 DEF Long
    <2> QED
      BY <2>1, <2>2, <2>3
  <1>13. Sized(z)
    BY <1>11, <1>12 DEF Sized
  <1>14. \A v \in Window : Sized(win'[v]) /\ SameLook(win[v], win'[v])
    <2>1. win'[w] = z /\ \A v \in Window \ {w} : win'[v] = win[v]
      BY <1>0, <1>7 DEF StateType
    <2> QED
      BY <1>11, <1>13, <2>1 DEF PlaceInv, AllSized, SameLook
  <1>15. ASSUME Bare PROVE AllGo
    <2>1. ASSUME NEW a \in Axis
          PROVE  Off(w, z, Here, a) = Off(w, x, Here, a) \/ Off(w, z, Here, a) = 0
      <3>1. CASE Asks(a, "at")
        <4>1. /\ Before(x.flags)[a] = 0
              /\ Displacement(w, x.flags, Here)[a] =
                    rcScreen[a].at + (IF "STICKY" \in x.flags THEN origin[a] ELSE 0)
          BY <1>1, <1>2, <1>15, BareFrame
        <4>2. Off(w, z, Here, a) = rect[a].at - (orig[a].at + Displacement(w, x.flags, Here)[a])
          BY <1>11 DEF Off, SameLook
        <4>3. /\ rect[a].at = req.at[a] + origin[a] - Before(x.flags)[a]
              /\ orig[a].at = req.at[a] - rcScreen[a].at
                              + (IF "STICKY" \in x.flags THEN 0 ELSE origin[a])
          BY <1>8, <3>1
        <4>4. req.at[a] \in Int /\ origin[a] \in Int /\ rcScreen[a].at \in Int
          BY <1>5
        <4>5. CASE "STICKY" \in x.flags
          BY <4>1, <4>2, <4>3, <4>4, <4>5
        <4>6. CASE "STICKY" \notin x.flags
          BY <4>1, <4>2, <4>3, <4>4, <4>6
        <4> QED
          BY <4>5, <4>6
      <3>2. CASE ~Asks(a, "at")
        <4>1. rect[a].at = x.rc[a].at /\ orig[a].at = x.rcOrig[a].at
          BY <1>8, <3>2
        <4> QED
          BY <1>11, <4>1 DEF Off, SameLook
      <3> QED
        BY <3>1, <3>2
    <2>2. Goes(w, x, z, Here, Here)
      BY <1>11, <1>12, <1>13, <2>1 DEF Goes
    <2> QED
      BY <1>0, <1>7, <2>2, OneGoes
  <1> QED
    BY <1>0, <1>7, <1>14, <1>15 DEF Idle, NoDrag
-----------------------------------------------------------------------------
(* The theorems *)

\* Calm is what the loop of a move need not fear.
LEMMA CalmGoes ==
    ASSUME Calm
    PROVE  AllGo /\ DragSized'
    BY DEF Calm, DragSized

\* In the beginning every window is at rest.
LEMMA InitPlace ==
    Init => PlaceInv
  <1> SUFFICES ASSUME Init PROVE PlaceInv
    OBVIOUS
  <1>1. IInv /\ StateType
    BY InitInv DEF IInv
  <1>2. ASSUME NEW w \in Window
        PROVE  Sized(win[w]) /\ win[w].flags = InitFlags[w] /\ win[w].status = {}
    <2> DEFINE e == [origin |-> Zero, bar |-> bar, rcScreen |-> rcScreen]
               rc == CalcWindowPos(w, Asked[w], InitFlags[w], e)
    <2>0. e = Here
      BY DEF Init, Here
    <2>1. win[w] \in QvwmType /\ e \in Env
      BY <1>1, <2>0, HereType DEF StateType
    <2> HIDE DEF e
    <2>2. win[w] = [rc |-> rc, rcOrig |-> Asked[w], rcOrigBak |-> Asked[w],
                    flags |-> InitFlags[w], flagsBak |-> InitFlags[w], status |-> {},
                    frame |-> Shown(rc, Zero), mini |-> ConvertToPagerSize(rc)]
      BY Zenon DEF Init, NewQvwm, e
    <2>3. /\ win[w].rc = rc /\ win[w].rcOrig = Asked[w] /\ win[w].flags = InitFlags[w]
          /\ win[w].status = {} /\ win[w].frame = Shown(rc, Zero)
      BY <2>2
    <2>4. Rests(w, win[w], e)
      BY <2>1, <2>3, CalcRests
    <2>5. rc \in Rect
      BY <2>1, <2>3 DEF QvwmType
    <2> HIDE DEF rc
    <2>6. Fits(win[w])
      BY <2>3, <2>5 DEF Fits, Shown, Rect, Span
    <2> QED
      BY <2>3, <2>4, <2>6 DEF Sized, Rests
  <1>3. DragSized
    BY DEF Init, NoDrag, DragSized
  <1> QED
    BY <1>1, <1>2, <1>3 DEF PlaceInv, AllSized, Untouched

\* What each step leaves of the gaps: the client of a window that the user does not
\* handle may open one, and rcScreen changes by itself in ToggleAutoHide.
LEMMA StepGoes ==
    ASSUME PlaceInv, Apart, Next
    PROVE  \/ AllGo /\ DragSized'
           \/ win' = win /\ drag' = drag /\ bar' # bar
           \/ /\ \A w \in Window : Sized(win'[w]) /\ SameLook(win[w], win'[w])
              /\ DragSized' /\ (Bare => AllGo)
  <1>0. IInv /\ StateType /\ StateType'
    BY NextStep DEF PlaceInv, IInv
  <1>1. ASSUME \/ \E a \in Axis, step \in {-1, 1} : SwitchPage(a, step)
               \/ \E pt \in Pointers : EnterBelt(pt)
               \/ \E cell \in Cells : TurnToPage(cell)
               \/ \E move \in PagerMoves : PagerButton3Motion(move)
        PROVE  AllGo /\ DragSized'
    BY <1>0, <1>1, PageCalm, CalmGoes
  <1>2. ASSUME NEW pt \in Pointers, MoveMotion(pt) PROVE AllGo /\ DragSized'
    BY <1>0, <1>2, MoveMotionGoes
  <1>3. ASSUME NEW pt \in Pointers, ResizeMotion(pt) \/ \E key \in Keys : ResizeKey(key, pt)
        PROVE  AllGo /\ DragSized'
    BY <1>0, <1>3, ResizeMotionCalm, CalmGoes
  <1>4. ASSUME NEW move \in PagerMoves, MiniatureMotion(move) PROVE AllGo /\ DragSized'
    BY <1>0, <1>4, MiniatureMotionCalm, CalmGoes
  <1>5. ASSUME NEW w \in Handled,
               \/ AdjustPage(w) \/ MaximizeWindow(w) \/ MinimizeWindow(w) \/ RestoreWindow(w)
               \/ ToggleSticky(w) \/ MiniatureButton2Press(w)
               \/ \E f \in {"BORDER", "BORDER_EDGE", "TITLE"} : ToggleFrame(w, f)
        PROVE  AllGo /\ DragSized'
    BY <1>0, <1>5, HandledCalm, CalmGoes
  <1>6. ASSUME NEW w \in Handled,
               \/ \E pt \in Pointers : MoveWindow(w, pt)
               \/ \E pos \in Grips : ResizeWindow(w, pos)
        PROVE  AllGo /\ DragSized'
    <2>1. w \in Window
      BY PagingType
    <2> QED
      BY <1>6, <2>1, DragBegins
  <1>7. ASSUME NEW w \in Configurable, NEW req \in Requests, Configure(w, req)
        PROVE  /\ \A v \in Window : Sized(win'[v]) /\ SameLook(win[v], win'[v])
               /\ DragSized' /\ (Bare => AllGo)
    BY <1>7, ConfigureGoes DEF DragSized
  <1>8. CASE RearrangeAll
    BY <1>0, <1>8, RearrangeCalm, CalmGoes
  <1>9. CASE ToggleAutoHide
    <2>1. bar' = [bar EXCEPT !.autoHide = ~@] /\ bar \in Bar
      BY <1>0, <1>9 DEF ToggleAutoHide, StateType
    <2>2. bar'.autoHide # bar.autoHide
      BY <2>1 DEF Bar
    <2> QED
      BY <1>9, <2>2 DEF ToggleAutoHide
  <1>10. CASE MoveDecide
    BY <1>10, MoveDecideCalm, CalmGoes
  <1>11. CASE ResizeDecide
    BY <1>0, <1>11, ResizeDecideCalm, CalmGoes
  <1>12. CASE MiniatureDecide
    BY <1>0, <1>12, MiniatureDecideCalm, CalmGoes
  <1> QED
    BY <1>1, <1>2, <1>3, <1>4, <1>5, <1>6, <1>7, <1>8, <1>9, <1>10, <1>11, <1>12, Zenon DEF Next

\* Every step keeps rc, rcOrig and the frame as long as each other.
LEMMA PlaceStep ==
    ASSUME PlaceInv, Apart, Next
    PROVE  PlaceInv'
  <1>1. IInv'
    BY NextStep DEF PlaceInv
  <1>2. AllSized /\ DragSized /\ Untouched
    BY DEF PlaceInv
  <1>3. CASE AllGo /\ DragSized'
    BY <1>1, <1>2, <1>3 DEF PlaceInv, AllSized, Untouched, AllGo, Goes, SameLook
  <1>4. CASE win' = win /\ drag' = drag
    BY <1>1, <1>2, <1>4 DEF PlaceInv, AllSized, Untouched, DragSized
  <1>5. CASE (\A w \in Window : Sized(win'[w]) /\ SameLook(win[w], win'[w])) /\ DragSized'
    BY <1>1, <1>2, <1>5 DEF PlaceInv, AllSized, Untouched, SameLook
  <1> QED
    BY <1>3, <1>4, <1>5, StepGoes

\* Nothing happens.
LEMMA PlaceStutter ==
    ASSUME PlaceInv, UNCHANGED vars
    PROVE  PlaceInv'
  <1>1. UNCHANGED <<origin, bar, rcScreen, win, drag>>
    BY DEF vars
  <1>2. IInv'
    BY <1>1 DEF PlaceInv, IInv, StateType, Bounded, AllPlaced, Held
  <1> QED
    BY <1>1, <1>2 DEF PlaceInv, AllSized, DragSized, Untouched

\* A frame of the right size in the right place is where rc less origin says.
LEMMA FrameOf ==
    ASSUME PlaceInv
    PROVE  FrameAgrees
  <1> SUFFICES ASSUME NEW w \in Window \ Held PROVE win[w].frame = Shown(win[w].rc, origin)
    BY DEF FrameAgrees
  <1>1. /\ win[w] \in QvwmType /\ origin \in Point
        /\ Corner(win[w].frame) = Minus(Corner(win[w].rc), origin) /\ Fits(win[w])
    BY DEF PlaceInv, IInv, StateType, AllPlaced, Placed, AllSized, Sized
  <1>2. win[w].frame \in Rect /\ Shown(win[w].rc, origin) \in Rect
    BY <1>1, ShownType DEF QvwmType
  <1>3. Corner(Shown(win[w].rc, origin)) = Corner(win[w].frame)
    BY <1>1, ShownType DEF QvwmType
  <1>4. ASSUME NEW a \in Axis
        PROVE  /\ Shown(win[w].rc, origin)[a].at = win[w].frame[a].at
               /\ Shown(win[w].rc, origin)[a].len = win[w].frame[a].len
    <2>1. Shown(win[w].rc, origin)[a].at = win[w].frame[a].at
      BY <1>3 DEF Corner
    <2>2. Shown(win[w].rc, origin)[a].len = win[w].rc[a].len
      BY <1>1 DEF Shown, QvwmType, Rect, Span
    <2> QED
      BY <1>1, <2>1, <2>2 DEF Fits
  <1> QED
    BY <1>2, <1>4, SMTT(40) DEF Rect, Span

\* The server has every frame where its Qvwm believes it to be, in place and in size.
THEOREM FrameAgreesCorrect ==
    ASSUME Apart
    PROVE  Spec => []FrameAgrees
  <1>1. Init => PlaceInv
    BY InitPlace
  <1>2. PlaceInv /\ [Next]_vars => PlaceInv'
    BY PlaceStep, PlaceStutter
  <1>3. PlaceInv => FrameAgrees
    BY FrameOf
  <1> QED
    BY <1>1, <1>2, <1>3, PTL DEF Spec

\* Gap is what Off and Long say, before a step and after it.
LEMMA GapIs ==
    ASSUME NEW w \in Window, NEW a \in Axis
    PROVE  /\ Gap(w)[a] = <<Off(w, win[w], Here, a), Long(win[w], a)>>
           /\ Gap(w)'[a] = <<Off(w, win'[w], Here', a), Long(win'[w], a)>>
  <1> DEFINE rest(x, e) == CalcWindowPos(w, x.rcOrig, x.flags, e)
  <1>1. /\ Gap(w) = [b \in Axis |-> <<win[w].rc[b].at - rest(win[w], Here)[b].at,
                                      win[w].rc[b].len - rest(win[w], Here)[b].len>>]
        /\ Gap(w)' = [b \in Axis |-> <<win'[w].rc[b].at - rest(win'[w], Here')[b].at,
                                       win'[w].rc[b].len - rest(win'[w], Here')[b].len>>]
    BY Zenon DEF Gap
  <1>2. ASSUME NEW x, NEW e
        PROVE  /\ rest(x, e)[a].at = x.rcOrig[a].at + Displacement(w, x.flags, e)[a]
               /\ rest(x, e)[a].len = x.rcOrig[a].len + Around(x.flags)[a]
    BY DEF CalcWindowPos
  <1> HIDE DEF rest
  <1>3. Gap(w)[a] = <<Off(w, win[w], Here, a), Long(win[w], a)>>
    BY <1>1, <1>2 DEF Off, Long
  <1>4. Gap(w)'[a] = <<Off(w, win'[w], Here', a), Long(win'[w], a)>>
    BY <1>1, <1>2 DEF Off, Long
  <1> QED
    BY <1>3, <1>4

\* While the screen stays no gap opens.
LEMMA GapsKept ==
    ASSUME PlaceInv, Apart, Bare, [Next]_vars, rcScreen' = rcScreen, bar' = bar,
           NEW w \in Window, NEW a \in Axis
    PROVE  Gap(w)'[a] \in {Gap(w)[a], <<0, 0>>}
  <1>1. AllGo
    <2>1. CASE Next
      BY <2>1, StepGoes
    <2>2. CASE UNCHANGED vars
      <3>1. Here' = Here /\ win' = win
        BY <2>2 DEF Here, vars
      <3> QED
        BY <3>1, StaysThere DEF AllGo
    <2> QED
      BY <2>1, <2>2
  <1>2. /\ Gap(w)[a] = <<Off(w, win[w], Here, a), Long(win[w], a)>>
        /\ Gap(w)'[a] = <<Off(w, win'[w], Here', a), Long(win'[w], a)>>
    BY GapIs
  <1> QED
    BY <1>1, <1>2 DEF AllGo, Goes

\* And so every handler takes rcOrig along: where the taskbar and the screen stay, a
\* window is as far from its rest as it was, or at rest.
THEOREM RestKeptCorrect ==
    ASSUME Apart, Bare
    PROVE  Spec => RestKept
  <1>1. Init => PlaceInv
    BY InitPlace
  <1>2. PlaceInv /\ [Next]_vars => PlaceInv'
    BY PlaceStep, PlaceStutter
  <1>3. PlaceInv /\ [Next]_vars =>
          (rcScreen' = rcScreen /\ bar' = bar =>
             \A w \in Window, a \in Axis : Gap(w)'[a] \in {Gap(w)[a], <<0, 0>>})
    BY GapsKept
  <1> QED
    BY <1>1, <1>2, <1>3, PTL DEF Spec, RestKept
-----------------------------------------------------------------------------
(* The page of a window *)

\* A number is on the page its quotient numbers.
LEMMA DivBounds ==
    ASSUME NEW n \in Nat, NEW d \in Nat \ {0}
    PROVE  n \div d \in Nat /\ (n \div d) * d <= n /\ n < (n \div d) * d + d
    OBVIOUS

\* Where a page begins nothing remains.
LEMMA NothingRemains ==
    ASSUME NEW k \in Int, NEW d \in Nat \ {0}
    PROVE  (k * d) % d = 0
    OBVIOUS

\* Pages are a page apart.
LEMMA PagesApart ==
    ASSUME NEW k \in Int, NEW m \in Int, NEW d \in Nat \ {0}, k * d < m * d + d
    PROVE  k * d <= m * d
  <1>1. k <= m
    <2> SUFFICES ASSUME k >= m + 1 PROVE FALSE
      OBVIOUS
    <2>1. (k - m - 1) * d >= 0
      OBVIOUS
    <2> QED
      BY <2>1
  <1>2. (m - k) * d >= 0
    BY <1>1
  <1> QED
    BY <1>2

\* The page PageOf finds begins at or before the centre and ends after it, unless the
\* centre is where a page of negative coordinates begins.
LEMMA PageHolds ==
    ASSUME NEW rc \in Rect, NEW a \in Axis, NEW c \in Int, c = rc[a].at + Div(rc[a].len, 2),
           ~(c < 0 /\ c % Display[a] = 0)
    PROVE  \E k \in Int : /\ PageOf(rc)[a] = k * Display[a]
                          /\ k * Display[a] <= c /\ c < k * Display[a] + Display[a]
  <1> DEFINE d == Display[a]
  <1>0. d \in Nat \ {0}
    BY GeometryType
  <1>1. PageOf(rc)[a] = IF c >= 0 THEN RoundDown(c, d) ELSE (Div(c, d) - 1) * d
    BY DEF PageOf
  <1> HIDE DEF d
  <1>2. CASE c >= 0
    <2>1. RoundDown(c, d) = (c \div d) * d
      BY <1>2 DEF RoundDown, Div
    <2>2. c \div d \in Nat /\ (c \div d) * d <= c /\ c < (c \div d) * d + d
      BY <1>0, <1>2, DivBounds
    <2> QED
      BY <1>1, <1>2, <2>1, <2>2 DEF d
  <1>3. CASE c < 0
    <2> DEFINE q == (-c) \div d
               k == -q - 1
    <2>1. Div(c, d) = -q
      BY <1>3 DEF Div
    <2>2. -c \in Nat
      BY <1>3
    <2>3. q \in Nat /\ q * d <= -c /\ -c < q * d + d
      BY <1>0, <2>2, DivBounds
    <2> HIDE DEF q
    <2>4. k \in Int /\ k * d = -(q * d) - d
      BY <1>0, <2>3
    <2>5. (-q) * d = -(q * d) /\ -q \in Int /\ q * d \in Int
      BY <1>0, <2>3
    <2>6. -c # q * d
      <3> SUFFICES ASSUME -c = q * d PROVE FALSE
        OBVIOUS
      <3>1. c = (-q) * d
        BY <2>5
      <3>2. c % d = 0
        BY <1>0, <2>5, <3>1, NothingRemains
      <3> QED
        BY <1>3, <3>2 DEF d
    <2>7. k * d <= c /\ c < k * d + d
      BY <1>0, <2>3, <2>4, <2>5, <2>6
    <2>8. PageOf(rc)[a] = k * d
      BY <1>1, <1>3, <2>1
    <2> HIDE DEF k
    <2> QED
      BY <2>4, <2>7, <2>8 DEF d
  <1> QED
    BY <1>2, <1>3

\* And Clamp leaves it if it is one of the pages.
LEMMA ClampLeaves ==
    ASSUME NEW to \in Point, NEW a \in Axis, NEW k \in Int, to[a] = k * Display[a],
           NEW c \in Int, Lowest(a) <= c, c < Highest(a) + Display[a],
           k * Display[a] <= c, c < k * Display[a] + Display[a]
    PROVE  Clamp(to)[a] = to[a]
  <1> DEFINE d == Display[a]  n == rcVirt[a].at  m == End(rcVirt[a]) - 1
  <1>0. d \in Nat \ {0} /\ n \in Int /\ m \in Int
    BY GeometryType DEF End
  <1>1. Lowest(a) = n * d /\ Highest(a) = m * d
    BY DEF Lowest, Highest
  <1> HIDE DEF d, n, m
  <1>2. to[a] = k * d /\ n * d <= c /\ c < m * d + d /\ k * d <= c /\ c < k * d + d
    BY <1>1 DEF d
  <1>3. n * d \in Int /\ m * d \in Int /\ k * d \in Int
    BY <1>0
  <1>4. n * d < k * d + d /\ k * d < m * d + d
    BY <1>0, <1>2, <1>3
  <1>5. n * d <= k * d /\ k * d <= m * d
    BY <1>0, <1>4, PagesApart
  <1>6. Clamp(to)[a] = MinOf(MaxOf(to[a], Lowest(a)), Highest(a))
    BY DEF Clamp
  <1> QED
    BY <1>1, <1>2, <1>3, <1>5, <1>6 DEF MinOf, MaxOf

\* AdjustPage shows the centre of the window on each axis.
LEMMA AdjustShows ==
    ASSUME StateType, NEW w \in Window, AdjustPage(w), NEW a \in Axis, ~PageEdge(w, a)
    PROVE  CentreOn(w, a)
  <1> DEFINE rc == win[w].rc
             c == rc[a].at + Div(rc[a].len, 2)
  <1>1. rc \in Rect /\ rc[a].len \in Int /\ rc[a].at \in Int
    BY DEF StateType, QvwmType, Rect, Span
  <1>2. c \in Int
    BY <1>1, DivType
  <1>3. ~(c < 0 /\ c % Display[a] = 0)
    BY DEF PageEdge
  <1>4. origin' = Clamp(PageOf(rc))
    BY DEF AdjustPage, PagingAllWindows
  <1>5. CentreOn(w, a) <=> ((Lowest(a) <= c /\ c < Highest(a) + Display[a]) =>
                               (origin'[a] <= c /\ c < origin'[a] + Display[a]))
    BY DEF CentreOn
  <1>6. PageOf(rc) \in Point
    BY <1>1, PageOfType
  <1>7. PICK k \in Int : /\ PageOf(rc)[a] = k * Display[a]
                         /\ k * Display[a] <= c /\ c < k * Display[a] + Display[a]
    BY <1>1, <1>2, <1>3, PageHolds
  <1> HIDE DEF c
  <1>8. ASSUME Lowest(a) <= c, c < Highest(a) + Display[a]
        PROVE  origin'[a] <= c /\ c < origin'[a] + Display[a]
    BY <1>2, <1>4, <1>6, <1>7, <1>8, ClampLeaves
  <1> QED
    BY <1>5, <1>8

\* AdjustPage brings the centre of the window to the screen if any page has it.
THEOREM CentreShownCorrect ==
    Spec => CentreShown
  <1>1. Init => IInv
    BY InitInv
  <1>2. IInv /\ [Next]_vars => IInv'
    <2>1. IInv /\ UNCHANGED vars => IInv'
      BY DEF vars, IInv, StateType, Bounded, AllPlaced, Held
    <2> QED
      BY <2>1, NextStep
  <1>3. IInv => \A w \in Handled : AdjustPage(w) => \A a \in Axis : PageEdge(w, a) \/ CentreOn(w, a)
    BY AdjustShows, PagingType DEF IInv
  <1> QED
    BY <1>1, <1>2, <1>3, PTL DEF Spec, CentreShown
-----------------------------------------------------------------------------
(* The side that stays *)

\* r has the side of rc that stays when pos is dragged, which is at base if it is a far one.
Shaped(r, rc, pos, base) ==
    /\ r \in Rect
    /\ \A a \in Axis : /\ pos[a] = -1 => End(r[a]) = base[a]
                       /\ pos[a] # -1 => r[a].at = rc[a].at

\* FixWindowShape keeps that side.
LEMMA ShapeBase ==
    ASSUME NEW w \in Window, NEW rc \in Rect, NEW pos \in [Axis -> {-1, 0, 1}],
           NEW base \in Point, NEW pt \in Point, NEW need \in Point, NEW r,
           r = FixWindowShape(w, rc, pos, base, pt, need)
    PROVE  Shaped(r, rc, pos, base)
  <1>0. r \in Rect
    BY ShapeType
  <1> SUFFICES ASSUME NEW a \in Axis
               PROVE  /\ pos[a] = -1 => End(r[a]) = base[a]
                      /\ pos[a] # -1 => r[a].at = rc[a].at
    BY <1>0 DEF Shaped
  <1> DEFINE h == Hints[w][a]
             client == (IF pos[a] = -1 THEN base[a] - pt[a] ELSE pt[a] - base[a]) - need[a]
             round == IF pos[a] = 0 THEN rc[a].len - need[a]
                      ELSE RoundOff(client - h.base, h.inc) + h.base
             fits == IF round <= 0 THEN MaxOf(1, h.base) ELSE MaxOf(h.min, round)
             len == MinOf(h.max, fits) + need[a]
  <1>1. r[a] = [at |-> IF pos[a] = -1 THEN base[a] - len ELSE rc[a].at, len |-> len]
    BY Zenon DEF FixWindowShape
  <1> HIDE DEF len
  <1>3. r[a].at = (IF pos[a] = -1 THEN base[a] - len ELSE rc[a].at) /\ r[a].len = len
    BY <1>1
  <1>4. r[a].at \in Int /\ r[a].len \in Int
    BY <1>0 DEF Rect, Span
  <1>5. base[a] \in Int
    BY DEF Point
  <1> QED
    BY <1>3, <1>4, <1>5 DEF End

\* A page turn leaves rc of a window that is not STICKY.
LEMMA PagedStays ==
    ASSUME NEW x \in QvwmType, NEW o, NEW p, "STICKY" \notin x.flags
    PROVE  Paged(x, o, p).rc = x.rc
  <1>1. Paged(x, o, p) = [x EXCEPT !.frame = PlaceAt(@, Corner(Shown(x.rc, p)))]
    BY Zenon DEF Paged
  <1> QED
    BY <1>1 DEF QvwmType

\* Where no belt is wanted none is mapped.
NoBelts == PagingBeltSize = 0 => mapped = {}

\* HandlePaging returns how far origin goes, unless the edge of the pages cuts it short:
\* a belt is mapped only where origin can go on.
LEMMA TurnWhole ==
    ASSUME StateType, Bounded, BeltsLead, NoBelts, NEW pt \in Point, NEW delta \in HandlePaging(pt),
           HandlePagingDone(delta), NEW a \in Axis,
           Abs(origin'[a] - origin[a]) \in {0, Div(PagingMovement * Display[a], 100)}
    PROVE  origin'[a] = origin[a] + delta[a]
  <1> DEFINE m == Div(PagingMovement * Display[a], 100)
             belt == BeltAt(pt)
  <1>1. origin \in Point /\ origin[a] \in Int /\ Lowest(a) <= origin[a] /\ origin[a] <= Highest(a)
    BY DEF StateType, Bounded, Point
  <1>2. CASE delta = Zero
    BY <1>1, <1>2 DEF HandlePagingDone, Zero
  <1>3. CASE delta # Zero
    <2>1. delta = BeltMove(belt) /\ belt \in mapped
      BY <1>3 DEF HandlePaging
    <2>2. belt \in [Axis -> {-1, 0, 1}]
      BY DEF BeltAt
    <2>3. m \in Nat
      <3>1. PagingMovement * Display[a] \in Nat
        BY GeometryType, PagingType
      <3> QED
        BY <3>1 DEF Div
    <2>4. delta[a] = belt[a] * m
      BY <2>1 DEF BeltMove
    <2>5. belt \in Belt
      <3> SUFFICES ASSUME belt = [b \in Axis |-> 0] PROVE FALSE
        BY <2>2 DEF Belt
      <3>1. ASSUME NEW b \in Axis PROVE BeltMove(belt)[b] = 0
        <4>1. PagingMovement * Display[b] \in Int
          BY GeometryType, PagingType
        <4>2. Div(PagingMovement * Display[b], 100) \in Int
          BY <4>1, DivType
        <4>3. belt[b] = 0
          OBVIOUS
        <4>4. BeltMove(belt)[b] = belt[b] * Div(PagingMovement * Display[b], 100)
          BY DEF BeltMove
        <4> HIDE DEF belt
        <4> QED
          BY <4>2, <4>3, <4>4
      <3>2. BeltMove(belt) = Zero
        BY <3>1 DEF BeltMove, Zero
      <3> QED
        BY <1>3, <2>1, <3>2
    <2>6. belt[a] # 0 => Clamp(Plus(origin, belt))[a] # origin[a]
      BY <2>1, <2>5, PagingType DEF BeltsLead, NoBelts
    <2>7. /\ Clamp(Plus(origin, belt))[a] = MinOf(MaxOf(origin[a] + belt[a], Lowest(a)), Highest(a))
          /\ origin'[a] = MinOf(MaxOf(origin[a] + delta[a], Lowest(a)), Highest(a))
      BY <1>3 DEF HandlePagingDone, Clamp, Plus
    <2>8. belt[a] \in {-1, 0, 1} /\ Lowest(a) \in Int /\ Highest(a) \in Int
      BY <2>2, Bounds
    <2> HIDE DEF m, belt
    <2>9. origin'[a] - origin[a] \in {0, m, -m}
      <3>1. origin'[a] \in Int
        BY <1>1, <2>3, <2>4, <2>7, <2>8 DEF MinOf, MaxOf
      <3> QED
        BY <1>1, <2>3, <3>1 DEF Abs, m
    <2>10. CASE belt[a] = 0
      BY <1>1, <2>3, <2>4, <2>7, <2>8, <2>10 DEF MinOf, MaxOf
    <2>11. CASE belt[a] = 1
      BY <1>1, <2>3, <2>4, <2>6, <2>7, <2>8, <2>9, <2>11 DEF MinOf, MaxOf
    <2>12. CASE belt[a] = -1
      BY <1>1, <2>3, <2>4, <2>6, <2>7, <2>8, <2>9, <2>12 DEF MinOf, MaxOf
    <2> QED
      BY <2>8, <2>10, <2>11, <2>12
  <1> QED
    BY <1>2, <1>3

\* The drag d keeps base, and a window that is drawn as it is resized is where rcNew is.
Follows(d, ws, o) ==
    Based(d) /\ (Opaque => \A a \in Axis : /\ ws[d.w].rc[a].at = d.rc[a].at + o[a]
                                           /\ ws[d.w].rc[a].len = d.rc[a].len)

\* The side of rc that stays when pos is dragged.
BaseSide(pos, rc, a) == IF pos[a] = -1 THEN End(rc[a]) ELSE rc[a].at

\* A motion leaves that side where it is, and the loop as it was.
LEMMA ResizeToBase ==
    ASSUME IInv, BeltsLead, NoBelts, NEW d \in ResizeDrag, NEW pt \in Point, ResizeTo(d, pt),
           Follows(d, win, origin)
    PROVE  /\ drag' \in ResizeDrag /\ drag'.w = d.w /\ drag'.pos = d.pos
           /\ Follows(drag', win', origin')
           /\ \A a \in Axis :
                 ("STICKY" \notin win[d.w].flags
                  /\ Abs(origin'[a] - origin[a]) \in {0, Div(PagingMovement * Display[a], 100)})
                 => BaseSide(d.pos, win'[d.w].rc, a) = BaseSide(d.pos, win[d.w].rc, a)
  <1>0. StateType /\ Bounded
    BY DEF IInv
  <1> DEFINE w == d.w
  <1>1. w \in Window /\ win[w] \in QvwmType /\ win \in [Window -> QvwmType] /\ origin \in Point
    BY <1>0 DEF ResizeDrag, StateType
  <1>2. PICK delta \in HandlePaging(pt) :
           LET base == Minus(d.base, delta)
               rc == FixWindowShape(d.w, Shift(d.rc, Minus(Zero, delta)), d.pos, base,
                                    Minus(pt, delta), Around(win[d.w].flags))
               ws == After(delta, win)
           IN  /\ HandlePagingDone(delta)
               /\ drag' = [d EXCEPT !.rc = rc, !.base = base]
               /\ win' = IF ~Opaque THEN ws
                         ELSE [ws EXCEPT ![d.w] =
                                 Resized(d.w, @, Shift(rc, origin'),
                                         [Here EXCEPT !.origin = origin'])]
    BY Zenon DEF ResizeTo
  <1> DEFINE base == Minus(d.base, delta)
             left == Shift(d.rc, Minus(Zero, delta))
             need == Around(win[w].flags)
             ws == After(delta, win)
             e == [Here EXCEPT !.origin = origin']
  <1>shape. PICK rc : rc = FixWindowShape(w, left, d.pos, base, Minus(pt, delta), need)
    OBVIOUS
  <1> DEFINE y == Resized(w, ws[w], Shift(rc, origin'), e)
  <1>3. delta \in Point /\ Zero \in Point
    BY <1>0, HandlePagingType DEF Zero, Point
  <1>4. d.rc \in Rect /\ d.base \in Point /\ d.pos \in [Axis -> {-1, 0, 1}]
    BY DEF ResizeDrag
  <1>5. base \in Point /\ \A a \in Axis : base[a] = d.base[a] - delta[a]
    BY <1>3, <1>4, PointType DEF Minus
  <1>6. left \in Rect /\ \A a \in Axis : left[a].at = d.rc[a].at - delta[a]
    <2>1. Minus(Zero, delta) \in Point /\ \A a \in Axis : Minus(Zero, delta)[a] = 0 - delta[a]
      BY <1>3, PointType DEF Minus, Zero
    <2>2. \A a \in Axis : left[a].at = d.rc[a].at + Minus(Zero, delta)[a]
      BY <1>4 DEF Shift, Rect, Span
    <2>3. \A a \in Axis : d.rc[a].at \in Int /\ delta[a] \in Int
      BY <1>3, <1>4 DEF Point, Rect, Span
    <2>4. left \in Rect
      BY <1>4, <2>1, ShiftType
    <2> HIDE DEF left
    <2> QED
      BY <2>1, <2>2, <2>3, <2>4
  <1>7. Minus(pt, delta) \in Point /\ need \in Point
    BY <1>1, <1>3, PointType, AroundType DEF QvwmType
  <1>8. drag' = [d EXCEPT !.rc = rc, !.base = base] /\ HandlePagingDone(delta)
    BY <1>2, <1>shape
  <1>9. win' = IF ~Opaque THEN ws ELSE [ws EXCEPT ![w] = y]
    BY <1>2, <1>shape
  <1> HIDE DEF left, base, need
  <1>10. /\ rc \in Rect
         /\ \A a \in Axis : /\ rc[a].at \in Int /\ rc[a].len \in Int
                            /\ d.pos[a] = -1 => End(rc[a]) = base[a]
                            /\ d.pos[a] # -1 => rc[a].at = left[a].at
    <2>1. Shaped(rc, left, d.pos, base)
      BY <1>shape, <1>1, <1>4, <1>5, <1>6, <1>7, ShapeBase
    <2> QED
      BY <2>1 DEF Shaped, Rect, Span
  <1>11. drag' \in ResizeDrag /\ drag'.w = w /\ drag'.pos = d.pos /\ drag'.rc = rc
         /\ drag'.base = base
    BY <1>5, <1>8, <1>10 DEF ResizeDrag
  <1>12. origin' \in Point /\ ws = AllPaged(win, origin, origin') /\ ws \in [Window -> QvwmType]
    BY <1>0, <1>3, <1>8, AfterType
  <1>13. e \in Env
    <2>1. Here \in Env
      BY <1>0, HereType
    <2> QED
      BY <1>12, <2>1 DEF Env
  <1> HIDE DEF ws, e
  <1>14. y.rc = Shift(rc, origin')
    <2>1. Shift(rc, origin') \in Rect
      BY <1>10, <1>12, ShiftType
    <2> QED
      BY <1>1, <1>12, <1>13, <2>1, ResizedType
  <1> HIDE DEF y
  <1>15. \A a \in Axis : Opaque => /\ win'[w].rc[a].at = rc[a].at + origin'[a]
                                   /\ win'[w].rc[a].len = rc[a].len
    <2> SUFFICES ASSUME Opaque, NEW a \in Axis
                 PROVE  win'[w].rc[a].at = rc[a].at + origin'[a] /\ win'[w].rc[a].len = rc[a].len
      OBVIOUS
    <2>1. win'[w].rc = Shift(rc, origin')
      BY <1>1, <1>9, <1>12, <1>14
    <2> QED
      BY <1>10, <2>1 DEF Shift, Rect, Span
  <1>16. Follows(drag', win', origin')
    BY <1>10, <1>11, <1>15 DEF Follows, Based
  <1>17. ASSUME NEW a \in Axis, "STICKY" \notin win[w].flags,
                Abs(origin'[a] - origin[a]) \in {0, Div(PagingMovement * Display[a], 100)}
         PROVE  BaseSide(d.pos, win'[w].rc, a) = BaseSide(d.pos, win[w].rc, a)
    <2>1. CASE ~Opaque
      <3>1. win'[w] = ws[w]
        BY <1>9, <2>1
      <3>2. ws[w].rc = win[w].rc
        BY <1>1, <1>12, <1>17, PagedStays DEF AllPaged
      <3> QED
        BY <3>1, <3>2
    <2>2. CASE Opaque
      <3>1. origin'[a] = origin[a] + delta[a]
        BY <1>0, <1>8, <1>17, TurnWhole
      <3>2. /\ win'[w].rc[a].at = rc[a].at + origin'[a] /\ win'[w].rc[a].len = rc[a].len
            /\ win[w].rc[a].at = d.rc[a].at + origin[a] /\ win[w].rc[a].len = d.rc[a].len
        BY <1>15, <2>2 DEF Follows
      <3>3. /\ origin[a] \in Int /\ delta[a] \in Int /\ d.rc[a].at \in Int /\ d.rc[a].len \in Int
            /\ d.base[a] \in Int
        BY <1>1, <1>3, <1>4 DEF Point, Rect, Span
      <3>4. CASE d.pos[a] = -1
        <4>1. rc[a].at + rc[a].len = d.base[a] - delta[a]
          BY <1>5, <1>10, <3>4 DEF End
        <4>2. d.base[a] = d.rc[a].at + d.rc[a].len
          BY <3>4 DEF Follows, Based, End
        <4>3. rc[a].at \in Int /\ rc[a].len \in Int
          BY <1>10
        <4>4. /\ BaseSide(d.pos, win'[w].rc, a) = win'[w].rc[a].at + win'[w].rc[a].len
              /\ BaseSide(d.pos, win[w].rc, a) = win[w].rc[a].at + win[w].rc[a].len
          BY <3>4 DEF BaseSide, End
        <4> QED
          BY <3>1, <3>2, <3>3, <4>1, <4>2, <4>3, <4>4
      <3>5. CASE d.pos[a] # -1
        <4>1. rc[a].at = d.rc[a].at - delta[a]
          BY <1>6, <1>10, <3>5
        <4>2. /\ BaseSide(d.pos, win'[w].rc, a) = win'[w].rc[a].at
              /\ BaseSide(d.pos, win[w].rc, a) = win[w].rc[a].at
          BY <3>5 DEF BaseSide
        <4> QED
          BY <3>1, <3>2, <3>3, <4>1, <4>2
      <3> QED
        BY <3>4, <3>5
    <2> QED
      BY <2>1, <2>2
  <1> QED
    BY <1>11, <1>16, <1>17

\* What a loop that goes on is: the drag of the pointer, or of a key that has picked a side.
ResizeGoes ==
    /\ drag.kind = "resize"
    /\ \E d \in ResizeDrag, to \in Point :
          ResizeTo(d, to) /\ d.rc = drag.rc /\ d.w = drag.w /\ (Based(drag) => Based(d))

\* A window is being resized after a step that begins a loop or goes on with one.
LEMMA ResizeSteps ==
    ASSUME IInv, Next, drag'.kind = "resize"
    PROVE  ResizeGoes \/ \E w \in Handled, pos \in Grips : ResizeWindow(w, pos)
  <1>0. StateType
    BY DEF IInv
  <1>1. ASSUME Idle, drag' = drag PROVE FALSE
    BY <1>1 DEF Idle, NoDrag
  <1>2. ASSUME NEW pt \in Pointers, MoveMotion(pt) PROVE FALSE
    <2>1. PICK delta \in HandlePaging(pt) :
             LET at == Minus(pt, delta)
                 rc == Shift(drag.rc, Minus(at, drag.pt))
             IN  drag' = [drag EXCEPT !.rc = rc, !.shown = FixToScreen(rc, rcScreen), !.pt = at]
      BY <1>2, Zenon DEF MoveMotion
    <2>2. drag \in MoveDrag
      BY <1>0, <1>2, DragKinds DEF MoveMotion
    <2> QED
      BY <2>1, <2>2 DEF MoveDrag
  <1>3. ASSUME NEW pt \in Pointers, ResizeMotion(pt) PROVE ResizeGoes
    <2>1. drag \in ResizeDrag /\ pt \in Point /\ ResizeTo(drag, pt) /\ drag.kind = "resize"
      BY <1>0, <1>3, DragKinds, PagingType DEF ResizeMotion
    <2> QED
      BY <2>1 DEF ResizeGoes
  <1>4. ASSUME NEW key \in Keys, NEW pt \in Pointers, ResizeKey(key, pt) PROVE ResizeGoes
    <2>1. drag.kind = "resize"
      BY <1>4 DEF ResizeKey
    <2> QED
      BY <1>4, <2>1, ResizeKeyIsMotion DEF ResizeGoes
  <1>5. ASSUME NEW move \in PagerMoves, MiniatureMotion(move) PROVE FALSE
    <2>1. drag \in MiniDrag /\ drag' = [drag EXCEPT !.moved = TRUE]
      BY <1>0, <1>5, DragKinds DEF MiniatureMotion
    <2> QED
      BY <2>1 DEF MiniDrag
  <1>6. ASSUME NEW w \in Handled, MiniatureButton2Press(w) PROVE FALSE
    BY <1>6 DEF MiniatureButton2Press
  <1>7. ASSUME NEW w \in Handled, NEW pt \in Pointers, MoveWindow(w, pt) PROVE FALSE
    BY <1>7 DEF MoveWindow
  <1>8. ASSUME MoveDecide \/ ResizeDecide \/ MiniatureDecide PROVE FALSE
    BY <1>8 DEF MoveDecide, ResizeDecide, MiniatureDecide, NoDrag
  <1>9. ASSUME NEW pt \in Pointers, EnterBelt(pt) PROVE FALSE
    BY <1>1, <1>9 DEF EnterBelt
  <1>10. ASSUME NEW a \in Axis, NEW step \in {-1, 1}, SwitchPage(a, step) PROVE FALSE
    BY <1>1, <1>10 DEF SwitchPage
  <1>11. ASSUME NEW cell \in Cells, TurnToPage(cell) PROVE FALSE
    BY <1>1, <1>11 DEF TurnToPage
  <1>12. ASSUME NEW move \in PagerMoves, PagerButton3Motion(move) PROVE FALSE
    BY <1>1, <1>12 DEF PagerButton3Motion
  <1>13. ASSUME NEW w \in Handled,
                \/ AdjustPage(w) \/ MaximizeWindow(w) \/ MinimizeWindow(w) \/ RestoreWindow(w)
                \/ ToggleSticky(w) \/ \E f \in {"BORDER", "BORDER_EDGE", "TITLE"} : ToggleFrame(w, f)
         PROVE  FALSE
    BY <1>1, <1>13, Zenon
       DEF AdjustPage, MaximizeWindow, MinimizeWindow, RestoreWindow, ToggleSticky, ToggleFrame
  <1>14. ASSUME NEW w \in Configurable, NEW req \in Requests, Configure(w, req) PROVE FALSE
    BY <1>1, <1>14, Zenon DEF Configure
  <1>15. ASSUME RearrangeAll \/ ToggleAutoHide PROVE FALSE
    BY <1>1, <1>15, Zenon
       DEF RearrangeAll, ToggleTaskbar, MoveTaskbar, ResizeTaskbar, RecalcAllWindows, ToggleAutoHide
  <1> QED
    BY <1>2, <1>3, <1>4, <1>5, <1>6, <1>7, <1>8, <1>9, <1>10, <1>11, <1>12, <1>13, <1>14, <1>15,
       Zenon DEF Next

\* The loop begins with the sides where the window has them.
LEMMA ResizeBegins ==
    ASSUME PlaceInv, NEW w \in Window, NEW pos \in Grips, ResizeWindow(w, pos)
    PROVE  Follows(drag', win', origin')
  <1> DEFINE rc == win[w].frame
             base == [a \in Axis |-> IF pos[a] = -1 THEN End(rc[a]) ELSE rc[a].at]
  <1>1. drag' = [kind |-> "resize", w |-> w, rc |-> rc, pos |-> pos,
                 keys |-> IF pos = Zero THEN MaxKeys ELSE 0, base |-> base]
    BY Zenon DEF ResizeWindow
  <1>2. drag'.w = w /\ drag'.rc = rc /\ drag'.pos = pos /\ drag'.base = base
    BY <1>1
  <1>3. Based(drag')
    BY <1>2 DEF Based
  <1>4. w \notin Held /\ win' = win /\ origin' = origin
    BY DEF ResizeWindow, Idle, NoDrag, Held
  <1>5. rc = Shown(win[w].rc, origin)
    BY <1>4, FrameOf DEF FrameAgrees
  <1>6. win[w].rc \in Rect /\ origin \in Point
    BY DEF PlaceInv, IInv, StateType, QvwmType
  <1> HIDE DEF rc
  <1>7. ASSUME NEW a \in Axis
        PROVE  win[w].rc[a].at = rc[a].at + origin[a] /\ win[w].rc[a].len = rc[a].len
    <2>1. origin[a] \in Int /\ win[w].rc[a].at \in Int /\ win[w].rc[a].len \in Int
      BY <1>6 DEF Rect, Span, Point
    <2>2. rc[a] = [win[w].rc[a] EXCEPT !.at = @ - origin[a]]
      BY <1>5, Zenon DEF Shown
    <2>3. win[w].rc[a] \in Span
      BY <1>6 DEF Rect
    <2>4. rc[a].at = win[w].rc[a].at - origin[a] /\ rc[a].len = win[w].rc[a].len
      BY <2>2, <2>3 DEF Span
    <2> QED
      BY <2>1, <2>4
  <1> QED
    BY <1>2, <1>3, <1>4, <1>7 DEF Follows

\* While a window is resized its loop holds the side that stays, and the window with it.
HeldInv ==
    /\ PlaceInv /\ BeltsLead /\ NoBelts
    /\ drag.kind = "resize" => Follows(drag, win, origin)

\* A loop that goes on.
LEMMA ResizeGoesBase ==
    ASSUME HeldInv, ResizeGoes
    PROVE  /\ Follows(drag', win', origin') /\ drag'.w = drag.w
           /\ \A a \in Axis :
                 ("STICKY" \notin win[drag.w].flags
                  /\ Abs(origin'[a] - origin[a]) \in {0, Div(PagingMovement * Display[a], 100)})
                 => BaseSide(drag'.pos, win'[drag.w].rc, a) = BaseSide(drag'.pos, win[drag.w].rc, a)
  <1>1. PICK d \in ResizeDrag, to \in Point :
           ResizeTo(d, to) /\ d.rc = drag.rc /\ d.w = drag.w /\ (Based(drag) => Based(d))
    BY DEF ResizeGoes
  <1>2. Follows(d, win, origin)
    BY <1>1 DEF HeldInv, ResizeGoes, Follows
  <1>3. /\ drag'.w = d.w /\ drag'.pos = d.pos /\ Follows(drag', win', origin')
        /\ \A a \in Axis :
                 ("STICKY" \notin win[d.w].flags
                  /\ Abs(origin'[a] - origin[a]) \in {0, Div(PagingMovement * Display[a], 100)})
                 => BaseSide(d.pos, win'[d.w].rc, a) = BaseSide(d.pos, win[d.w].rc, a)
    BY <1>1, <1>2, ResizeToBase DEF HeldInv, PlaceInv
  <1> QED
    BY <1>1, <1>3, Zenon

\* Every step keeps what the loop holds.
LEMMA HeldStep ==
    ASSUME HeldInv, Apart, MorePages, Next
    PROVE  HeldInv'
  <1>1. PlaceInv' /\ Belted /\ BeltsLead'
    BY PlaceStep, BeltedStep, BeltsStep DEF HeldInv, PlaceInv
  <1>2. NoBelts'
    BY <1>1 DEF HeldInv, NoBelts, Belted, MapBelts
  <1>3. ASSUME drag'.kind = "resize" PROVE Follows(drag', win', origin')
    <2>1. CASE ResizeGoes
      BY <2>1, ResizeGoesBase
    <2>2. ASSUME NEW w \in Handled, NEW pos \in Grips, ResizeWindow(w, pos)
          PROVE  Follows(drag', win', origin')
      BY <2>2, ResizeBegins, PagingType DEF HeldInv
    <2> QED
      BY <1>3, <2>1, <2>2, ResizeSteps DEF HeldInv, PlaceInv
  <1> QED
    BY <1>1, <1>2, <1>3 DEF HeldInv

\* While a window is resized the side that is not dragged stays where it is on the plane.
THEOREM ResizeKeepsBaseCorrect ==
    ASSUME Apart, MorePages
    PROVE  Spec => ResizeKeepsBase
  <1> DEFINE SideKept ==
        (drag.kind = "resize" /\ drag'.kind = "resize" /\ "STICKY" \notin win[drag.w].flags) =>
         \A a \in Axis :
            LET Base(rc) == IF drag'.pos[a] = -1 THEN End(rc[a]) ELSE rc[a].at
            IN  Abs(origin'[a] - origin[a]) \in {0, Div(PagingMovement * Display[a], 100)} =>
                    Base(win'[drag.w].rc) = Base(win[drag.w].rc)
  <1>1. Init => HeldInv
    <2> SUFFICES ASSUME Init PROVE HeldInv
      OBVIOUS
    <2>1. Zero \in Point /\ Clamp(Zero) = Zero
      BY Bounds DEF Zero, Point, Clamp, MinOf, MaxOf
    <2>2. BeltsLead
      BY <2>1, BeltsOf DEF Init, BeltsLead
    <2>3. NoBelts
      BY DEF Init, NoBelts, MapBelts
    <2>4. drag.kind # "resize"
      BY DEF Init, NoDrag
    <2> QED
      BY <2>2, <2>3, <2>4, InitPlace DEF HeldInv
  <1>2. HeldInv /\ [Next]_vars => HeldInv'
    <2>1. HeldInv /\ UNCHANGED vars => HeldInv'
      BY PlaceStutter DEF HeldInv, vars, BeltsLead, NoBelts, Follows, Based
    <2> QED
      BY <2>1, HeldStep
  <1>3. HeldInv /\ [Next]_vars => SideKept
    <2> SUFFICES ASSUME HeldInv, [Next]_vars, drag.kind = "resize", drag'.kind = "resize",
                        "STICKY" \notin win[drag.w].flags, NEW a \in Axis,
                        Abs(origin'[a] - origin[a]) \in {0, Div(PagingMovement * Display[a], 100)}
                 PROVE  BaseSide(drag'.pos, win'[drag.w].rc, a) = BaseSide(drag'.pos, win[drag.w].rc, a)
      BY DEF BaseSide
    <2>1. CASE UNCHANGED vars
      BY <2>1 DEF vars, BaseSide
    <2>2. CASE Next
      <3>1. ~ \E w \in Handled, pos \in Grips : ResizeWindow(w, pos)
        BY DEF ResizeWindow, Idle, NoDrag
      <3>2. ResizeGoes
        BY <2>2, <3>1, ResizeSteps DEF HeldInv, PlaceInv
      <3> QED
        BY <3>2, ResizeGoesBase
    <2> QED
      BY <2>1, <2>2
  <1> QED
    BY <1>1, <1>2, <1>3, PTL DEF Spec, ResizeKeepsBase
=============================================================================
