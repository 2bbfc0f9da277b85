------------------------------- MODULE MCPaging -------------------------------
(***************************************************************************)
(* Small instances of Paging: a screen of 120 x 100 on two by two pages,   *)
(* one of them left of page (0, 0).                                        *)
(***************************************************************************)
EXTENDS Paging

CONSTANTS plain, framed

Pt(m, n) == [x |-> m, y |-> n]
Span1(m, n) == [at |-> m, len |-> n]

TwoByTwo == [x |-> Span1(-1, 2), y |-> Span1(0, 2)]
ThreeByTwo == [x |-> Span1(-2, 3), y |-> Span1(0, 2)]

Screen == Pt(120, 100)
Scale == Pt(6, 5)
NoBw == [w \in Window |-> 0]
Gravities == [w \in Window |-> IF w = plain THEN Pt(0, 0) ELSE Pt(-2, -2)]
AnySize == [w \in Window |-> [a \in Axis |-> [inc |-> 10, base |-> 5, min |-> 15, max |-> 1000]]]
Places == [w \in Window |-> IF w = plain THEN [x |-> Span1(20, 35), y |-> Span1(30, 15)]
                            ELSE [x |-> Span1(-60, 45), y |-> Span1(10, 35)]]
\* The centre of framed is where page -1 begins.
EdgePlaces == [Places EXCEPT ![framed]["x"].at = -136]
Flags == [w \in Window |-> IF w = plain THEN {"STICKY"} ELSE {"BORDER", "BORDER_EDGE", "TITLE"}]

Edges == {Pt(0, 50), Pt(60, 99)}
SidesHeld == {Pt(0, 0)}
Arrows == {<<"x", -1>>, <<"y", 1>>}
OnPager == {Pt(-3, 0)}
Asking == {[mask |-> {<<"x", "at">>}, at |-> Pt(20, 0), len |-> Pt(0, 0)]}
Anywhere == {Pt(7, 3)}
=============================================================================
