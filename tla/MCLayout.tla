------------------------------- MODULE MCLayout -------------------------------
(***************************************************************************)
(* A small instance of Layout: a screen of 300 x 200, three windows that   *)
(* fill more than it has room for, two icons.                              *)
(***************************************************************************)
EXTENDS Layout

CONSTANTS wide, tall, small, trash, mail

Pt(m, n) == [x |-> m, y |-> n]
Span1(m, n) == [at |-> m, len |-> n]

TwoPages == [x |-> Span1(0, 2), y |-> Span1(0, 1)]
Screen == Pt(300, 200)
Scale == Pt(30, 20)
NoBw == [w \in Window |-> 0]
NoGravity == [w \in Window |-> Pt(0, 0)]
InSteps == [w \in Window |-> [a \in Axis |-> [inc |-> IF w = wide THEN 7 ELSE 1, base |-> 5, min |-> 5, max |-> 1000]]]
Sizes == [w \in Window |-> CASE w = wide -> Pt(180, 60) [] w = tall -> Pt(90, 120) [] w = small -> Pt(60, 50)]
IconOrder == <<trash, mail>>
Grid == Pt(70, 60)
Pager == [x |-> Span1(230, 60), y |-> Span1(140, 40)]

Bottom == [pos |-> "BOTTOM", thick |-> 28]
AllBars == {Bottom, [pos |-> "BOTTOM", thick |-> 53], [pos |-> "LEFT", thick |-> 100],
            [pos |-> "RIGHT", thick |-> 40], [pos |-> "TOP", thick |-> 28]}

InDrops == {Pt(60, 64), Pt(171, 60)}
OneStep == {Pt(-1, 40)}
Nearby == Pt(1, 100)
Expansions == {{<<"x", 1>>}, {<<"y", -1>>}, Sides}
Pages == {Pt(0, 0), Pt(300, 0)}
=============================================================================
