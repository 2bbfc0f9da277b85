-------------------------------- MODULE Plane --------------------------------
(***************************************************************************)
(* What paging promises, whatever the handlers do to get there.  Windows   *)
(* lie on a plane and the screen is a part of it, at origin.  To turn the  *)
(* page moves no window on the plane and no pinned window on the screen;   *)
(* to place a window moves no other; and what the screen shows is always   *)
(* the plane seen from origin, but for a window still held by the pointer. *)
(***************************************************************************)
EXTENDS Integers

CONSTANTS Window, Axis, Lowest(_), Highest(_)

VARIABLES
    origin,     \* the point of the plane at the corner of the screen
    plane,      \* where each window is on the plane
    screen,     \* where the server has it
    pinned,     \* windows that stay on the screen
    held        \* windows held by the pointer

vars == <<origin, plane, screen, pinned, held>>

Minus(p, q) == [a \in Axis |-> p[a] - q[a]]
Plus(p, q) == [a \in Axis |-> p[a] + q[a]]

InRange(o) == \A a \in Axis : Lowest(a) <= o[a] /\ o[a] <= Highest(a)

Agree(w) == screen[w] = Minus(plane[w], origin)

Init ==
    /\ InRange(origin) /\ held = {}
    /\ \A w \in Window : Agree(w)

\* What a page turn does to a window that is not placed anew.
Follows(w) ==
    /\ pinned'[w] = pinned[w]
    /\ plane'[w] = IF pinned[w] THEN Plus(plane[w], Minus(origin', origin)) ELSE plane[w]

Agreed == \A w \in Window \ held' : Agree(w)'

\* The page is turned, and the windows of placed are given new places.
Turn(placed) ==
    /\ InRange(origin') /\ held' \subseteq placed \cup held
    /\ \A w \in Window \ placed : Follows(w)
    /\ Agreed

\* The taskbar has moved: every window may be placed anew, on the same page.
Rearrange == origin' = origin /\ pinned' = pinned /\ held' = held /\ Agreed

Next == Turn({}) \/ (\E w \in Window : Turn({w})) \/ Rearrange

Spec == Init /\ [][Next]_vars
=============================================================================
