---------------------------- MODULE WindowHistory ----------------------------
(***************************************************************************)
(* WindowManager with one thing remembered: the windows qvwm let go since  *)
(* their clients last asked for a map, although the server had them        *)
(* mapped.  UnmapNotifyProc (event.cc:745) does so when qvwm maps a window *)
(* again between its client's unmap and the notice of it: the window it    *)
(* deletes is mapped, and the notices that XUnmapWindow and the            *)
(* reparenting cause are read in the next life of the window.  No code     *)
(* keeps this set: it is a history variable, of which WindowManager's      *)
(* variables are independent.                                              *)
(***************************************************************************)
EXTENDS WindowManager

VARIABLE withdrawn

hvars == <<vars, withdrawn>>

\* The living windows a step lets go while the server has them mapped.
LetGo == {w \in wm.qvwmList \cap alive : wm.xmapped[w] /\ w \notin wm'.qvwmList}

\* The window whose client asks for a map in a step, which starts it afresh.
Asking == {w \in Window : queue' = Append(queue, XEvent("MapRequest", w))}

HistoryInit == Init /\ withdrawn = {}
HistoryNext == Next /\ withdrawn' = (withdrawn \cup LetGo) \ Asking
HistorySpec == HistoryInit /\ [][HistoryNext]_hvars
FairHistorySpec == HistorySpec /\ Fairness
-----------------------------------------------------------------------------
(* Properties *)

\* The windows whose clients want them mapped and that qvwm has no excuse to be
\* without: not closed as they appear, not override-redirect, not withdrawn.
Owed == wanted \ (CloseSoon \cup Override \cup withdrawn)

\* No request to map is lost: once CaptureAllWindows is over and no event is left,
\* every window owed is managed, whichever notices of its earlier lives, of qvwm's
\* own unmaps and of other windows the handlers read in between.
NoLostMap == queue = <<>> /\ pass = "none" => Owed \subseteq wm.qvwmList

\* Every window that comes to be owed is managed in the end, or stops being owed:
\* its client unmaps or destroys it, or qvwm lets it go while it is mapped.
MapHonoured == \A w \in Window : w \in Owed ~> (w \in wm.qvwmList \/ w \notin Owed)
=============================================================================
