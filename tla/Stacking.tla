------------------------------- MODULE Stacking -------------------------------
(***************************************************************************)
(* The stacking order of the frames and the ONTOP windows: RaiseWindow,    *)
(* StackWindows, LowerWindow and RaiseSoon of window.cc, and the functions *)
(* of the other files that keep Desktop::onTopList.  The state of          *)
(* WindowOps carries four more fields here, and each operator below is the *)
(* function of WindowOps of the same name with the raising it does.        *)
(*                                                                         *)
(* Abstracted: the taskbar, the pager and the accessories in the stack.    *)
(***************************************************************************)
EXTENDS WindowOps, FiniteSets

CONSTANTS
    InitOnTop,       \* windows the hints or qvwmrc make ONTOP
    AutoRaise        \* and AutoRaiseDelay > 0

ASSUME OnTopType == InitOnTop \subseteq Window /\ AutoRaise \in BOOLEAN

LOCAL S == INSTANCE SequencesExt

StackState ==
    [ zorder    : Seq(Window),        \* the frames under Desktop::topWin, highest first
      ontop     : SUBSET Window,      \* windows with the flag ONTOP
      ontopBak  : SUBSET Window,      \* the same flag in flagsBak
      onTopList : Seq(Window),        \* Desktop::onTopList
      soon      : SUBSET Window,      \* windows with a RaiseSoon callout
      overrun   : BOOLEAN ]           \* StackWindows wrote past the end of wins

InitStack ==
    [zorder |-> <<>>, ontop |-> {}, ontopBak |-> {}, onTopList |-> <<>>, soon |-> {},
     overrun |-> FALSE]

\* A window, under its mapped transients and theirs.  InsertTail puts a transient
\* at the end of trList; qvwmList has no order, so the model takes zorder's for
\* the transients of one window.
StackWindows(s, w) ==
    LET Above[x \in Window] ==
            LET tr == SelectSeq(s.zorder, LAMBDA t : t \in s.trList[x] /\ CheckMapped(s, t))
            IN  S!FlattenSeq([i \in DOMAIN tr |-> Above[tr[i]]]) \o <<x>>
    IN  Above[w]

\* XRestackWindows below topWin: a window listed twice ends at its last place.
RestackWindows(zorder, wins) ==
    LET Listed(x) == Has(wins, x)
        last == [i \in DOMAIN wins |-> \A j \in (i + 1)..Len(wins) : wins[j] # wins[i]]
        once == S!FoldLeftDomain(LAMBDA q, i : IF last[i] THEN Append(q, wins[i]) ELSE q,
                                 <<>>, wins)
    IN  once \o SelectSeq(zorder, LAMBDA x : ~Listed(x))

\* What RaiseWindow(True) hands to XRestackWindows: onTopList from its tail to its
\* head, then the window itself.
Wins(s, w) ==
    LET listed == SelectSeq(S!Reverse(s.onTopList), LAMBDA x : CheckMapped(s, x))
        above == S!FlattenSeq([i \in DOMAIN listed |-> StackWindows(s, listed[i])])
    IN  IF w \in s.ontop THEN StackWindows(s, w)
        ELSE IF Has(s.onTopList, w) THEN above
        ELSE above \o StackWindows(s, w)

\* Mutant: the ONTOP windows are not stacked first.
RaiseWindowAboveAll(s, w, soon) ==
    IF w = Root \/ ~CheckMapped(s, w) THEN s
    ELSE [s EXCEPT !.zorder = RestackWindows(@, StackWindows(s, w))]

RaiseWindow(s, w, soon) ==
    IF w = Root THEN s
    ELSE IF ~soon /\ AutoRaise THEN [s EXCEPT !.soon = @ \cup {w}]
    ELSE IF ~CheckMapped(s, w) THEN s
    ELSE [s EXCEPT !.zorder = RestackWindows(@, Wins(s, w)),
                   !.overrun = @ \/ Len(Wins(s, w)) > Cardinality(s.qvwmList)]

\* Below the lowest frame in the tree, mapped or not.
LowerWindow(s, w) ==
    IF w = Root \/ w \in s.ontop \/ ~CheckMapped(s, w) THEN s
    ELSE [s EXCEPT !.zorder = InsertTail(Remove(@, w), w)]

\* The callout runs for a window that may have been deleted.
RaiseSoon(s, w) ==
    LET t == [s EXCEPT !.soon = @ \ {w}]
    IN  IF s.focusQvwm = w THEN RaiseWindow(t, w, TRUE) ELSE t

SetOnTop(s, w) ==
    IF w \in s.ontop THEN s
    ELSE [s EXCEPT !.ontop = @ \cup {w}, !.onTopList = InsertTail(@, w)]
ResetOnTop(s, w) ==
    IF w \notin s.ontop THEN s
    ELSE [s EXCEPT !.ontop = @ \ {w}, !.onTopList = Remove(@, w)]

\* Gnome::ProcessLayerChange
ProcessLayerChange(s, w, layer) ==
    CASE layer = "WIN_LAYER_BELOW" -> LowerWindow(ResetOnTop(s, w), w)
      [] layer = "WIN_LAYER_NORMAL" -> ResetOnTop(s, w)
      [] layer = "WIN_LAYER_ONTOP" ->
            IF w \in s.ontop THEN s ELSE RaiseWindow(SetOnTop(s, w), w, TRUE)
-----------------------------------------------------------------------------
(* The functions of WindowOps, with the raising they do *)

MapRaised(s, w) == IF CheckMapped(s, w) THEN s ELSE RaiseWindow(MapWindows(s, w, TRUE), w, TRUE)

\* Restoring to normal takes ONTOP back with the other flags, and leaves onTopList.
Restore(s, w) ==
    LET t == RestoreWindow(s, w, TRUE)
        u == IF s.status[w] # {} /\ t.status[w] = {}
             THEN [t EXCEPT !.ontop = (@ \ {w}) \cup ({w} \cap s.ontopBak), !.ontopBak = @ \ {w}]
             ELSE t
    IN  IF w = Root \/ CheckMapped(s, w) \/ ~CheckMapped(t, w) THEN u
        ELSE RaiseWindow(u, w, TRUE)

SaveOnTop(s, w) == [s EXCEPT !.ontopBak = (@ \ {w}) \cup ({w} \cap s.ontop)]

Maximize(s, w) ==
    LET t == MaximizeWindow(IF s.status[w] = {} THEN SaveOnTop(s, w) ELSE s, w, TRUE)
    IN  IF w = Root \/ CheckMapped(s, w) \/ ~CheckMapped(t, w) THEN t
        ELSE RaiseWindow(t, w, TRUE)

Yield(s, w) ==
    LET t == YieldFocus(s, w)
    IN  IF ClickToFocus /\ t.focusQvwm # s.focusQvwm THEN RaiseWindow(t, t.focusQvwm, TRUE)
        ELSE t

FocusToCursor(s, pointer) ==
    LET t == ChangeFocusToCursor(s, pointer)
    IN  IF AutoRaise /\ pointer # Root /\ CheckMapped(s, pointer) THEN RaiseWindow(t, pointer, FALSE)
        ELSE t

Minimize(s, w, pointer) ==
    IF w = Root \/ Minimized(s, w) \/ "NO_TBUTTON" \in s.flags[w] THEN s
    ELSE LET t == [(IF Maximized(s, w) THEN s ELSE SaveOnTop(s, w))
                      EXCEPT !.status[w] = @ \cup {"MINIMIZE_WINDOW"},
                             !.flagsBak[w] = IF Maximized(s, w) THEN @ ELSE s.flags[w]]
             u == UnmapWindows(Yield(t, w), w, TRUE)
         IN  IF ClickToFocus THEN u ELSE FocusToCursor(u, pointer)

\* The constructor creates the frame above the others; GetWindowAttrs and
\* GetTransientForHint make the window ONTOP.
New(s, w) ==
    LET t == NewQvwm(s, w, FALSE)
        leader == t.qvMain[w]
        ontop == w \in InitOnTop \/ leader \in s.ontop
        u == [t EXCEPT !.zorder = InsertHead(@, w)]
    IN  IF ontop THEN SetOnTop(u, w) ELSE u

\* Event::DestroyQvwm; the destructor takes an ONTOP window off onTopList.
Destroy(s, w, pointer) ==
    LET t == IF w = s.focusQvwm THEN Yield(s, w) ELSE s
        u == UnmapWindows(t, w, TRUE)
        v == [u EXCEPT !.unmapList = Remove(@, w), !.mapList = Remove(@, w)]
        d == [ResetOnTop(DeleteQvwm(v, w), w) EXCEPT !.zorder = Remove(@, w),
                                                     !.ontopBak = @ \ {w}]
    IN  IF w = s.focusQvwm /\ ~ClickToFocus THEN FocusToCursor(d, pointer) ELSE d
=============================================================================
