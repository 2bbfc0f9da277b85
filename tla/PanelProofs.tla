------------------------------ MODULE PanelProofs ------------------------------
(***************************************************************************)
(* Menus, taskbar and tooltip, for any menus, delays and keys: every       *)
(* function leads from good states to good states, so every handler does,  *)
(* and so does every callout that runs after it.                           *)
(***************************************************************************)
EXTENDS Panel, TimerTheorems
-----------------------------------------------------------------------------
(* Good states *)

\* The start menu is mapped by StartMenu::MapMenu only, and not by Menu's, which a
\* QVWM_POPUP_MENU of its own would call.
StartShows == "Q_POPUP_MENU" \notin MenuKey \cup Range(Items["start"])

State ==
    [ coList : Callouts(Callback), mapped : [Menu -> BOOLEAN], child : [Menu -> Menu \cup {NULL}],
      created : SUBSET Menu, iFocus : [Menu -> Nat], delayMenuNum : [Menu -> Nat],
      xfocus : Menu \cup {NULL}, justMapped : BOOLEAN, umReserved : BOOLEAN,
      focusQvwm : {"root", "window"}, focusIcon : BOOLEAN, autoHide : BOOLEAN, hiding : BOOLEAN,
      tooltip : BOOLEAN, pointer : Place, notices : Seq({"Enter", "Leave"}) ]

Popup(m) == <<"PopupMenu", m>>

Focused(p) == \A m \in Menu : p.iFocus[m] \in Focusable(m) \cup {0}

\* A menu waits for one submenu, of an item of its own, and is on the screen.
Delays(p, m) == p.delayMenuNum[m] \in DOMAIN Items[m] /\ IsDir(m, p.delayMenuNum[m])
Popups(p) ==
    \A m \in Menu : /\ Once(p.coList, Popup(m))
                    /\ Waits(p.coList, Popup(m)) => p.mapped[m] /\ Delays(p, m)

Children(p) ==
    \A m \in Menu : p.child[m] # NULL => ParentOf[p.child[m]] = m /\ p.mapped[p.child[m]]

\* The start menu is not over a hidden bar, nor beside both of the menus that
\* UnmapAllMenus looks for before it.
Above(p) == p.mapped["start"] /\ p.autoHide => ~p.hiding
Pair(p) == p.mapped["desktop"] /\ p.mapped["window"]
Starts(p) == StartShows => Above(p) /\ (p.mapped["start"] => ~Pair(p))

Tips(p) == p.tooltip <=> Waits(p.coList, <<"UnmapTooltip">>)

Base == {p \in State : Focused(p) /\ Popups(p) /\ Children(p) /\ Starts(p)}
Good == {p \in Base : Tips(p)}

\* The start menu is alone, with respect to those two.
Alone(p) == StartShows /\ p.mapped["start"] => ~p.mapped["desktop"] /\ ~p.mapped["window"]

\* What r has on the screen was there in p, and the rest of the program is as it was.
Less(p, r) ==
    /\ \A m \in Menu : r.mapped[m] => p.mapped[m]
    /\ r.focusQvwm = p.focusQvwm /\ r.focusIcon = p.focusIcon /\ r.autoHide = p.autoHide
-----------------------------------------------------------------------------
(* Callbacks *)

\* The callbacks are told apart.
LEMMA Kinds ==
    /\ \A m \in Menu : Popup(m) \in Callback /\ <<"PopdownMenu", m>> \in Callback
    /\ \A cb \in {<<"ShowTaskbar">>, <<"HideTaskbar">>, <<"MapTooltip">>, <<"UnmapTooltip">>} :
          cb \in Callback /\ \A m : cb # Popup(m) /\ cb # <<"PopdownMenu", m>>
    /\ \A m, n : (Popup(m) = Popup(n) => m = n) /\ Popup(m) # <<"PopdownMenu", n>>
    /\ \A cb \in Callback :
          \/ \E m \in Menu : cb = Popup(m)
          \/ \E m \in Menu : cb = <<"PopdownMenu", m>>
          \/ cb \in {<<"ShowTaskbar">>, <<"HideTaskbar">>, <<"MapTooltip">>, <<"UnmapTooltip">>}
  BY DEF Popup, Callback

\* Items, submenus and their parents.
LEMMA Submenus ==
    /\ NULL \notin Menu /\ {"desktop", "window", "start"} \subseteq Menu
    /\ \A m \in Menu : ParentOf[m] \in Menu \cup {NULL}
    /\ \A m \in Menu : DOMAIN Items[m] = 1..Len(Items[m]) /\ Len(Items[m]) \in Nat
    /\ \A m \in Menu, i \in Nat :
          i \in DOMAIN Items[m] /\ IsDir(m, i) =>
             /\ Items[m][i] \in Menu \ RootMenu
             /\ ParentOf[Items[m][i]] = m
  <1>1. \A m \in Menu : DOMAIN Items[m] = 1..Len(Items[m]) /\ Len(Items[m]) \in Nat
    BY MenusType, LenProperties
  <1>2. \A c \in Menu : ParentOf[c] = IF \E m \in Menu : c \in Range(Items[m])
                                      THEN CHOOSE m \in Menu : c \in Range(Items[m]) ELSE NULL
    BY DEF ParentOf
  <1>3. \A c \in Menu : ParentOf[c] \in Menu \cup {NULL}
    BY <1>2
  <1>4. ASSUME NEW m \in Menu, NEW i \in DOMAIN Items[m], Items[m][i] \in Menu
        PROVE  ParentOf[Items[m][i]] = m
    <2> DEFINE c == Items[m][i]
    <2>1. c \in Range(Items[m])
      BY <1>4 DEF Range
    <2>2. ParentOf[c] \in Menu /\ c \in Range(Items[ParentOf[c]])
      BY <1>2, <1>4, <2>1
    <2>3. PICK j \in DOMAIN Items[ParentOf[c]] : Items[ParentOf[c]][j] = c
      BY <2>2 DEF Range
    <2> QED
      BY <1>4, <2>2, <2>3, SubmenusType
  <1>5. \A m \in Menu, i \in Nat :
          i \in DOMAIN Items[m] /\ IsDir(m, i) => Items[m][i] \in Menu \ RootMenu
    BY MenusType DEF IsDir
  <1> QED
    BY <1>1, <1>3, <1>4, <1>5, MenusType DEF IsDir
-----------------------------------------------------------------------------
(* The callout list *)

\* Another list, and the rest as it was.
LEMMA Relisted ==
    ASSUME NEW p \in State, NEW q \in Callouts(Callback)
    PROVE  LET r == [p EXCEPT !.coList = q]
           IN  /\ r \in State /\ r.coList = q /\ Less(p, r)
               /\ r.mapped = p.mapped /\ r.tooltip = p.tooltip /\ r.delayMenuNum = p.delayMenuNum
               /\ Focused(p) => Focused(r)
               /\ Children(p) => Children(r)
               /\ Starts(p) => Starts(r)
               /\ r.notices = p.notices /\ r.child = p.child /\ r.iFocus = p.iFocus
  <1> DEFINE r == [p EXCEPT !.coList = q]
  <1>1. r \in State /\ r.coList = q
    BY DEF State
  <1>2. /\ r.mapped = p.mapped /\ r.tooltip = p.tooltip /\ r.delayMenuNum = p.delayMenuNum
        /\ r.iFocus = p.iFocus /\ r.child = p.child /\ r.hiding = p.hiding
        /\ r.focusQvwm = p.focusQvwm /\ r.focusIcon = p.focusIcon /\ r.autoHide = p.autoHide
        /\ r.notices = p.notices
    BY DEF State
  <1>3. Less(p, r)
    BY <1>2 DEF Less
  <1> QED
    BY <1>1, <1>2, <1>3, Zenon DEF Focused, Children, Starts, Above, Pair

\* Fewer callouts, but the tooltip's last as before.
LEMMA FewerLead ==
    ASSUME NEW p \in Good, NEW q \in Callouts(Callback),
           \A m \in Menu : /\ Waits(q, Popup(m)) => Waits(p.coList, Popup(m))
                           /\ Once(p.coList, Popup(m)) => Once(q, Popup(m))
    PROVE  LET r == [p EXCEPT !.coList = q]
           IN  /\ r \in Base
               /\ (Waits(q, <<"UnmapTooltip">>) <=> Waits(p.coList, <<"UnmapTooltip">>)) => r \in Good
  <1> DEFINE r == [p EXCEPT !.coList = q]
  <1>1. p \in State /\ Focused(p) /\ Popups(p) /\ Children(p) /\ Starts(p) /\ Tips(p)
    BY DEF Good, Base
  <1>2. /\ r \in State /\ r.coList = q /\ r.mapped = p.mapped /\ r.tooltip = p.tooltip
        /\ r.delayMenuNum = p.delayMenuNum
        /\ Focused(r) /\ Children(r) /\ Starts(r)
    BY <1>1, Relisted
  <1> HIDE DEF r
  <1>3. Popups(r)
    BY <1>1, <1>2, Zenon DEF Popups, Delays
  <1>4. r \in Base
    BY <1>2, <1>3 DEF Base
  <1>5. (Waits(q, <<"UnmapTooltip">>) <=> Waits(p.coList, <<"UnmapTooltip">>)) => Tips(r)
    BY <1>1, <1>2 DEF Tips
  <1> QED
    BY <1>4, <1>5 DEF Good, r

\* A callout of a callback that is not a menu's, nor the tooltip's last.
LEMMA WaitLeads ==
    ASSUME NEW p \in Good, NEW msec \in Nat, NEW cb \in Callback,
           \A m \in Menu : cb # Popup(m), cb # <<"UnmapTooltip">>
    PROVE  LET r == Wait(p, msec, cb)
           IN  r \in Good /\ r.mapped = p.mapped /\ Less(p, r)
  <1> DEFINE q == InsertCallout(p.coList, msec, cb)
  <1>1. p.coList \in Callouts(Callback)
    BY DEF Good, Base, State
  <1>2. /\ q \in Callouts(Callback)
        /\ \A c : Waits(q, c) <=> c = cb \/ Waits(p.coList, c)
        /\ \A c : Once(p.coList, c) /\ (c = cb => ~Waits(p.coList, c)) => Once(q, c)
    BY <1>1, Inserted
  <1> HIDE DEF q
  <1>3. /\ \A m \in Menu : /\ Waits(q, Popup(m)) => Waits(p.coList, Popup(m))
                           /\ Once(p.coList, Popup(m)) => Once(q, Popup(m))
        /\ Waits(q, <<"UnmapTooltip">>) <=> Waits(p.coList, <<"UnmapTooltip">>)
    BY <1>2
  <1> DEFINE r == [p EXCEPT !.coList = q]
  <1>4. r \in Good
    BY <1>2, <1>3, FewerLead
  <1>5. r.mapped = p.mapped /\ Less(p, r)
    BY <1>2, Relisted DEF Good, Base
  <1>6. Wait(p, msec, cb) = r
    BY DEF Wait, q
  <1> HIDE DEF r
  <1> QED
    BY <1>4, <1>5, <1>6

\* A menu on the screen waits to pop up a submenu of its own.
LEMMA WaitPopupLeads ==
    ASSUME NEW p \in Good, NEW msec \in Nat, NEW m \in Menu,
           p.mapped[m], Delays(p, m), ~Waits(p.coList, Popup(m))
    PROVE  Wait(p, msec, Popup(m)) \in Good
  <1> DEFINE q == InsertCallout(p.coList, msec, Popup(m))
             r == [p EXCEPT !.coList = q]
  <1>1. p \in State /\ Focused(p) /\ Popups(p) /\ Children(p) /\ Starts(p) /\ Tips(p)
    BY DEF Good, Base
  <1>2. p.coList \in Callouts(Callback) /\ Popup(m) \in Callback
    BY <1>1, Kinds DEF State
  <1>3. /\ q \in Callouts(Callback)
        /\ \A c : Waits(q, c) <=> c = Popup(m) \/ Waits(p.coList, c)
        /\ \A c : Once(p.coList, c) /\ (c = Popup(m) => ~Waits(p.coList, c)) => Once(q, c)
    BY <1>2, Inserted
  <1> HIDE DEF q
  <1>4. /\ r \in State /\ r.coList = q /\ r.mapped = p.mapped /\ r.tooltip = p.tooltip
        /\ r.delayMenuNum = p.delayMenuNum
        /\ Focused(r) /\ Children(r) /\ Starts(r)
    BY <1>1, <1>3, Relisted
  <1> HIDE DEF r
  <1>5. Popups(r)
    <2> SUFFICES ASSUME NEW n \in Menu
                 PROVE  /\ Once(q, Popup(n))
                        /\ Waits(q, Popup(n)) => r.mapped[n] /\ Delays(r, n)
      BY <1>4, Zenon DEF Popups
    <2>1. Once(p.coList, Popup(n)) /\ (Waits(p.coList, Popup(n)) => p.mapped[n] /\ Delays(p, n))
      BY <1>1 DEF Popups
    <2>2. Delays(p, n) => Delays(r, n)
      BY <1>4 DEF Delays
    <2>3. Popup(n) = Popup(m) => n = m
      BY Kinds
    <2> QED
      BY <1>3, <1>4, <2>1, <2>2, <2>3
  <1>6. Tips(r)
    <2>1. <<"UnmapTooltip">> # Popup(m)
      BY Kinds
    <2> QED
      BY <1>1, <1>3, <1>4, <2>1 DEF Tips
  <1>7. r \in Good
    BY <1>4, <1>5, <1>6 DEF Good, Base
  <1> QED
    BY <1>7 DEF Wait, q, r

\* Callouts taken back; the menu whose popups went waits for none.
LEMMA CancelLeads ==
    ASSUME NEW p \in Good, NEW cb, cb # <<"UnmapTooltip">>
    PROVE  LET r == Cancel(p, cb)
           IN  /\ r \in Good /\ ~Waits(r.coList, cb)
               /\ r.mapped = p.mapped /\ r.child = p.child /\ r.iFocus = p.iFocus
               /\ Less(p, r)
  <1> DEFINE q == Without(p.coList, {cb})
             r == [p EXCEPT !.coList = q]
  <1>1. p.coList \in Callouts(Callback) /\ p \in State
    BY DEF Good, Base, State
  <1>2. /\ q \in Callouts(Callback)
        /\ \A c : Waits(q, c) <=> Waits(p.coList, c) /\ c \notin {cb}
        /\ \A c : Once(p.coList, c) => Once(q, c)
    BY <1>1, Cancelled
  <1> HIDE DEF q
  <1>3. r \in Good
    BY <1>2, FewerLead
  <1>4. /\ r.coList = q /\ Less(p, r)
        /\ r.mapped = p.mapped /\ r.child = p.child /\ r.iFocus = p.iFocus
    BY <1>1, <1>2, Relisted
  <1> HIDE DEF r
  <1>5. Cancel(p, cb) = r
    BY DEF Cancel, ResetTimeout, q, r
  <1> QED
    BY <1>2, <1>3, <1>4, <1>5
-----------------------------------------------------------------------------
(* Taskbar and tooltip *)

LEMMA ShowTaskbarLeads ==
    ASSUME NEW p \in Good
    PROVE  LET r == ShowTaskbar(p)
           IN  r \in Good /\ r.mapped = p.mapped /\ ~r.hiding /\ Less(p, r)
  <1>1. CASE ~p.hiding
    BY <1>1 DEF ShowTaskbar, Less
  <1>2. CASE p.hiding
    <2> DEFINE r == [p EXCEPT !.hiding = FALSE, !.notices = Append(p.notices, "Enter")]
    <2>1. p \in State /\ Focused(p) /\ Popups(p) /\ Children(p) /\ Starts(p) /\ Tips(p)
      BY DEF Good, Base
    <2>2. Append(p.notices, "Enter") \in Seq({"Enter", "Leave"})
      BY <2>1, AppendProperties DEF State
    <2>3. r \in State /\ r.hiding = FALSE
      BY <2>1, <2>2 DEF State
    <2>4. /\ r.coList = p.coList /\ r.mapped = p.mapped /\ r.tooltip = p.tooltip
          /\ r.delayMenuNum = p.delayMenuNum /\ r.iFocus = p.iFocus /\ r.child = p.child
          /\ r.focusQvwm = p.focusQvwm /\ r.focusIcon = p.focusIcon /\ r.autoHide = p.autoHide
      BY <2>1 DEF State
    <2>5. ShowTaskbar(p) = r
      BY <1>2 DEF ShowTaskbar
    <2> HIDE DEF r
    <2>6. Focused(r) /\ Popups(r) /\ Children(r) /\ Tips(r)
      BY <2>1, <2>4, Zenon DEF Focused, Popups, Delays, Children, Tips
    <2>7. Starts(r)
      BY <2>1, <2>3, <2>4 DEF Starts, Above, Pair
    <2>8. r \in Good
      BY <2>3, <2>6, <2>7 DEF Good, Base
    <2> QED
      BY <2>3, <2>4, <2>5, <2>8 DEF Less
  <1> QED
    BY <1>1, <1>2 DEF Good, Base, State

LEMMA HideTaskbarLeads ==
    ASSUME NEW p \in State, Focused(p), Popups(p), Children(p), Tips(p),
           StartShows => (p.mapped["start"] => ~Pair(p)),
           StartShows => Above(p) \/ ~p.mapped["start"]
    PROVE  LET r == HideTaskbar(p)
           IN  r \in Good /\ r.mapped = p.mapped /\ Less(p, r)
  <1>1. CASE p.hiding \/ p.mapped["start"]
    <2>1. Starts(p)
      BY <1>1 DEF Starts, Above
    <2>2. p \in Good
      BY <2>1 DEF Good, Base
    <2> QED
      BY <1>1, <2>2 DEF HideTaskbar, Less
  <1>2. CASE ~(p.hiding \/ p.mapped["start"])
    <2> DEFINE r == [p EXCEPT !.hiding = TRUE, !.notices = Append(p.notices, "Leave")]
    <2>2. Append(p.notices, "Leave") \in Seq({"Enter", "Leave"})
      BY AppendProperties DEF State
    <2>3. r \in State /\ r.hiding = TRUE
      BY <2>2 DEF State
    <2>4. /\ r.coList = p.coList /\ r.mapped = p.mapped /\ r.tooltip = p.tooltip
          /\ r.delayMenuNum = p.delayMenuNum /\ r.iFocus = p.iFocus /\ r.child = p.child
          /\ r.focusQvwm = p.focusQvwm /\ r.focusIcon = p.focusIcon /\ r.autoHide = p.autoHide
      BY DEF State
    <2>5. HideTaskbar(p) = r
      BY <1>2 DEF HideTaskbar
    <2> HIDE DEF r
    <2>6. Focused(r) /\ Popups(r) /\ Children(r) /\ Tips(r)
      BY <2>4, Zenon DEF Focused, Popups, Delays, Children, Tips
    <2>7. Starts(r)
      BY <1>2, <2>4 DEF Starts, Above, Pair
    <2>8. r \in Good
      BY <2>3, <2>6, <2>7 DEF Good, Base
    <2> QED
      BY <2>4, <2>5, <2>8 DEF Less
  <1> QED
    BY <1>1, <1>2

LEMMA HideLeads ==
    ASSUME NEW p \in Good
    PROVE  LET r == HideTaskbar(p)
           IN  r \in Good /\ r.mapped = p.mapped /\ Less(p, r)
  BY HideTaskbarLeads DEF Good, Base, Starts

\* The tooltip and its callout come and go together.
LEMMA MapTooltipLeads ==
    ASSUME NEW p \in Good
    PROVE  MapTooltip(p) \in Good
  <1> DEFINE q == InsertCallout(p.coList, TooltipDisplayTime, <<"UnmapTooltip">>)
             r == [p EXCEPT !.tooltip = TRUE, !.coList = q]
  <1>1. p \in State /\ Focused(p) /\ Popups(p) /\ Children(p) /\ Starts(p) /\ Tips(p)
    BY DEF Good, Base
  <1>2. /\ p.coList \in Callouts(Callback) /\ <<"UnmapTooltip">> \in Callback
        /\ TooltipDisplayTime \in Nat
    BY <1>1, Kinds, DelaysType DEF State
  <1>3. /\ q \in Callouts(Callback)
        /\ \A c : Waits(q, c) <=> c = <<"UnmapTooltip">> \/ Waits(p.coList, c)
        /\ \A c : Once(p.coList, c) /\ (c = <<"UnmapTooltip">> => ~Waits(p.coList, c)) => Once(q, c)
    BY <1>2, Inserted
  <1> HIDE DEF q
  <1>4. r \in State /\ r.coList = q /\ r.tooltip = TRUE
    BY <1>1, <1>3 DEF State
  <1>5. /\ r.mapped = p.mapped /\ r.hiding = p.hiding
        /\ r.delayMenuNum = p.delayMenuNum /\ r.iFocus = p.iFocus /\ r.child = p.child
        /\ r.autoHide = p.autoHide
    BY <1>1 DEF State
  <1>6. MapTooltip(p) = r
    BY <1>1 DEF MapTooltip, Wait, q, State
  <1> HIDE DEF r
  <1>7. \A m \in Menu : <<"UnmapTooltip">> # Popup(m)
    BY Kinds
  <1>8. Popups(r)
    BY <1>1, <1>3, <1>4, <1>5, <1>7 DEF Popups, Delays
  <1>9. Focused(r) /\ Children(r) /\ Starts(r)
    BY <1>1, <1>5, Zenon DEF Focused, Children, Starts, Above, Pair
  <1>10. Tips(r)
    BY <1>3, <1>4 DEF Tips
  <1> QED
    BY <1>4, <1>6, <1>8, <1>9, <1>10 DEF Good, Base

LEMMA UnmapTooltipLeads ==
    ASSUME NEW p \in Base
    PROVE  LET r == UnmapTooltip(p) IN r \in Good /\ r.mapped = p.mapped
  <1> DEFINE q == Without(p.coList, {<<"UnmapTooltip">>})
             r == [p EXCEPT !.tooltip = FALSE, !.coList = q]
  <1>1. p \in State /\ Focused(p) /\ Popups(p) /\ Children(p) /\ Starts(p)
    BY DEF Base
  <1>2. p.coList \in Callouts(Callback)
    BY <1>1 DEF State
  <1>3. /\ q \in Callouts(Callback)
        /\ \A c : Waits(q, c) <=> Waits(p.coList, c) /\ c \notin {<<"UnmapTooltip">>}
        /\ \A c : Once(p.coList, c) => Once(q, c)
    BY <1>2, Cancelled
  <1> HIDE DEF q
  <1>4. r \in State /\ r.coList = q /\ r.tooltip = FALSE
    BY <1>1, <1>3 DEF State
  <1>5. /\ r.mapped = p.mapped /\ r.hiding = p.hiding
        /\ r.delayMenuNum = p.delayMenuNum /\ r.iFocus = p.iFocus /\ r.child = p.child
        /\ r.autoHide = p.autoHide
    BY <1>1 DEF State
  <1>6. UnmapTooltip(p) = r
    BY <1>1 DEF UnmapTooltip, Cancel, ResetTimeout, q, State
  <1> HIDE DEF r
  <1>7. Popups(r)
    BY <1>1, <1>3, <1>4, <1>5 DEF Popups, Delays
  <1>8. Focused(r) /\ Children(r) /\ Starts(r)
    BY <1>1, <1>5, Zenon DEF Focused, Children, Starts, Above, Pair
  <1>9. Tips(r)
    BY <1>3, <1>4 DEF Tips
  <1> QED
    BY <1>4, <1>5, <1>6, <1>7, <1>8, <1>9 DEF Good, Base

LEMMA TimersLead ==
    ASSUME NEW p \in Good
    PROVE  SetTimer(p) \in Good /\ ResetTimer(p) \in Good
  <1>1. /\ <<"MapTooltip">> \in Callback /\ <<"MapTooltip">> # <<"UnmapTooltip">>
        /\ \A m \in Menu : <<"MapTooltip">> # Popup(m)
        /\ TooltipDelayTime \in Nat
    BY Kinds, DelaysType
  <1>2. \A q \in Good : SetTimer(q) \in Good
    BY <1>1, WaitLeads DEF SetTimer
  <1>3. Cancel(p, <<"MapTooltip">>) \in Good
    BY <1>1, CancelLeads
  <1> QED
    BY <1>2, <1>3 DEF ResetTimer

LEMMA DisableLeads ==
    ASSUME NEW p \in Good
    PROVE  LET r == Disable(p) IN r \in Good /\ r.mapped = p.mapped
  <1>1. Cancel(p, <<"MapTooltip">>) \in Good /\ Cancel(p, <<"MapTooltip">>).mapped = p.mapped
    BY CancelLeads
  <1>2. UnmapTooltip(p) \in Good /\ UnmapTooltip(p).mapped = p.mapped
    BY UnmapTooltipLeads DEF Good
  <1> QED
    BY <1>1, <1>2 DEF Disable
-----------------------------------------------------------------------------
(* Menus *)

LEMMA MapMenuLeads ==
    ASSUME NEW p \in Good, NEW m \in Menu,
           StartShows /\ m = "start" => (p.autoHide => ~p.hiding) /\ ~Pair(p),
           m \in {"desktop", "window"} => Alone(p)
    PROVE  MapMenu(p, m) \in Good
  <1> DEFINE f == [p.mapped EXCEPT ![m] = TRUE]
             r == [p EXCEPT !.justMapped = TRUE, !.mapped = f, !.xfocus = m]
  <1>1. p \in State /\ Focused(p) /\ Popups(p) /\ Children(p) /\ Starts(p) /\ Tips(p)
    BY DEF Good, Base
  <1>2. p.mapped \in [Menu -> BOOLEAN]
    BY <1>1 DEF State
  <1>3. f \in [Menu -> BOOLEAN] /\ \A x \in Menu : f[x] = (x = m \/ p.mapped[x])
    BY <1>2
  <1> HIDE DEF f
  <1>4. r \in State /\ r.mapped = f
    BY <1>1, <1>3 DEF State
  <1>5. /\ r.coList = p.coList /\ r.tooltip = p.tooltip /\ r.hiding = p.hiding
        /\ r.delayMenuNum = p.delayMenuNum /\ r.iFocus = p.iFocus /\ r.child = p.child
        /\ r.autoHide = p.autoHide
    BY <1>1 DEF State
  <1>6. MapMenu(p, m) = r
    BY <1>1 DEF MapMenu, f, State
  <1> HIDE DEF r
  <1>7. Focused(r) /\ Tips(r)
    BY <1>1, <1>5, Zenon DEF Focused, Tips
  <1>8. Popups(r)
    BY <1>1, <1>3, <1>4, <1>5 DEF Popups, Delays
  <1>9. Children(r)
    BY <1>1, <1>3, <1>4, <1>5 DEF Children, State
  <1>10. Starts(r)
    BY <1>1, <1>3, <1>4, <1>5, Submenus DEF Starts, Above, Pair, Alone
  <1> QED
    BY <1>4, <1>6, <1>7, <1>8, <1>9, <1>10 DEF Good, Base

LEMMA ExtractLeads ==
    ASSUME NEW p \in Good, NEW m \in Menu, NEW i \in DOMAIN Items[m], IsDir(m, i)
    PROVE  LET r == ExtractChildMenu(p, m, i)
           IN  r \in Good /\ r.child[m] = Items[m][i]
  <1> DEFINE c == Items[m][i]
             f == [p.mapped EXCEPT ![c] = TRUE]
             g == [p.child EXCEPT ![m] = c]
             r == [p EXCEPT !.child = g, !.created = p.created \cup {c},
                            !.justMapped = TRUE, !.mapped = f, !.xfocus = c]
  <1>1. p \in State /\ Focused(p) /\ Popups(p) /\ Children(p) /\ Starts(p) /\ Tips(p)
    BY DEF Good, Base
  <1>2. /\ p.mapped \in [Menu -> BOOLEAN] /\ p.child \in [Menu -> Menu \cup {NULL}]
        /\ p.created \in SUBSET Menu
    BY <1>1 DEF State
  <1>3. c \in Menu /\ c \notin RootMenu /\ ParentOf[c] = m
    BY Submenus, MenusType DEF IsDir
  <1> HIDE DEF c
  <1>4. /\ f \in [Menu -> BOOLEAN] /\ \A x \in Menu : f[x] = (x = c \/ p.mapped[x])
        /\ g \in [Menu -> Menu \cup {NULL}]
        /\ \A x \in Menu : g[x] = IF x = m THEN c ELSE p.child[x]
        /\ p.created \cup {c} \in SUBSET Menu
    BY <1>2, <1>3
  <1> HIDE DEF f, g
  <1>5. r \in State /\ r.mapped = f /\ r.child = g
    BY <1>1, <1>3, <1>4 DEF State
  <1>6. /\ r.coList = p.coList /\ r.tooltip = p.tooltip /\ r.hiding = p.hiding
        /\ r.delayMenuNum = p.delayMenuNum /\ r.iFocus = p.iFocus
        /\ r.autoHide = p.autoHide
    BY <1>1 DEF State
  <1>7. ExtractChildMenu(p, m, i) = r
    BY <1>1 DEF ExtractChildMenu, MapMenu, c, f, g, State
  <1> HIDE DEF r
  <1>8. Focused(r) /\ Tips(r)
    BY <1>1, <1>6, Zenon DEF Focused, Tips
  <1>9. Popups(r)
    BY <1>1, <1>4, <1>5, <1>6 DEF Popups, Delays
  <1>10. Children(r)
    BY <1>1, <1>3, <1>4, <1>5, Submenus DEF Children
  <1>11. Starts(r)
    BY <1>1, <1>3, <1>4, <1>5, <1>6, Submenus DEF Starts, Above, Pair, RootMenu
  <1> QED
    BY <1>4, <1>5, <1>7, <1>8, <1>9, <1>10, <1>11 DEF Good, Base, c

\* What is extracted from m: m, whatever a menu among them has for its child, and nothing else.
LEMMA ExtractedChain ==
    ASSUME NEW p \in State, NEW m \in Menu
    PROVE  LET gone == Extracted(p, m)
           IN  /\ m \in gone /\ gone \in SUBSET Menu
               /\ \A y \in gone : p.child[y] \in gone \cup {NULL}
               /\ \A c \in gone : c = m \/ \E y \in gone : p.child[y] = c
  <1> DEFINE Closed(S) == m \in S /\ \A y \in S : p.child[y] \in S \cup {NULL}
             gone == Extracted(p, m)
  <1>1. \A x : x \in gone <=> x \in Menu /\ \A S \in SUBSET Menu : Closed(S) => x \in S
    BY DEF Extracted
  <1>2. \A y \in Menu : p.child[y] \in Menu \cup {NULL}
    BY DEF State
  <1> HIDE DEF gone
  <1>3. m \in gone /\ gone \in SUBSET Menu
    BY <1>1
  <1>4. ASSUME NEW y \in gone
        PROVE  p.child[y] \in gone \cup {NULL}
    BY <1>1, <1>2, <1>4
  <1>5. ASSUME NEW c \in gone, c # m, \A y \in gone : p.child[y] # c
        PROVE  FALSE
    <2> DEFINE S == gone \ {c}
    <2>1. Closed(S)
      BY <1>3, <1>4, <1>5
    <2>2. S \in SUBSET Menu /\ c \notin S
      BY <1>3
    <2> QED
      BY <1>1, <1>5, <2>1, <2>2
  <1> QED
    BY <1>3, <1>4, <1>5 DEF gone

LEMMA UnmapMenuLeads ==
    ASSUME NEW p \in Good, NEW m \in Menu
    PROVE  LET r == UnmapMenu(p, m)
           IN  /\ r \in Good /\ Less(p, r) /\ ~r.mapped[m]
               /\ r.hiding = p.hiding /\ r.delayMenuNum = p.delayMenuNum
               /\ \A c : Waits(r.coList, c) => Waits(p.coList, c)
  <1> DEFINE gone == Extracted(p, m)
             q == Without(p.coList, {"PopupMenu"} \X gone)
             f == [x \in Menu |-> x \notin gone /\ p.mapped[x]]
             g == [x \in Menu |-> IF x \in gone \cup {ParentOf[m]} THEN NULL ELSE p.child[x]]
             h == [x \in Menu |-> IF x \in gone THEN 0 ELSE p.iFocus[x]]
             xf == FocusAfter(p, m)
             r == [p EXCEPT !.justMapped = FALSE, !.xfocus = xf, !.mapped = f, !.iFocus = h,
                            !.child = g, !.coList = q]
  <1>1. p \in State /\ Focused(p) /\ Popups(p) /\ Children(p) /\ Starts(p) /\ Tips(p)
    BY DEF Good, Base
  <1>2. /\ p.mapped \in [Menu -> BOOLEAN] /\ p.child \in [Menu -> Menu \cup {NULL}]
        /\ p.iFocus \in [Menu -> Nat] /\ p.coList \in Callouts(Callback)
    BY <1>1 DEF State
  <1>3. /\ m \in gone /\ gone \in SUBSET Menu
        /\ \A c \in gone : c = m \/ \E y \in gone : p.child[y] = c
    BY <1>1, ExtractedChain
  <1> HIDE DEF gone
  <1>4. /\ q \in Callouts(Callback)
        /\ \A c : Waits(q, c) <=> Waits(p.coList, c) /\ c \notin {"PopupMenu"} \X gone
        /\ \A c : Once(p.coList, c) => Once(q, c)
    BY <1>2, Cancelled
  <1>5. /\ f \in [Menu -> BOOLEAN] /\ \A x \in Menu : f[x] = (x \notin gone /\ p.mapped[x])
        /\ g \in [Menu -> Menu \cup {NULL}]
        /\ \A x \in Menu : g[x] = IF x \in gone \cup {ParentOf[m]} THEN NULL ELSE p.child[x]
        /\ h \in [Menu -> Nat] /\ \A x \in Menu : h[x] = IF x \in gone THEN 0 ELSE p.iFocus[x]
    BY <1>2
  <1>6. xf \in Menu \cup {NULL}
    BY Submenus DEF FocusAfter
  <1>7. UnmapMenu(p, m) = r
    BY <1>1 DEF UnmapMenu, gone, q, f, g, h, xf, State
  <1> HIDE DEF q, f, g, h, xf
  <1>8. r \in State
    BY <1>1, <1>4, <1>5, <1>6 DEF State
  <1>9. r.mapped = f /\ r.child = g /\ r.iFocus = h /\ r.coList = q
    BY <1>1 DEF State
  <1>10. /\ r.tooltip = p.tooltip /\ r.hiding = p.hiding /\ r.delayMenuNum = p.delayMenuNum
         /\ r.focusQvwm = p.focusQvwm /\ r.focusIcon = p.focusIcon /\ r.autoHide = p.autoHide
    BY <1>1 DEF State
  <1> HIDE DEF r
  <1>11. Focused(r)
    BY <1>1, <1>5, <1>9 DEF Focused
  <1>12. Popups(r)
    <2> SUFFICES ASSUME NEW x \in Menu
                 PROVE  /\ Once(q, Popup(x))
                        /\ Waits(q, Popup(x)) => f[x] /\ Delays(r, x)
      BY <1>9, Zenon DEF Popups
    <2>1. Once(p.coList, Popup(x)) /\ (Waits(p.coList, Popup(x)) => p.mapped[x] /\ Delays(p, x))
      BY <1>1 DEF Popups
    <2>2. Waits(q, Popup(x)) => Waits(p.coList, Popup(x)) /\ x \notin gone
      BY <1>4 DEF Popup
    <2>3. Delays(p, x) => Delays(r, x)
      BY <1>10 DEF Delays
    <2> QED
      BY <1>4, <1>5, <2>1, <2>2, <2>3
  <1>13. Children(r)
    <2> SUFFICES ASSUME NEW x \in Menu, g[x] # NULL
                 PROVE  ParentOf[g[x]] = x /\ f[g[x]]
      BY <1>9 DEF Children
    <2>1. x \notin gone /\ x # ParentOf[m] /\ g[x] = p.child[x]
      BY <1>5
    <2>2. ParentOf[g[x]] = x /\ p.mapped[g[x]] /\ g[x] \in Menu
      BY <1>1, <1>2, <2>1 DEF Children
    <2>3. g[x] \notin gone
      BY <1>1, <1>3, <2>1, <2>2, Submenus DEF Children
    <2> QED
      BY <1>5, <2>2, <2>3
  <1>14. Starts(r)
    BY <1>1, <1>5, <1>9, <1>10, Submenus DEF Starts, Above, Pair
  <1>15. Tips(r)
    <2>1. <<"UnmapTooltip">> \notin {"PopupMenu"} \X gone
      OBVIOUS
    <2> QED
      BY <1>1, <1>4, <1>9, <1>10, <2>1 DEF Tips
  <1>16. Less(p, r)
    BY <1>5, <1>9, <1>10 DEF Less
  <1>17. r \in Good
    BY <1>8, <1>11, <1>12, <1>13, <1>14, <1>15 DEF Good, Base
  <1> QED
    BY <1>3, <1>4, <1>5, <1>7, <1>9, <1>10, <1>16, <1>17

\* A menu that waits for a submenu gets it, in the place of the one it has.
LEMMA PopupMenuLeads ==
    ASSUME NEW p \in Good, NEW m \in Menu, Delays(p, m)
    PROVE  PopupMenu(p, m) \in Good
  <1> DEFINE q == IF p.child[m] = NULL THEN p ELSE UnmapMenu(p, p.child[m])
  <1>1. p.child[m] \in Menu \cup {NULL}
    BY DEF Good, Base, State
  <1>2. q \in Good /\ q.delayMenuNum = p.delayMenuNum
    BY <1>1, UnmapMenuLeads
  <1>3. ExtractChildMenu(q, m, p.delayMenuNum[m]) \in Good
    BY <1>2, ExtractLeads DEF Delays
  <1> QED
    BY <1>3 DEF PopupMenu

\* A callout that is off the list: the submenu to pop up is still known, and only the one
\* that takes the tooltip away has left it alone on the screen.
LEMMA ExecuteLeads ==
    ASSUME NEW p \in Base, NEW cb \in Callback,
           cb = <<"UnmapTooltip">> \/ Tips(p),
           \A m \in Menu : cb = Popup(m) => Delays(p, m)
    PROVE  Execute(p, cb) \in Good
  <1>1. CASE cb = <<"UnmapTooltip">>
    BY <1>1, UnmapTooltipLeads DEF Execute
  <1>2. ASSUME cb # <<"UnmapTooltip">>
        PROVE  p \in Good
    BY <1>2 DEF Good
  <1>3. CASE cb = <<"MapTooltip">>
    BY <1>2, <1>3, MapTooltipLeads DEF Execute
  <1>4. CASE cb = <<"ShowTaskbar">>
    BY <1>2, <1>4, ShowTaskbarLeads DEF Execute
  <1>5. CASE cb = <<"HideTaskbar">>
    BY <1>2, <1>5, HideLeads DEF Execute
  <1>6. ASSUME NEW m \in Menu, cb = Popup(m)
        PROVE  Execute(p, cb) \in Good
    <2>1. p \in Good
      BY <1>2, <1>6, Kinds
    <2>2. Execute(p, cb) = PopupMenu(p, m)
      BY <1>6 DEF Execute, Popup
    <2> QED
      BY <1>6, <2>1, <2>2, PopupMenuLeads
  <1>7. ASSUME NEW m \in Menu, cb = <<"PopdownMenu", m>>
        PROVE  Execute(p, cb) \in Good
    <2>1. p \in Good
      BY <1>2, <1>7, Kinds
    <2>2. Execute(p, cb) = UnmapMenu(p, m)
      BY <1>7 DEF Execute
    <2> QED
      BY <1>7, <2>1, <2>2, UnmapMenuLeads
  <1> QED
    BY <1>1, <1>3, <1>4, <1>5, <1>6, <1>7, Kinds

\* A callout set for later, or done at once.
LEMMA SetTimeoutLeads ==
    ASSUME NEW p \in Good, NEW msec \in Nat, NEW cb \in Callback,
           \A m \in Menu : cb # Popup(m), cb # <<"UnmapTooltip">>
    PROVE  SetTimeout(p, msec, cb) \in Good
  <1>1. p \in Base /\ Tips(p)
    BY DEF Good
  <1>2. Execute(p, cb) \in Good
    BY <1>1, ExecuteLeads
  <1>3. Wait(p, msec, cb) \in Good
    BY WaitLeads
  <1> QED
    BY <1>2, <1>3 DEF SetTimeout

LEMMA HideLaterLeads ==
    ASSUME NEW p \in Good
    PROVE  LET r == SetTimeout(p, TaskbarHideDelay, <<"HideTaskbar">>)
           IN  r \in Good /\ r.mapped = p.mapped /\ Less(p, r)
  <1> DEFINE a == Execute(p, <<"HideTaskbar">>)
             b == Wait(p, TaskbarHideDelay, <<"HideTaskbar">>)
  <1>1. /\ TaskbarHideDelay \in Nat /\ <<"HideTaskbar">> \in Callback
        /\ <<"HideTaskbar">> # <<"UnmapTooltip">> /\ \A m \in Menu : <<"HideTaskbar">> # Popup(m)
    BY Kinds, DelaysType
  <1>2. a = HideTaskbar(p)
    BY DEF Execute
  <1>3. a \in Good /\ a.mapped = p.mapped /\ Less(p, a)
    BY <1>2, HideLeads
  <1>4. b \in Good /\ b.mapped = p.mapped /\ Less(p, b)
    BY <1>1, WaitLeads
  <1>5. SetTimeout(p, TaskbarHideDelay, <<"HideTaskbar">>) \in {a, b}
    BY DEF SetTimeout
  <1> HIDE DEF a, b
  <1> QED
    BY <1>3, <1>4, <1>5

\* k steps from p, the nth of them h[n].
Repeats(S, p, h, k) == \E f \in [0..k -> S] : f[0] = p /\ \A n \in 1..k : f[n] = h[n][f[n - 1]]

LEMMA Repeated ==
    ASSUME NEW S, NEW p \in S, NEW h \in [Nat -> [S -> S]], NEW k \in Nat
    PROVE  Repeats(S, p, h, k)
  <1> DEFINE Done(n) == \E f \in [0..n -> S] : f[0] = p /\ \A x \in 1..n : f[x] = h[x][f[x - 1]]
             undone == {n \in Nat : ~Done(n)}
  <1> SUFFICES ASSUME undone # {}
               PROVE  FALSE
    BY Zenon DEF Repeats
  <1>1. PICK least \in undone : \A n \in undone : least <= n
    BY LeastExists
  <1>2. least # 0
    <2> DEFINE f == [n \in 0..0 |-> p]
    <2>1. f \in [0..0 -> S] /\ f[0] = p /\ \A x \in 1..0 : f[x] = h[x][f[x - 1]]
      OBVIOUS
    <2>2. Done(0)
      BY <2>1, Zenon
    <2> HIDE DEF Done
    <2>3. 0 \notin undone
      BY <2>2
    <2> QED
      BY <1>1, <2>3
  <1>3. least - 1 \in Nat /\ Done(least - 1) /\ least \in Nat
    <2>1. \A n \in Nat : n \notin undone => Done(n)
      OBVIOUS
    <2>2. least \in Nat
      BY <1>1
    <2> HIDE DEF undone, Done
    <2>3. least - 1 \in Nat /\ ~(least <= least - 1)
      BY <1>2, <2>2
    <2> QED
      BY <1>1, <2>1, <2>2, <2>3
  <1>4. PICK f \in [0..(least - 1) -> S] :
            f[0] = p /\ \A x \in 1..(least - 1) : f[x] = h[x][f[x - 1]]
    BY <1>3
  <1> DEFINE g == [n \in 0..least |-> IF n = least THEN h[least][f[least - 1]] ELSE f[n]]
  <1>5. h[least][f[least - 1]] \in S
    BY <1>3, <1>4
  <1>6. g \in [0..least -> S] /\ g[0] = p
    BY <1>2, <1>3, <1>4, <1>5
  <1>7. ASSUME NEW x \in 1..least
        PROVE  g[x] = h[x][g[x - 1]]
    <2>1. g[x - 1] = f[x - 1]
      BY <1>3
    <2>2. CASE x = least
      BY <1>3, <2>1, <2>2
    <2>3. CASE x # least
      BY <1>3, <1>4, <2>1, <2>3
    <2> QED
      BY <2>2, <2>3
  <1>8. Done(least)
    BY <1>6, <1>7, Zenon
  <1> QED
    BY <1>1, <1>8

LEMMA RunNextLeads ==
    ASSUME NEW p \in Good, NEW forced
    PROVE  RunNext(p, forced) \in Good
  <1> DEFINE due == Overdue(p, forced)
             k == Min(due)
             q == RemoveAt(p.coList, k)
             r == [p EXCEPT !.coList = q]
             cb == p.coList[k].cb
  <1>1. CASE due = {}
    BY <1>1 DEF RunNext
  <1>2. CASE due # {}
    <2>1. p \in State /\ p.coList \in Callouts(Callback) /\ Popups(p) /\ Tips(p)
      BY DEF Good, Base, State
    <2>2. due \subseteq DOMAIN p.coList
      BY DEF Overdue, Expired, CalloutsOf
    <2>3. DOMAIN p.coList \subseteq Nat
      BY <2>1 DEF Callouts
    <2>4. k \in DOMAIN p.coList
      BY <1>2, <2>2, <2>3, MinIsLeast
    <2>5. /\ q \in Callouts(Callback)
          /\ \A c : Waits(q, c) => Waits(p.coList, c)
          /\ \A c : Waits(p.coList, c) /\ c # cb => Waits(q, c)
          /\ \A c : Once(p.coList, c) => Once(q, c)
      BY <2>1, <2>4, TakenOut
    <2>6. cb \in Callback /\ Waits(p.coList, cb)
      <3>1. p.coList[k] \in [cb : Callback, left : Nat]
        BY <2>1, <2>4, ElementOfSeq, LenProperties DEF Callouts
      <3> QED
        BY <2>4, <3>1 DEF Waits
    <2>7. RunNext(p, forced) = Execute(r, cb)
      BY <1>2 DEF RunNext
    <2> HIDE DEF due, k, q
    <2>8. r \in Base /\ (cb # <<"UnmapTooltip">> => r \in Good)
      BY <2>5, FewerLead
    <2>9. r.delayMenuNum = p.delayMenuNum
      BY <2>1, <2>5, Relisted
    <2> HIDE DEF r, cb
    <2>10. \A m \in Menu : cb = Popup(m) => Delays(r, m)
      BY <2>1, <2>6, <2>9 DEF Popups, Delays
    <2> QED
      BY <2>6, <2>7, <2>8, <2>10, ExecuteLeads DEF Good
  <1> QED
    BY <1>1, <1>2

LEMMA RunCalloutsLeads ==
    ASSUME NEW p \in Good, NEW forced
    PROVE  RunCallouts(p, forced) \in Good
  <1> DEFINE k == Len(p.coList)
             h == [n \in Nat |-> [q \in Good |-> RunNext(q, forced)]]
             Runs(f) == f = [n \in 0..k |-> IF n = 0 THEN p ELSE RunNext(f[n - 1], forced)]
             run == CHOOSE f : Runs(f)
  <1>1. k \in Nat
    BY LenProperties DEF Good, Base, State, Callouts
  <1>2. h \in [Nat -> [Good -> Good]]
    BY RunNextLeads
  <1>3. \A n \in Nat, q \in Good : h[n][q] = RunNext(q, forced)
    OBVIOUS
  <1>4. RunCallouts(p, forced) = run[k]
    BY Zenon DEF RunCallouts
  <1> HIDE DEF h, k
  <1>5. PICK f \in [0..k -> Good] : f[0] = p /\ \A n \in 1..k : f[n] = h[n][f[n - 1]]
    <2>1. Repeats(Good, p, h, k)
      BY <1>1, <1>2, Repeated
    <2> QED
      BY <2>1, Zenon DEF Repeats
  <1>6. Runs(f)
    <2>1. \A n \in 0..k : f[n] = IF n = 0 THEN p ELSE RunNext(f[n - 1], forced)
      BY <1>1, <1>3, <1>5
    <2> QED
      BY <1>5, <2>1
  <1>7. Runs(run)
    BY <1>6, Zenon
  <1> HIDE DEF run
  <1>8. run[0] = p /\ \A n \in 1..k : run[n] = RunNext(run[n - 1], forced)
    BY <1>1, <1>7
  <1> DEFINE bad == {n \in 0..k : run[n] \notin Good}
  <1>9. bad = {}
    <2> SUFFICES ASSUME bad # {}
                 PROVE  FALSE
      OBVIOUS
    <2>1. PICK least \in bad : \A n \in bad : least <= n
      <3>1. bad \in SUBSET Nat
        BY <1>1
      <3> HIDE DEF bad
      <3> QED
        BY <3>1, LeastExists
    <2>2. least # 0 /\ least \in 1..k /\ least - 1 \in 0..k
      BY <1>1, <1>8, <2>1
    <2>3. run[least - 1] \in Good
      BY <2>1, <2>2
    <2> QED
      BY <1>8, <2>1, <2>2, <2>3, RunNextLeads
  <1> QED
    BY <1>1, <1>4, <1>9
-----------------------------------------------------------------------------
(* Closing what is open *)

LEMMA LessIsTransitive ==
    ASSUME NEW p, NEW q, NEW r, Less(p, q), Less(q, r)
    PROVE  Less(p, r)
  BY DEF Less

LEMMA CloseMenuLeads ==
    ASSUME NEW p \in Good, NEW m \in Menu
    PROVE  LET r == CloseMenu(p, m)
           IN  r \in Good /\ Less(p, r) /\ ~r.mapped[m]
  <1>1. PICK q : q = UnmapMenu(p, m)
    OBVIOUS
  <1>2. q \in Good /\ Less(p, q) /\ ~q.mapped[m]
    BY <1>1, UnmapMenuLeads
  <1>3. PICK r : r = SetTimeout(q, TaskbarHideDelay, <<"HideTaskbar">>)
    OBVIOUS
  <1>4. r \in Good /\ r.mapped = q.mapped /\ Less(q, r)
    BY <1>2, <1>3, HideLaterLeads
  <1>5. Less(p, r)
    BY <1>2, <1>4, LessIsTransitive
  <1>6. CloseMenu(p, m) \in {q, r}
    BY <1>1, <1>3 DEF CloseMenu
  <1> QED
    BY <1>2, <1>4, <1>5, <1>6

\* The menus UnmapAllMenus looks at begin with these three.
LEMMA OrderBegins ==
    ASSUME NEW first, NEW focusIcon
    PROVE  LET order == <<first, "window", "start">>
                        \o (IF focusIcon THEN <<"icon">> ELSE <<>>) \o <<"taskbar">>
           IN  /\ DOMAIN order \in SUBSET Nat /\ 0 \notin DOMAIN order
               /\ {1, 2, 3} \subseteq DOMAIN order
               /\ order[1] = first /\ order[2] = "window" /\ order[3] = "start"
  <1> DEFINE S == {first, "window", "start", "icon", "taskbar"}
             head == <<first, "window", "start">>
             mid == IF focusIcon THEN <<"icon">> ELSE <<>>
             x == head \o mid
             order == x \o <<"taskbar">>
  <1>1. /\ head \in Seq(S) /\ Len(head) = 3
        /\ head[1] = first /\ head[2] = "window" /\ head[3] = "start"
    OBVIOUS
  <1>2. mid \in Seq(S) /\ <<"taskbar">> \in Seq(S) /\ Len(<<"taskbar">>) = 1
    <2>1. <<"icon">> \in Seq(S) /\ <<"taskbar">> \in Seq(S) /\ Len(<<"taskbar">>) = 1
      OBVIOUS
    <2>2. <<>> \in Seq(S)
      OBVIOUS
    <2> QED
      BY <2>1, <2>2
  <1> HIDE DEF S, head, mid
  <1>3. /\ x \in Seq(S) /\ Len(x) = 3 + Len(mid) /\ Len(mid) \in Nat
        /\ \A i \in {1, 2, 3} : x[i] = head[i]
    <2>1. Len(mid) \in Nat
      BY <1>2, LenProperties
    <2>2. /\ x \in Seq(S) /\ Len(x) = Len(head) + Len(mid)
          /\ \A i \in 1..(Len(head) + Len(mid)) :
                x[i] = IF i <= Len(head) THEN head[i] ELSE mid[i - Len(head)]
      BY <1>1, <1>2, ConcatProperties
    <2> HIDE DEF x
    <2> QED
      BY <1>1, <2>1, <2>2
  <1> HIDE DEF x
  <1>4. /\ order \in Seq(S) /\ Len(order) = 4 + Len(mid)
        /\ \A i \in {1, 2, 3} : order[i] = x[i]
    BY <1>2, <1>3, ConcatProperties, LenProperties
  <1> HIDE DEF order
  <1>5. DOMAIN order = 1..(4 + Len(mid))
    BY <1>4, LenProperties
  <1>6. /\ DOMAIN order \in SUBSET Nat /\ 0 \notin DOMAIN order /\ {1, 2, 3} \subseteq DOMAIN order
        /\ order[1] = first /\ order[2] = "window" /\ order[3] = "start"
    BY <1>1, <1>3, <1>4, <1>5
  <1> QED
    BY <1>6 DEF order, x, head, mid

\* UnmapAllMenus closes one menu, and leaves the start menu alone.
LEMMA UnmapAllLeads ==
    ASSUME NEW p \in Good, NEW hideTaskbar
    PROVE  LET r == UnmapAllMenus(p, hideTaskbar)
           IN  /\ r \in Good /\ Less(p, r) /\ Alone(r) /\ ~Pair(r)
               /\ StartShows /\ Alone(p) => ~r.mapped["start"]
  <1> DEFINE order == <<FocusMenu(p), "window", "start">>
                      \o (IF p.focusIcon THEN <<"icon">> ELSE <<>>) \o <<"taskbar">>
             open == {i \in DOMAIN order : order[i] \in Menu /\ p.mapped[order[i]]}
             k == Min(open)
  <1>1. /\ DOMAIN order \in SUBSET Nat /\ 0 \notin DOMAIN order
        /\ {1, 2, 3} \subseteq DOMAIN order
        /\ order[1] = FocusMenu(p) /\ order[2] = "window" /\ order[3] = "start"
    BY OrderBegins
  <1>2. PICK q : q = IF open = {} THEN p ELSE CloseMenu(p, order[k])
    OBVIOUS
  <1>3. UnmapAllMenus(p, hideTaskbar) = IF hideTaskbar /\ q.autoHide THEN HideTaskbar(q) ELSE q
    BY <1>2, Zenon DEF UnmapAllMenus
  <1> HIDE DEF order
  <1>4. open # {} => k \in open /\ \A i \in open : k <= i
    <2>1. open \in SUBSET Nat
      BY <1>1
    <2> HIDE DEF open
    <2> QED
      BY <2>1, MinIsLeast
  <1>5. /\ open # {} => /\ k \in DOMAIN order /\ order[k] \in Menu
                        /\ \A i \in {1, 2, 3} : order[i] \in Menu /\ p.mapped[order[i]] => k <= i
        /\ open = {} => \A i \in {1, 2, 3} : ~(order[i] \in Menu /\ p.mapped[order[i]])
    BY <1>1, <1>4
  <1> HIDE DEF open, k
  <1>6. q \in Good /\ Less(p, q) /\ (open # {} => ~q.mapped[order[k]])
    <2>1. CASE open = {}
      BY <1>2, <2>1 DEF Less
    <2>2. CASE open # {}
      BY <1>2, <1>5, <2>2, CloseMenuLeads
    <2> QED
      BY <2>1, <2>2
  <1>7. FocusMenu(p) \in {"desktop", "window"} /\ {"desktop", "window", "start"} \subseteq Menu
    BY Submenus DEF FocusMenu
  <1>8. /\ open # {} => k \in Nat \ {0}
        /\ p.mapped[FocusMenu(p)] => open # {} /\ k = 1
        /\ ~p.mapped[FocusMenu(p)] /\ p.mapped["window"] => open # {} /\ k = 2
        /\ ~p.mapped[FocusMenu(p)] /\ ~p.mapped["window"] /\ p.mapped["start"] => open # {} /\ k = 3
    <2>1. open # {} => k \in Nat \ {0} /\ p.mapped[order[k]]
      BY <1>1, <1>4, <1>5 DEF open
    <2>2. \A i \in {1, 2, 3} : order[i] \in Menu
      BY <1>1, <1>7
    <2>3. p.mapped[FocusMenu(p)] => open # {} /\ k = 1
      BY <1>1, <1>5, <2>1, <2>2
    <2>4. ~p.mapped[FocusMenu(p)] /\ p.mapped["window"] => open # {} /\ k = 2
      BY <1>1, <1>5, <2>1, <2>2
    <2>5. ~p.mapped[FocusMenu(p)] /\ ~p.mapped["window"] /\ p.mapped["start"] => open # {} /\ k = 3
      BY <1>1, <1>5, <2>1, <2>2
    <2> QED
      BY <2>1, <2>3, <2>4, <2>5
  <1>9. StartShows => (p.mapped["start"] => ~Pair(p))
    BY DEF Good, Base, Starts
  <1>10. Alone(q) /\ ~Pair(q) /\ (StartShows /\ Alone(p) => ~q.mapped["start"])
    <2>1. \A m \in Menu : q.mapped[m] => p.mapped[m]
      BY <1>6 DEF Less
    <2>2. ~Pair(q)
      BY <1>1, <1>6, <1>7, <1>8, <2>1 DEF Pair
    <2>3. Alone(q)
      BY <1>1, <1>6, <1>7, <1>8, <1>9, <2>1 DEF Pair, Alone
    <2>4. StartShows /\ Alone(p) => ~q.mapped["start"]
      BY <1>1, <1>6, <1>7, <1>8, <2>1 DEF Alone
    <2> QED
      BY <2>2, <2>3, <2>4
  <1>11. PICK r : r = HideTaskbar(q)
    OBVIOUS
  <1>12. r \in Good /\ r.mapped = q.mapped /\ Less(q, r)
    BY <1>6, <1>11, HideLeads
  <1>13. Less(p, r) /\ Alone(r) /\ ~Pair(r) /\ (StartShows /\ Alone(p) => ~r.mapped["start"])
    BY <1>6, <1>10, <1>12, LessIsTransitive DEF Alone, Pair
  <1>14. UnmapAllMenus(p, hideTaskbar) \in {q, r}
    BY <1>3, <1>11
  <1> QED
    BY <1>6, <1>10, <1>12, <1>13, <1>14

\* Fields the invariant does not speak of.
LEMMA SetFocusLeads ==
    ASSUME NEW p \in Good, NEW w \in {"root", "window"}
    PROVE  LET r == SetFocus(p, w)
           IN  /\ r \in Good /\ r.mapped = p.mapped
               /\ r.hiding = p.hiding /\ r.autoHide = p.autoHide
  <1> DEFINE icon == p.focusIcon /\ w = "root"
             r == [p EXCEPT !.focusQvwm = w, !.focusIcon = icon]
  <1>1. p \in State /\ Focused(p) /\ Popups(p) /\ Children(p) /\ Starts(p) /\ Tips(p)
    BY DEF Good, Base
  <1>2. icon \in BOOLEAN
    OBVIOUS
  <1>3. SetFocus(p, w) = r
    BY <1>1 DEF SetFocus, State
  <1> HIDE DEF icon
  <1>4. r \in State
    BY <1>1, <1>2 DEF State
  <1>5. /\ r.coList = p.coList /\ r.mapped = p.mapped /\ r.tooltip = p.tooltip
        /\ r.hiding = p.hiding /\ r.delayMenuNum = p.delayMenuNum /\ r.iFocus = p.iFocus
        /\ r.child = p.child /\ r.autoHide = p.autoHide
    BY <1>1 DEF State
  <1> HIDE DEF r
  <1>6. Focused(r) /\ Popups(r) /\ Children(r) /\ Starts(r) /\ Tips(r)
    BY <1>1, <1>5, Zenon DEF Focused, Popups, Delays, Children, Starts, Above, Pair, Tips
  <1> QED
    BY <1>3, <1>4, <1>5, <1>6 DEF Good, Base

LEMMA MapStartMenuLeads ==
    ASSUME NEW p \in Good, ~Pair(p)
    PROVE  MapStartMenu(p) \in Good
  <1>1. PICK q : q = IF p.autoHide THEN ShowTaskbar(p) ELSE p
    OBVIOUS
  <1>2. /\ q \in Good /\ q.mapped = p.mapped /\ q.autoHide = p.autoHide
        /\ p.autoHide => ~q.hiding
    BY <1>1, ShowTaskbarLeads DEF Less
  <1>3. PICK r : r = SetFocus(q, "root")
    OBVIOUS
  <1>4. r \in Good /\ r.mapped = p.mapped /\ (r.autoHide => ~r.hiding)
    BY <1>2, <1>3, SetFocusLeads
  <1>5. MapMenu(r, "start") \in Good
    BY <1>4, MapMenuLeads, Submenus DEF Pair
  <1> QED
    BY <1>1, <1>3, <1>5 DEF MapStartMenu
-----------------------------------------------------------------------------
(* The pointer on a menu *)

\* The focus goes to an item that can have it, or to none.
LEMMA FocusItemLeads ==
    ASSUME NEW p \in Good, NEW m \in Menu, NEW i \in Focusable(m) \cup {0}
    PROVE  LET r == [p EXCEPT !.iFocus[m] = i]
           IN  r \in Good /\ r.mapped = p.mapped /\ r.child = p.child
  <1> DEFINE f == [p.iFocus EXCEPT ![m] = i]
             r == [p EXCEPT !.iFocus = f]
  <1>1. p \in State /\ Focused(p) /\ Popups(p) /\ Children(p) /\ Starts(p) /\ Tips(p)
    BY DEF Good, Base
  <1>2. i \in Nat
    BY Submenus DEF Focusable
  <1>3. f \in [Menu -> Nat] /\ \A x \in Menu : f[x] = IF x = m THEN i ELSE p.iFocus[x]
    BY <1>1, <1>2 DEF State
  <1>4. [p EXCEPT !.iFocus[m] = i] = r
    OBVIOUS
  <1> HIDE DEF f
  <1>5. r \in State /\ r.iFocus = f
    BY <1>1, <1>3 DEF State
  <1>6. /\ r.coList = p.coList /\ r.mapped = p.mapped /\ r.tooltip = p.tooltip
        /\ r.hiding = p.hiding /\ r.delayMenuNum = p.delayMenuNum
        /\ r.child = p.child /\ r.autoHide = p.autoHide
    BY <1>1 DEF State
  <1> HIDE DEF r
  <1>7. Popups(r) /\ Children(r) /\ Starts(r) /\ Tips(r)
    BY <1>1, <1>6, Zenon DEF Popups, Delays, Children, Starts, Above, Pair, Tips
  <1>8. Focused(r)
    BY <1>1, <1>3, <1>5 DEF Focused
  <1> QED
    BY <1>4, <1>5, <1>6, <1>7, <1>8 DEF Good, Base

\* The submenu to pop up is chosen while the menu waits for none.
LEMMA DelayItemLeads ==
    ASSUME NEW p \in Good, NEW m \in Menu, NEW i \in DOMAIN Items[m], IsDir(m, i),
           ~Waits(p.coList, Popup(m))
    PROVE  LET r == [p EXCEPT !.delayMenuNum[m] = i]
           IN  r \in Good /\ r.mapped = p.mapped /\ r.coList = p.coList /\ Delays(r, m)
  <1> DEFINE f == [p.delayMenuNum EXCEPT ![m] = i]
             r == [p EXCEPT !.delayMenuNum = f]
  <1>1. p \in State /\ Focused(p) /\ Popups(p) /\ Children(p) /\ Starts(p) /\ Tips(p)
    BY DEF Good, Base
  <1>2. i \in Nat
    BY Submenus
  <1>3. f \in [Menu -> Nat] /\ \A x \in Menu : f[x] = IF x = m THEN i ELSE p.delayMenuNum[x]
    BY <1>1, <1>2 DEF State
  <1>4. [p EXCEPT !.delayMenuNum[m] = i] = r
    OBVIOUS
  <1> HIDE DEF f
  <1>5. r \in State /\ r.delayMenuNum = f
    BY <1>1, <1>3 DEF State
  <1>6. /\ r.coList = p.coList /\ r.mapped = p.mapped /\ r.tooltip = p.tooltip
        /\ r.hiding = p.hiding /\ r.iFocus = p.iFocus
        /\ r.child = p.child /\ r.autoHide = p.autoHide
    BY <1>1 DEF State
  <1> HIDE DEF r
  <1>7. Focused(r) /\ Children(r) /\ Starts(r) /\ Tips(r)
    BY <1>1, <1>6, Zenon DEF Focused, Children, Starts, Above, Pair, Tips
  <1>8. Popups(r)
    BY <1>1, <1>3, <1>5, <1>6 DEF Popups, Delays
  <1>9. Delays(r, m)
    BY <1>3, <1>5 DEF Delays
  <1> QED
    BY <1>4, <1>5, <1>6, <1>7, <1>8, <1>9 DEF Good, Base

LEMMA EnterItemLeads ==
    ASSUME NEW p \in Good, NEW m \in Menu, NEW i \in DOMAIN Items[m]
    PROVE  EnterItem(p, m, i) \in Good
  <1>1. CASE ~p.mapped[m] \/ p.justMapped \/ p.iFocus[m] = i
    BY <1>1 DEF EnterItem
  <1>2. CASE ~(~p.mapped[m] \/ p.justMapped \/ p.iFocus[m] = i)
    <2>1. PICK j : j = IF Items[m][i] = "Q_SEPARATOR" THEN 0 ELSE i
      OBVIOUS
    <2>2. PICK a : a = [p EXCEPT !.iFocus[m] = j]
      OBVIOUS
    <2>3. PICK q : q = Cancel(a, Popup(m))
      OBVIOUS
    <2>4. j \in Focusable(m) \cup {0}
      BY <2>1 DEF Focusable
    <2>5. a \in Good /\ a.mapped = p.mapped
      BY <2>2, <2>4, FocusItemLeads
    <2>6. q \in Good /\ ~Waits(q.coList, Popup(m)) /\ q.mapped = p.mapped
      BY <2>3, <2>5, CancelLeads, Kinds
    <2>7. q.child[m] \in Menu \cup {NULL}
      BY <2>6 DEF Good, Base, State
    <2>8. PICK msec : msec = IF q.child[m] = NULL THEN MenuDelayTime ELSE MenuDelayTime2
      OBVIOUS
    <2>9. PICK b : b = [q EXCEPT !.delayMenuNum[m] = i]
      OBVIOUS
    <2>10. EnterItem(p, m, i) =
             IF IsDir(m, i) THEN SetTimeout(b, msec, Popup(m))
             ELSE IF q.child[m] = NULL THEN q
                  ELSE SetTimeout(q, MenuDelayTime, <<"PopdownMenu", q.child[m]>>)
      BY <1>2, <2>1, <2>2, <2>3, <2>8, <2>9 DEF EnterItem, Popup
    <2>11. ASSUME IsDir(m, i)
           PROVE  SetTimeout(b, msec, Popup(m)) \in Good
      <3>1. b \in Good /\ b.mapped = q.mapped /\ b.coList = q.coList /\ Delays(b, m)
        BY <2>6, <2>9, <2>11, DelayItemLeads
      <3>2. msec \in Nat
        BY <2>8, DelaysType
      <3>3. Wait(b, msec, Popup(m)) \in Good
        BY <1>2, <2>6, <3>1, <3>2, WaitPopupLeads
      <3>4. Execute(b, Popup(m)) \in Good
        BY <3>1, ExecuteLeads, Kinds DEF Good
      <3> QED
        BY <3>3, <3>4 DEF SetTimeout
    <2>12. ASSUME q.child[m] # NULL
           PROVE  SetTimeout(q, MenuDelayTime, <<"PopdownMenu", q.child[m]>>) \in Good
      <3>1. PICK cb : cb = <<"PopdownMenu", q.child[m]>>
        OBVIOUS
      <3>2. cb \in Callback /\ (\A n \in Menu : cb # Popup(n)) /\ cb # <<"UnmapTooltip">>
        BY <2>7, <2>12, <3>1, Kinds
      <3>3. MenuDelayTime \in Nat
        BY DelaysType
      <3> QED
        BY <2>6, <3>1, <3>2, <3>3, SetTimeoutLeads
    <2> QED
      BY <2>6, <2>10, <2>11, <2>12
  <1> QED
    BY <1>1, <1>2

LEMMA LeaveMenuLeads ==
    ASSUME NEW p \in Good, NEW m \in Menu, NEW entering
    PROVE  LeaveMenu(p, m, entering) \in Good
  <1>1. PICK q : q = IF p.child[m] # NULL THEN UnmapMenu(p, p.child[m]) ELSE Cancel(p, Popup(m))
    OBVIOUS
  <1>2. p.child[m] \in Menu \cup {NULL}
    BY DEF Good, Base, State
  <1>3. q \in Good
    BY <1>1, <1>2, UnmapMenuLeads, CancelLeads, Kinds
  <1>4. PICK r : r = [q EXCEPT !.iFocus[m] = 0]
    OBVIOUS
  <1>5. r \in Good
    BY <1>3, <1>4, FocusItemLeads
  <1>6. LeaveMenu(p, m, entering) \in {p, r}
    BY <1>1, <1>4 DEF LeaveMenu, Popup
  <1> QED
    BY <1>5, <1>6

LEMMA PressItemLeads ==
    ASSUME NEW p \in Good, NEW m \in Menu, NEW i \in DOMAIN Items[m]
    PROVE  PressItem(p, m, i) \in Good
  <1>1. PICK q : q = ForceTimeout(p, Popup(m))
    OBVIOUS
  <1>2. q \in Good
    BY <1>1, RunCalloutsLeads DEF ForceTimeout
  <1>3. EnterItem(q, m, i) \in Good
    BY <1>2, EnterItemLeads
  <1>4. ForceTimeout(EnterItem(q, m, i), Popup(m)) \in Good
    BY <1>3, RunCalloutsLeads DEF ForceTimeout
  <1> QED
    BY <1>1, <1>2, <1>4 DEF PressItem, Popup

LEMMA MoveOverItemLeads ==
    ASSUME NEW p \in Good, NEW m \in Menu, NEW i \in DOMAIN Items[m]
    PROVE  MoveOverItem(p, m, i) \in Good
  <1>1. PICK a : a = [p EXCEPT !.justMapped = FALSE]
    OBVIOUS
  <1>2. a \in Good
    <2>1. p \in State /\ Focused(p) /\ Popups(p) /\ Children(p) /\ Starts(p) /\ Tips(p)
      BY DEF Good, Base
    <2>2. /\ a \in State
          /\ a.coList = p.coList /\ a.mapped = p.mapped /\ a.tooltip = p.tooltip
          /\ a.hiding = p.hiding /\ a.delayMenuNum = p.delayMenuNum /\ a.iFocus = p.iFocus
          /\ a.child = p.child /\ a.autoHide = p.autoHide
      BY <1>1, <2>1 DEF State
    <2>3. Focused(a) /\ Popups(a) /\ Children(a) /\ Starts(a) /\ Tips(a)
      BY <2>1, <2>2, Zenon DEF Focused, Popups, Delays, Children, Starts, Above, Pair, Tips
    <2> QED
      BY <2>2, <2>3 DEF Good, Base
  <1>3. PICK q : q = IF p.justMapped THEN EnterItem(a, m, i) ELSE p
    OBVIOUS
  <1>4. q \in Good
    BY <1>2, <1>3, EnterItemLeads
  <1>5. EnterItem(q, m, i) \in Good
    BY <1>4, EnterItemLeads
  <1>6. MoveOverItem(p, m, i) \in {q, EnterItem(q, m, i)}
    BY <1>1, <1>3 DEF MoveOverItem
  <1> QED
    BY <1>4, <1>5, <1>6
-----------------------------------------------------------------------------
(* Functions *)

LEMMA PopUpLeads ==
    ASSUME NEW p \in Good, NEW m \in Menu, StartShows => m # "start"
    PROVE  Q_POPUP_MENU(p, m) \in Good
  <1>1. PICK q : q = UnmapAllMenus(p, TRUE)
    OBVIOUS
  <1>2. q \in Good /\ Alone(q)
    BY <1>1, UnmapAllLeads
  <1>3. MapMenu(q, m) \in Good
    BY <1>2, MapMenuLeads
  <1> QED
    BY <1>1, <1>3 DEF Q_POPUP_MENU

LEMMA EnableAutoHideLeads ==
    ASSUME NEW p \in Good, StartShows => ~p.mapped["start"]
    PROVE  EnableAutoHide(p) \in Good
  <1> DEFINE r == [p EXCEPT !.autoHide = TRUE]
  <1>1. p \in State /\ Focused(p) /\ Popups(p) /\ Children(p) /\ Starts(p) /\ Tips(p)
    BY DEF Good, Base
  <1>2. /\ r \in State
        /\ r.coList = p.coList /\ r.mapped = p.mapped /\ r.tooltip = p.tooltip
        /\ r.delayMenuNum = p.delayMenuNum /\ r.iFocus = p.iFocus /\ r.child = p.child
    BY <1>1 DEF State
  <1> HIDE DEF r
  <1>3. Focused(r) /\ Popups(r) /\ Children(r) /\ Tips(r)
    BY <1>1, <1>2, Zenon DEF Focused, Popups, Delays, Children, Tips
  <1>4. StartShows => ~r.mapped["start"]
    BY <1>2
  <1>5. HideTaskbar(r) \in Good
    BY <1>2, <1>3, <1>4, HideTaskbarLeads
  <1> QED
    BY <1>5 DEF EnableAutoHide, r

LEMMA DisableAutoHideLeads ==
    ASSUME NEW p \in Good
    PROVE  DisableAutoHide(p) \in Good
  <1> DEFINE r == [p EXCEPT !.autoHide = FALSE]
  <1>1. p \in State /\ Focused(p) /\ Popups(p) /\ Children(p) /\ Starts(p) /\ Tips(p)
    BY DEF Good, Base
  <1>2. /\ r \in State /\ r.autoHide = FALSE
        /\ r.coList = p.coList /\ r.mapped = p.mapped /\ r.tooltip = p.tooltip
        /\ r.delayMenuNum = p.delayMenuNum /\ r.iFocus = p.iFocus /\ r.child = p.child
    BY <1>1 DEF State
  <1> HIDE DEF r
  <1>3. Focused(r) /\ Popups(r) /\ Children(r) /\ Tips(r)
    BY <1>1, <1>2, Zenon DEF Focused, Popups, Delays, Children, Tips
  <1>4. Starts(r)
    BY <1>1, <1>2 DEF Starts, Above, Pair
  <1>5. ShowTaskbar(r) \in Good
    BY <1>2, <1>3, <1>4, ShowTaskbarLeads DEF Good, Base
  <1> QED
    BY <1>5 DEF DisableAutoHide, r

\* Q_TOGGLE_AUTOHIDE and Q_ENABLE_AUTOHIDE find the start menu closed.
LEMMA FunctionLeads ==
    ASSUME NEW p \in Good, NEW fn, Alone(p)
    PROVE  Function(p, fn) \in Good
  <1>1. PICK q : q = UnmapAllMenus(p, FALSE)
    OBVIOUS
  <1>2. q \in Good /\ Alone(q) /\ ~Pair(q) /\ (StartShows => ~q.mapped["start"])
    BY <1>1, UnmapAllLeads
  <1>3. PICK s : s = SetFocus(q, "root")
    OBVIOUS
  <1>4. s \in Good /\ ~Pair(s)
    BY <1>2, <1>3, SetFocusLeads DEF Pair
  <1>5. MapStartMenu(s) \in Good
    BY <1>4, MapStartMenuLeads
  <1>6. Q_POPUP_MENU(s, "desktop") \in Good
    BY <1>4, PopUpLeads, Submenus
  <1>7. UnmapAllMenus(q, TRUE) \in Good
    BY <1>2, UnmapAllLeads
  <1>8. PICK r : r = UnmapAllMenus(q, FALSE)
    OBVIOUS
  <1>9. r \in Good /\ (StartShows => ~r.mapped["start"])
    BY <1>2, <1>8, UnmapAllLeads
  <1>10. \A x \in {q, r} : EnableAutoHide(x) \in Good /\ DisableAutoHide(x) \in Good
    BY <1>2, <1>9, EnableAutoHideLeads, DisableAutoHideLeads
  <1>11. ShowTaskbar(q) \in Good /\ HideTaskbar(q) \in Good
    BY <1>2, ShowTaskbarLeads, HideLeads
  <1>12. Function(p, fn) \in {q, s, MapStartMenu(s), Q_POPUP_MENU(s, "desktop"),
                             UnmapAllMenus(q, TRUE), EnableAutoHide(q), DisableAutoHide(q),
                             EnableAutoHide(r), DisableAutoHide(r), ShowTaskbar(q), HideTaskbar(q)}
    BY <1>1, <1>3, <1>8 DEF Function
  <1> QED
    BY <1>2, <1>4, <1>5, <1>6, <1>7, <1>10, <1>11, <1>12

LEMMA WindowFunctionLeads ==
    ASSUME NEW p \in Good, NEW fn
    PROVE  WindowFunction(p, fn) \in Good
  BY UnmapAllLeads, FunctionLeads DEF WindowFunction

\* A bounded set of numbers has a greatest one.
LEMMA MaxIsGreatest ==
    ASSUME NEW k \in Nat, NEW S \in SUBSET (0..k), S # {}
    PROVE  Max(S) \in S
  <1> DEFINE T == {k - x : x \in S}
  <1>1. PICK least \in T : \A y \in T : least <= y
    <2>1. \A x \in S : k - x \in Nat
      OBVIOUS
    <2>2. T \in SUBSET Nat
      BY <2>1
    <2>3. T # {}
      BY Zenon
    <2> HIDE DEF T
    <2> QED
      BY <2>2, <2>3, LeastExists
  <1>2. PICK x \in S : least = k - x
    BY <1>1
  <1>3. ASSUME NEW y \in S
        PROVE  x >= y
    <2>1. k - x <= k - y
      BY <1>1, <1>2
    <2> QED
      BY <2>1
  <1> QED
    BY <1>3, Zenon DEF Max

LEMMA MoveFocusLeads ==
    ASSUME NEW p \in Good, NEW m \in Menu
    PROVE  MoveFocusUp(p, m) \in Good /\ MoveFocusDown(p, m) \in Good
  <1>1. Focusable(m) \in SUBSET (0..Len(Items[m])) /\ Focusable(m) # {} /\ Len(Items[m]) \in Nat
    BY Submenus, MenusType DEF Focusable
  <1>2. \A S \in SUBSET Focusable(m) : S # {} => Max(S) \in Focusable(m) /\ Min(S) \in Focusable(m)
    <2> SUFFICES ASSUME NEW S \in SUBSET Focusable(m), S # {}
                 PROVE  Max(S) \in S /\ Min(S) \in S
      OBVIOUS
    <2>1. S \in SUBSET (0..Len(Items[m])) /\ S \in SUBSET Nat
      BY <1>1
    <2> QED
      BY <1>1, <2>1, MaxIsGreatest, MinIsLeast
  <1>3. PICK above : above = {i \in Focusable(m) : i < p.iFocus[m]}
    OBVIOUS
  <1>4. PICK below : below = {i \in Focusable(m) : i > p.iFocus[m]}
    OBVIOUS
  <1>5. PICK i : i = Max(IF above = {} THEN Focusable(m) ELSE above)
    OBVIOUS
  <1>6. PICK j : j = Min(IF below = {} THEN Focusable(m) ELSE below)
    OBVIOUS
  <1>7. i \in Focusable(m) /\ j \in Focusable(m)
    <2>1. above \in SUBSET Focusable(m) /\ below \in SUBSET Focusable(m)
      BY <1>3, <1>4
    <2> QED
      BY <1>1, <1>2, <1>5, <1>6, <2>1
  <1>8. MoveFocusUp(p, m) = [p EXCEPT !.iFocus[m] = i]
    BY <1>3, <1>5 DEF MoveFocusUp
  <1>9. MoveFocusDown(p, m) = [p EXCEPT !.iFocus[m] = j]
    BY <1>4, <1>6 DEF MoveFocusDown
  <1> QED
    BY <1>7, <1>8, <1>9, FocusItemLeads

LEMMA MoveFocusRightLeads ==
    ASSUME NEW p \in Good, NEW m \in Menu
    PROVE  MoveFocusRight(p, m) \in Good
  <1>1. CASE p.iFocus[m] = 0 \/ ~IsDir(m, p.iFocus[m])
    BY <1>1 DEF MoveFocusRight
  <1>2. CASE ~(p.iFocus[m] = 0 \/ ~IsDir(m, p.iFocus[m]))
    <2>1. p.iFocus[m] \in DOMAIN Items[m]
      BY <1>2 DEF Good, Base, Focused, Focusable
    <2>2. PICK q : q = ExtractChildMenu(p, m, p.iFocus[m])
      OBVIOUS
    <2>3. q \in Good /\ q.child[m] \in Menu
      BY <1>2, <2>1, <2>2, ExtractLeads DEF IsDir
    <2>4. MoveFocusDown(q, q.child[m]) \in Good
      BY <2>3, MoveFocusLeads
    <2> QED
      BY <1>2, <2>2, <2>4 DEF MoveFocusRight
  <1> QED
    BY <1>1, <1>2

\* The functions of a menu; its start menu is not popped up this way.
LEMMA MenuFunctionLeads ==
    ASSUME NEW p \in Good, NEW fn, NEW m \in Menu,
           StartShows /\ m = "start" => fn # "Q_POPUP_MENU"
    PROVE  MenuFunction(p, fn, m) \in Good
  <1>1. fn = "Q_POPUP_MENU" => Q_POPUP_MENU(p, m) \in Good
    BY PopUpLeads
  <1>2. CloseMenu(p, m) \in Good /\ UnmapMenu(p, m) \in Good
    BY CloseMenuLeads, UnmapMenuLeads
  <1>3. MoveFocusUp(p, m) \in Good /\ MoveFocusDown(p, m) \in Good /\ MoveFocusRight(p, m) \in Good
    BY MoveFocusLeads, MoveFocusRightLeads
  <1>4. MoveFocusLeft(p, m) \in Good
    BY <1>2 DEF MoveFocusLeft
  <1>5. WindowFunction(p, fn) \in Good
    BY WindowFunctionLeads
  <1> QED
    BY <1>1, <1>2, <1>3, <1>4, <1>5 DEF MenuFunction

LEMMA ExecItemLeads ==
    ASSUME NEW p \in Good, NEW m \in Menu, NEW i \in DOMAIN Items[m]
    PROVE  ExecItem(p, m, i) \in Good
  <1>1. StartShows /\ m = "start" => Items[m][i] # "Q_POPUP_MENU"
    BY DEF StartShows, Range
  <1>2. MenuFunction(p, Items[m][i], m) \in Good
    BY <1>1, MenuFunctionLeads
  <1>3. IsDir(m, i) => ExtractChildMenu(p, m, i) \in Good
    BY ExtractLeads
  <1> QED
    BY <1>2, <1>3 DEF ExecItem

LEMMA ReleaseItemLeads ==
    ASSUME NEW p \in Good, NEW m \in Menu, NEW i \in DOMAIN Items[m]
    PROVE  ReleaseItem(p, m, i) \in Good
  BY UnmapAllLeads, ExecItemLeads DEF ReleaseItem

LEMMA ExecSelectedItemLeads ==
    ASSUME NEW p \in Good, NEW m \in Menu, NEW r \in ExecSelectedItem(p, m)
    PROVE  r \in Good
  <1>1. PICK i : i = p.iFocus[m]
    OBVIOUS
  <1>2. i = 0 \/ i \in DOMAIN Items[m]
    BY <1>1 DEF Good, Base, Focused, Focusable
  <1>3. PICK q : q = UnmapAllMenus(p, TRUE)
    OBVIOUS
  <1>4. q \in Good
    BY <1>3, UnmapAllLeads
  <1>5. i # 0 => ExecItem(p, m, i) \in Good /\ ExecItem(q, m, i) \in Good
    BY <1>2, <1>4, ExecItemLeads
  <1>6. r \in {p, q} \/ (i # 0 /\ r \in {ExecItem(p, m, i), ExecItem(q, m, i)})
    BY <1>1, <1>3 DEF ExecSelectedItem
  <1> QED
    BY <1>4, <1>5, <1>6

LEMMA ExecKeyedLeads ==
    ASSUME NEW p \in Good, NEW m \in Menu, NEW keyed \in SUBSET DOMAIN Items[m], NEW i
    PROVE  ExecKeyed(p, m, keyed, i) \in Good
  <1>1. CASE i \notin keyed \/ ~Selectable(m, i)
    BY <1>1 DEF ExecKeyed
  <1>2. CASE ~(i \notin keyed \/ ~Selectable(m, i))
    <2>1. i \in DOMAIN Items[m] /\ i \in Focusable(m)
      BY <1>2 DEF Selectable, Focusable
    <2>2. PICK a : a = [p EXCEPT !.iFocus[m] = i]
      OBVIOUS
    <2>3. PICK b : b = UnmapAllMenus(p, TRUE)
      OBVIOUS
    <2>4. a \in Good /\ b \in Good
      BY <2>1, <2>2, <2>3, FocusItemLeads, UnmapAllLeads
    <2>5. ExecItem(a, m, i) \in Good /\ ExecItem(b, m, i) \in Good
      BY <2>1, <2>4, ExecItemLeads
    <2> QED
      BY <1>2, <2>2, <2>3, <2>5 DEF ExecKeyed
  <1> QED
    BY <1>1, <1>2

LEMMA ExecShortCutKeyLeads ==
    ASSUME NEW p \in Good, NEW m \in Menu, NEW keyed \in SUBSET DOMAIN Items[m]
    PROVE  ExecShortCutKey(p, m, keyed) \in Good
  <1> DEFINE k == Len(Items[m])
             h == [n \in Nat |-> [q \in Good |-> ExecKeyed(q, m, keyed, n)]]
             Runs(f) == f = [i \in 0..k |-> IF i = 0 THEN p ELSE ExecKeyed(f[i - 1], m, keyed, i)]
             run == CHOOSE f : Runs(f)
  <1>1. k \in Nat
    BY Submenus
  <1>2. h \in [Nat -> [Good -> Good]]
    BY ExecKeyedLeads
  <1>3. \A n \in Nat, q \in Good : h[n][q] = ExecKeyed(q, m, keyed, n)
    OBVIOUS
  <1>4. ExecShortCutKey(p, m, keyed) = run[k]
    BY Zenon DEF ExecShortCutKey
  <1> HIDE DEF h, k
  <1>5. PICK f \in [0..k -> Good] : f[0] = p /\ \A n \in 1..k : f[n] = h[n][f[n - 1]]
    <2>1. Repeats(Good, p, h, k)
      BY <1>1, <1>2, Repeated
    <2> QED
      BY <2>1, Zenon DEF Repeats
  <1>6. Runs(f)
    <2>1. \A n \in 0..k : f[n] = IF n = 0 THEN p ELSE ExecKeyed(f[n - 1], m, keyed, n)
      BY <1>1, <1>3, <1>5
    <2> QED
      BY <1>5, <2>1
  <1>7. Runs(run)
    BY <1>6, Zenon
  <1> HIDE DEF run
  <1>8. run[0] = p /\ \A n \in 1..k : run[n] = ExecKeyed(run[n - 1], m, keyed, n)
    BY <1>1, <1>7
  <1> DEFINE bad == {n \in 0..k : run[n] \notin Good}
  <1>9. bad = {}
    <2> SUFFICES ASSUME bad # {}
                 PROVE  FALSE
      OBVIOUS
    <2>1. PICK least \in bad : \A n \in bad : least <= n
      <3>1. bad \in SUBSET Nat
        BY <1>1
      <3> HIDE DEF bad
      <3> QED
        BY <3>1, LeastExists
    <2>2. least # 0 /\ least \in 1..k /\ least - 1 \in 0..k
      BY <1>1, <1>8, <2>1
    <2>3. run[least - 1] \in Good
      BY <2>1, <2>2
    <2> QED
      BY <1>8, <2>1, <2>2, <2>3, ExecKeyedLeads
  <1> QED
    BY <1>1, <1>4, <1>9
-----------------------------------------------------------------------------
(* Handlers *)

\* panel between events: everything the moves of the bar caused is in the queue.
Between == panel \in Good /\ panel.notices = <<>>

LEMMA HandledLeads ==
    ASSUME NEW p \in Good, NEW queued, Handled(p, queued)
    PROVE  Between'
  <1>1. PICK r : r = CheckTimeout(p)
    OBVIOUS
  <1>2. r \in Good
    BY <1>1, RunCalloutsLeads DEF CheckTimeout
  <1> DEFINE f == [m \in Menu |-> IF Pending(r, m) THEN r.delayMenuNum[m] ELSE 0]
             s == [r EXCEPT !.notices = <<>>, !.delayMenuNum = f]
  <1>3. r \in State /\ Focused(r) /\ Popups(r) /\ Children(r) /\ Starts(r) /\ Tips(r)
    BY <1>2 DEF Good, Base
  <1>4. \A m \in Menu : Waits(r.coList, Popup(m)) => Pending(r, m)
    BY CalloutsWait DEF Pending, Popup
  <1>5. f \in [Menu -> Nat] /\ \A m \in Menu : Waits(r.coList, Popup(m)) => f[m] = r.delayMenuNum[m]
    BY <1>3, <1>4 DEF State
  <1>6. panel' = s
    BY <1>1, <1>3 DEF Handled, State
  <1> HIDE DEF f
  <1>7. s \in State /\ s.delayMenuNum = f /\ s.notices = <<>>
    <2>1. <<>> \in Seq({"Enter", "Leave"})
      OBVIOUS
    <2> QED
      BY <1>3, <1>5, <2>1 DEF State
  <1>8. /\ s.coList = r.coList /\ s.mapped = r.mapped /\ s.tooltip = r.tooltip
        /\ s.hiding = r.hiding /\ s.iFocus = r.iFocus
        /\ s.child = r.child /\ s.autoHide = r.autoHide
    BY <1>3 DEF State
  <1> HIDE DEF s
  <1>9. Focused(s) /\ Children(s) /\ Starts(s) /\ Tips(s)
    BY <1>3, <1>8, Zenon DEF Focused, Children, Starts, Above, Pair, Tips
  <1>10. Popups(s)
    BY <1>3, <1>5, <1>7, <1>8 DEF Popups, Delays
  <1> QED
    BY <1>6, <1>7, <1>9, <1>10 DEF Between, Good, Base

LEMMA InitIsGood == Init => Between
  <1> SUFFICES ASSUME Init
               PROVE  Between
    OBVIOUS
  <1> DEFINE q == IF AutoHide /\ TaskbarHideDelay > 0
                  THEN InsertCallout(<<>>, TaskbarHideDelay, <<"HideTaskbar">>) ELSE <<>>
             none == [m \in Menu |-> NULL]
             zero == [m \in Menu |-> 0]
             off == [m \in Menu |-> FALSE]
             hiding == AutoHide /\ TaskbarHideDelay = 0
  <1>1. <<>> \in Callouts(Callback) /\ \A c : ~Waits(<<>>, c)
    BY DEF Callouts, Waits
  <1>2. <<"HideTaskbar">> \in Callback /\ TaskbarHideDelay \in Nat
    BY Kinds, DelaysType
  <1>3. q \in Callouts(Callback) /\ \A c : Waits(q, c) => c = <<"HideTaskbar">>
    BY <1>1, <1>2, Inserted
  <1>4. /\ none \in [Menu -> Menu \cup {NULL}] /\ zero \in [Menu -> Nat] /\ off \in [Menu -> BOOLEAN]
        /\ \A m \in Menu : none[m] = NULL /\ zero[m] = 0 /\ off[m] = FALSE
    OBVIOUS
  <1>5. hiding \in BOOLEAN /\ AutoHide \in BOOLEAN
    BY PanelType
  <1>6. <<>> \in Seq({"Enter", "Leave"}) /\ "screen" \in Place
    BY DEF Place
  <1>7. panel = [ coList |-> q, mapped |-> off, child |-> none, created |-> {}, iFocus |-> zero,
                  delayMenuNum |-> zero, xfocus |-> NULL, justMapped |-> FALSE,
                  umReserved |-> FALSE, focusQvwm |-> "root", focusIcon |-> FALSE,
                  autoHide |-> AutoHide, hiding |-> hiding, tooltip |-> FALSE,
                  pointer |-> "screen", notices |-> <<>> ]
    BY DEF Init, InitState
  <1> HIDE DEF q, none, zero, off, hiding
  <1>8. panel \in State
    BY <1>3, <1>4, <1>5, <1>6, <1>7 DEF State
  <1>9. /\ panel.coList = q /\ panel.mapped = off /\ panel.child = none /\ panel.iFocus = zero
        /\ panel.tooltip = FALSE /\ panel.notices = <<>>
    BY <1>7
  <1>10. Focused(panel) /\ Children(panel)
    BY <1>4, <1>9 DEF Focused, Children
  <1>11. Starts(panel)
    BY <1>4, <1>9, Submenus DEF Starts, Above
  <1>12. \A c : c # <<"HideTaskbar">> => Once(q, c) /\ ~Waits(q, c)
    BY <1>3 DEF Once, Waits
  <1>13. Popups(panel) /\ Tips(panel)
    BY <1>9, <1>12, Kinds DEF Popups, Tips
  <1> QED
    BY <1>8, <1>9, <1>10, <1>11, <1>13 DEF Between, Good, Base

\* Fields the invariant does not speak of.
LEMMA ElseLeads ==
    ASSUME NEW p \in Good
    PROVE  /\ \A b \in BOOLEAN : LET r == [p EXCEPT !.focusIcon = b]
                               IN  r \in Good /\ r.mapped = p.mapped
           /\ \A b \in BOOLEAN : LET r == [p EXCEPT !.umReserved = b]
                               IN  r \in Good /\ r.mapped = p.mapped
           /\ \A at \in Place : LET r == [p EXCEPT !.pointer = at]
                              IN  r \in Good /\ r.notices = p.notices
  <1>1. p \in State /\ Focused(p) /\ Popups(p) /\ Children(p) /\ Starts(p) /\ Tips(p)
    BY DEF Good, Base
  <1>2. ASSUME NEW r \in State,
               r.coList = p.coList, r.mapped = p.mapped, r.tooltip = p.tooltip,
               r.hiding = p.hiding, r.delayMenuNum = p.delayMenuNum, r.iFocus = p.iFocus,
               r.child = p.child, r.autoHide = p.autoHide
        PROVE  r \in Good
    <2>1. Focused(r) /\ Popups(r) /\ Children(r) /\ Starts(r) /\ Tips(r)
      BY <1>1, <1>2, Zenon DEF Focused, Popups, Delays, Children, Starts, Above, Pair, Tips
    <2> QED
      BY <1>2, <2>1 DEF Good, Base
  <1>3. ASSUME NEW b \in BOOLEAN
        PROVE  /\ [p EXCEPT !.focusIcon = b] \in Good
               /\ [p EXCEPT !.focusIcon = b].mapped = p.mapped
    <2> DEFINE r == [p EXCEPT !.focusIcon = b]
    <2>1. /\ r \in State
          /\ r.coList = p.coList /\ r.mapped = p.mapped /\ r.tooltip = p.tooltip
          /\ r.hiding = p.hiding /\ r.delayMenuNum = p.delayMenuNum /\ r.iFocus = p.iFocus
          /\ r.child = p.child /\ r.autoHide = p.autoHide
      BY <1>1, <1>3 DEF State
    <2> HIDE DEF r
    <2>2. r \in Good
      BY <1>2, <2>1
    <2> QED
      BY <2>1, <2>2 DEF r
  <1>4. ASSUME NEW b \in BOOLEAN
        PROVE  /\ [p EXCEPT !.umReserved = b] \in Good
               /\ [p EXCEPT !.umReserved = b].mapped = p.mapped
    <2> DEFINE r == [p EXCEPT !.umReserved = b]
    <2>1. /\ r \in State
          /\ r.coList = p.coList /\ r.mapped = p.mapped /\ r.tooltip = p.tooltip
          /\ r.hiding = p.hiding /\ r.delayMenuNum = p.delayMenuNum /\ r.iFocus = p.iFocus
          /\ r.child = p.child /\ r.autoHide = p.autoHide
      BY <1>1, <1>4 DEF State
    <2> HIDE DEF r
    <2>2. r \in Good
      BY <1>2, <2>1
    <2> QED
      BY <2>1, <2>2 DEF r
  <1>5. ASSUME NEW at \in Place
        PROVE  /\ [p EXCEPT !.pointer = at] \in Good
               /\ [p EXCEPT !.pointer = at].notices = p.notices
    <2> DEFINE r == [p EXCEPT !.pointer = at]
    <2>1. /\ r \in State
          /\ r.coList = p.coList /\ r.mapped = p.mapped /\ r.tooltip = p.tooltip
          /\ r.hiding = p.hiding /\ r.delayMenuNum = p.delayMenuNum /\ r.iFocus = p.iFocus
          /\ r.child = p.child /\ r.autoHide = p.autoHide /\ r.notices = p.notices
      BY <1>1, <1>5 DEF State
    <2> HIDE DEF r
    <2>2. r \in Good
      BY <1>2, <2>1
    <2> QED
      BY <2>1, <2>2 DEF r
  <1> QED
    BY <1>3, <1>4, <1>5

LEMMA ElapseLeads == Between /\ Elapse => Between'
  <1> SUFFICES ASSUME Between, Elapse
               PROVE  Between'
    OBVIOUS
  <1> DEFINE q == Tick(panel.coList)
             r == [panel EXCEPT !.coList = q]
  <1>1. panel \in Good /\ panel \in State /\ panel.coList \in Callouts(Callback)
    BY DEF Between, Good, Base, State
  <1>2. /\ q \in Callouts(Callback)
        /\ \A c : Waits(q, c) <=> Waits(panel.coList, c)
        /\ \A c : Once(panel.coList, c) => Once(q, c)
    BY <1>1, Ticked
  <1>3. panel' = r
    BY DEF Elapse
  <1> HIDE DEF q
  <1>4. r \in Good
    BY <1>1, <1>2, FewerLead
  <1>5. r.notices = panel.notices
    BY <1>1, <1>2, Relisted
  <1> QED
    BY <1>3, <1>4, <1>5 DEF Between

LEMMA PointerStepLeads == Between /\ PointerStep => Between'
  <1> SUFFICES ASSUME Between, PointerStep
               PROVE  Between'
    OBVIOUS
  <1>1. panel \in Good
    BY DEF Between
  <1>2. ASSUME NEW to \in Place, MovePointer(to)
        PROVE  Between'
    BY <1>1, <1>2, ElseLeads DEF MovePointer, Between
  <1>3. \A cb \in {<<"ShowTaskbar">>, <<"HideTaskbar">>} :
           \A msec \in Nat : SetTimeout(panel, msec, cb) \in Good
    BY <1>1, Kinds, SetTimeoutLeads
  <1>4. CASE TaskbarEnter
    <2>1. PICK p : p = IF panel.autoHide /\ ~CheckAnyMenusMapped(panel) /\ panel.hiding
                       THEN SetTimeout(panel, TaskbarShowDelay, <<"ShowTaskbar">>) ELSE panel
      OBVIOUS
    <2>2. p \in Good
      BY <1>1, <1>3, <2>1, DelaysType
    <2> QED
      BY <1>4, <2>1, <2>2, HandledLeads DEF TaskbarEnter
  <1>5. CASE TaskbarLeave
    <2>1. PICK p : p = IF /\ panel.autoHide /\ ~CheckAnyMenusMapped(panel) /\ ~panel.hiding
                          /\ Head(crossings).at = "screen"
                       THEN SetTimeout(panel, TaskbarHideDelay, <<"HideTaskbar">>) ELSE panel
      OBVIOUS
    <2>2. p \in Good
      BY <1>1, <1>3, <2>1, DelaysType
    <2> QED
      BY <1>5, <2>1, <2>2, HandledLeads DEF TaskbarLeave
  <1>6. CASE ButtonEnter
    BY <1>1, <1>6, TimersLead, HandledLeads DEF ButtonEnter, Handle
  <1>7. CASE ButtonLeave
    BY <1>1, <1>7, DisableLeads, HandledLeads DEF ButtonLeave, Handle
  <1>8. CASE ButtonMotion
    BY <1>1, <1>8, TimersLead, HandledLeads DEF ButtonMotion, Handle
  <1> QED
    BY <1>2, <1>4, <1>5, <1>6, <1>7, <1>8 DEF PointerStep

LEMMA FocusMenuIsMenu ==
    ASSUME NEW p \in Good
    PROVE  FocusMenu(p) \in Menu /\ FocusMenu(p) \in {"desktop", "window"}
  BY Submenus DEF FocusMenu

LEMMA MenuStepLeads == Between /\ MenuStep => Between'
  <1> SUFFICES ASSUME Between, MenuStep
               PROVE  Between'
    OBVIOUS
  <1>1. panel \in Good
    BY DEF Between
  <1>2. \A p \in Good : Handle(p) => Between'
    BY HandledLeads DEF Handle
  <1>3. ASSUME NEW m \in Menu, NEW i \in DOMAIN Items[m],
               \/ MenuEnter(m, i) \/ MenuMotion(m, i)
               \/ MenuButton1Press(m, i) \/ MenuButton1Release(m, i)
        PROVE  Between'
    <2>1. CASE MenuEnter(m, i)
      BY <1>1, <1>2, <2>1, EnterItemLeads DEF MenuEnter
    <2>2. CASE MenuMotion(m, i)
      BY <1>1, <1>2, <2>2, MoveOverItemLeads DEF MenuMotion
    <2>3. CASE MenuButton1Press(m, i)
      BY <1>1, <1>2, <2>3, PressItemLeads DEF MenuButton1Press
    <2>4. CASE MenuButton1Release(m, i)
      BY <1>1, <1>2, <2>4, ReleaseItemLeads DEF MenuButton1Release
    <2> QED
      BY <1>3, <2>1, <2>2, <2>3, <2>4
  <1>4. ASSUME NEW m \in Menu, MenuLeave(m)
        PROVE  Between'
    BY <1>1, <1>2, <1>4, LeaveMenuLeads DEF MenuLeave
  <1>5. ASSUME NEW m \in Menu, MenuAction(m)
        PROVE  Between'
    BY <1>1, <1>2, <1>5, ExecSelectedItemLeads DEF MenuAction
  <1>6. ASSUME NEW m \in Menu, NEW fn \in MenuKey, MenuKeyPress(m, fn)
        PROVE  Between'
    <2>1. StartShows => fn # "Q_POPUP_MENU"
      BY <1>6 DEF StartShows
    <2> QED
      BY <1>1, <1>2, <1>6, <2>1, MenuFunctionLeads DEF MenuKeyPress
  <1>7. ASSUME NEW m \in Menu, NEW keyed \in Keyed[m], MenuCharacter(m, keyed)
        PROVE  Between'
    <2>1. keyed \in SUBSET DOMAIN Items[m]
      BY <1>7, PanelType
    <2> QED
      BY <1>1, <1>2, <1>7, <2>1, ExecShortCutKeyLeads DEF MenuCharacter
  <1>8. ASSUME NEW fn \in KeyFunction, ShortCutKey(fn)
        PROVE  Between'
    <2>1. MenuFunction(panel, fn, FocusMenu(panel)) \in Good
      BY <1>1, FocusMenuIsMenu, MenuFunctionLeads
    <2> QED
      BY <1>2, <1>8, <2>1 DEF ShortCutKey
  <1> QED
    BY <1>3, <1>4, <1>5, <1>6, <1>7, <1>8 DEF MenuStep

\* The control menu and the desktop's come up where UnmapAllMenus left the start menu alone.
LEMMA FocusAndMapLeads ==
    ASSUME NEW p \in Good, Alone(p), NEW w \in {"root", "window"}, NEW m \in Menu \ {"start"}
    PROVE  MapMenu(SetFocus(p, w), m) \in Good
  <1>1. PICK q : q = SetFocus(p, w)
    OBVIOUS
  <1>2. q \in Good /\ Alone(q)
    BY <1>1, SetFocusLeads DEF Alone
  <1> QED
    BY <1>1, <1>2, MapMenuLeads

LEMMA WindowGoneLeads ==
    ASSUME NEW p \in Good, NEW r \in WindowGone(p)
    PROVE  r \in Good
  <1>1. PICK q : q = IF p.mapped["window"] THEN CloseMenu(p, "window") ELSE p
    OBVIOUS
  <1>2. q \in Good
    BY <1>1, CloseMenuLeads, Submenus
  <1>3. SetFocus(q, "root") \in Good
    BY <1>2, SetFocusLeads
  <1> QED
    BY <1>1, <1>2, <1>3 DEF WindowGone

LEMMA ButtonStepLeads == Between /\ ButtonStep => Between'
  <1> SUFFICES ASSUME Between, ButtonStep
               PROVE  Between'
    OBVIOUS
  <1>1. panel \in Good
    BY DEF Between
  <1>2. \A p \in Good : Handle(p) => Between'
    BY HandledLeads DEF Handle
  <1>3. \A p \in Good, b \in BOOLEAN : UnmapAllMenus(p, b) \in Good /\ Alone(UnmapAllMenus(p, b))
    BY UnmapAllLeads
  <1>4. HideFirst \in Good
    BY <1>1, HideLeads DEF HideFirst
  <1>5. ASSUME NEW w \in {"root", "window"}, FrameButton1Press(w)
        PROVE  Between'
    <2>1. PICK p : p = SetFocus(UnmapAllMenus(HideFirst, TRUE), w)
      OBVIOUS
    <2>2. p \in Good
      BY <1>3, <1>4, <2>1, SetFocusLeads
    <2>3. [p EXCEPT !.focusIcon = FALSE] \in Good
      BY <2>2, ElseLeads
    <2> QED
      BY <1>2, <1>5, <2>1, <2>3 DEF FrameButton1Press
  <1>6. ASSUME NEW w \in {"root", "window"}, FrameButton3Release(w)
        PROVE  Between'
    <2>1. PICK p : p = UnmapAllMenus(panel, TRUE)
      OBVIOUS
    <2>2. p \in Good /\ Alone(p)
      BY <1>1, <1>3, <2>1
    <2>3. PICK m : m = FocusMenu(SetFocus(p, w))
      OBVIOUS
    <2>4. m \in Menu \ {"start"}
      BY <2>2, <2>3, SetFocusLeads, FocusMenuIsMenu
    <2>5. MapMenu(SetFocus(p, w), m) \in Good
      BY <2>2, <2>4, FocusAndMapLeads
    <2> QED
      BY <1>2, <1>6, <2>1, <2>3, <2>5 DEF FrameButton3Release
  <1>7. CASE CtrlButton1Press
    <2>1. PICK p : p = HideFirst
      OBVIOUS
    <2>2. PICK b : b = (p.umReserved \/ p.mapped["window"])
      OBVIOUS
    <2>3. PICK q : q = [p EXCEPT !.umReserved = b]
      OBVIOUS
    <2>4. p \in Good /\ p \in State
      BY <1>4, <2>1 DEF Good, Base
    <2>5. b \in BOOLEAN
      BY <2>2, <2>4
    <2>6. q \in Good
      BY <2>3, <2>4, <2>5, ElseLeads
    <2>7. WindowFunction(q, "Q_CLOSE") \in Good
      BY <2>6, WindowFunctionLeads
    <2>8. PICK r : r = UnmapAllMenus(p, TRUE)
      OBVIOUS
    <2>9. MapMenu(SetFocus(r, "window"), "window") \in Good
      BY <1>3, <2>4, <2>8, FocusAndMapLeads, Submenus
    <2>10. q = [p EXCEPT !.umReserved = @ \/ p.mapped["window"]]
      BY <2>2, <2>3
    <2>11. \/ Handle(WindowFunction(q, "Q_CLOSE"))
           \/ Handle(IF p.mapped["window"] THEN q ELSE MapMenu(SetFocus(r, "window"), "window"))
      BY <1>7, <2>1, <2>8, <2>10, Zenon DEF CtrlButton1Press
    <2> QED
      BY <1>2, <2>6, <2>7, <2>9, <2>11
  <1>8. CASE FrameButton1Release
    <2>1. PICK p : p = CloseMenu(panel, "window")
      OBVIOUS
    <2>2. p \in Good
      BY <1>1, <2>1, CloseMenuLeads, Submenus
    <2>3. [p EXCEPT !.umReserved = FALSE] \in Good
      BY <2>2, ElseLeads
    <2> QED
      BY <1>2, <1>8, <2>1, <2>3 DEF FrameButton1Release
  <1>9. PICK a : a = [panel EXCEPT !.focusIcon = FALSE]
    OBVIOUS
  <1>10. PICK b : b = SetFocus(UnmapAllMenus(a, TRUE), "root")
    OBVIOUS
  <1>11. PICK c : c = [b EXCEPT !.focusIcon = TRUE]
    OBVIOUS
  <1>12. b \in Good /\ c \in Good
    <2>1. a \in Good
      BY <1>1, <1>9, ElseLeads
    <2>2. b \in Good
      BY <1>3, <1>10, <2>1, SetFocusLeads
    <2> QED
      BY <1>11, <2>2, ElseLeads
  <1>13. CASE IconButton1Press
    BY <1>2, <1>9, <1>10, <1>11, <1>12, <1>13 DEF IconButton1Press
  <1>14. CASE IconButton3Release
    <2>1. "icon" \in Menu
      BY <1>14 DEF IconButton3Release
    <2>2. MapMenu(c, "icon") \in Good
      BY <1>12, <2>1, MapMenuLeads
    <2> QED
      BY <1>2, <1>9, <1>10, <1>11, <1>14, <2>2 DEF IconButton3Release
  <1>15. CASE StartButton1Press
    <2>1. PICK p : p = Disable(panel)
      OBVIOUS
    <2>2. p \in Good
      BY <1>1, <2>1, DisableLeads
    <2>3. CloseMenu(p, "start") \in Good
      BY <2>2, CloseMenuLeads, Submenus
    <2>4. MapStartMenu(UnmapAllMenus(p, FALSE)) \in Good
      BY <2>2, UnmapAllLeads, MapStartMenuLeads
    <2> QED
      BY <1>2, <1>15, <2>1, <2>3, <2>4 DEF StartButton1Press
  <1>16. CASE TaskbarButton1Press
    <2>1. PICK p : p = UnmapAllMenus(panel, FALSE)
      OBVIOUS
    <2>2. p \in Good
      BY <1>1, <1>3, <2>1
    <2>3. PICK place \in Place, q \in {p, SetFocus(p, "window")} \cup WindowGone(p) :
              Handled([q EXCEPT !.pointer = place], <<>>)
      BY <1>16, <2>1 DEF TaskbarButton1Press
    <2>4. q \in Good
      BY <2>2, <2>3, SetFocusLeads, WindowGoneLeads
    <2>5. [q EXCEPT !.pointer = place] \in Good
      BY <2>4, ElseLeads
    <2> QED
      BY <2>3, <2>5, HandledLeads
  <1>17. CASE TaskbarButton3Release
    <2>1. PICK p : p = IF panel.mapped[FocusMenu(panel)] THEN CloseMenu(panel, FocusMenu(panel)) ELSE panel
      OBVIOUS
    <2>2. p \in Good /\ Less(panel, p)
      BY <1>1, <2>1, CloseMenuLeads, FocusMenuIsMenu DEF Less
    <2>3. ~p.mapped["start"]
      BY <1>17, <2>2, Submenus DEF TaskbarButton3Release, Less
    <2>4. MapMenu(SetFocus(p, "window"), "window") \in Good
      BY <2>2, <2>3, FocusAndMapLeads, Submenus DEF Alone
    <2> QED
      BY <1>2, <1>17, <2>1, <2>4 DEF TaskbarButton3Release
  <1>18. CASE TaskbarPress
    BY <1>1, <1>2, <1>3, <1>18 DEF TaskbarPress
  <1>19. CASE TaskbarMenu
    <2>1. "taskbar" \in Menu
      BY <1>19 DEF TaskbarMenu
    <2>2. MapMenu(SetFocus(UnmapAllMenus(panel, FALSE), "root"), "taskbar") \in Good
      BY <1>1, <1>3, <2>1, FocusAndMapLeads
    <2> QED
      BY <1>2, <1>19, <2>2 DEF TaskbarMenu
  <1> QED
    BY <1>5, <1>6, <1>7, <1>8, <1>13, <1>14, <1>15, <1>16, <1>17, <1>18, <1>19 DEF ButtonStep

LEMMA WindowStepLeads == Between /\ WindowStep => Between'
  <1> SUFFICES ASSUME Between, WindowStep
               PROVE  Between'
    OBVIOUS
  <1>1. panel \in Good
    BY DEF Between
  <1>2. \A p \in Good : Handle(p) => Between'
    BY HandledLeads DEF Handle
  <1>3. CASE WindowTakesFocus
    BY <1>1, <1>2, <1>3, SetFocusLeads DEF WindowTakesFocus
  <1>4. CASE WindowLeaves
    BY <1>1, <1>2, <1>4, WindowGoneLeads DEF WindowLeaves
  <1>5. CASE MapNotifyProc
    BY <1>1, <1>2, <1>5, UnmapAllLeads, SetFocusLeads DEF MapNotifyProc
  <1> QED
    BY <1>3, <1>4, <1>5 DEF WindowStep
-----------------------------------------------------------------------------
(* Theorems *)

\* Whatever the events and whenever the callouts run, panel is good between handlers.
LEMMA StaysBetween == Spec => []Between
  <1>1. Between /\ [Next]_vars => Between'
    <2> SUFFICES ASSUME Between, [Next]_vars
                 PROVE  Between'
      OBVIOUS
    <2>1. CASE Elapse
      BY <2>1, ElapseLeads
    <2>2. CASE Timeout
      BY <2>2, HandledLeads DEF Timeout, Handle, Between
    <2>3. CASE PointerStep
      BY <2>3, PointerStepLeads
    <2>4. CASE MenuStep
      BY <2>4, MenuStepLeads
    <2>5. CASE ButtonStep
      BY <2>5, ButtonStepLeads
    <2>6. CASE WindowStep
      BY <2>6, WindowStepLeads
    <2>7. CASE UNCHANGED vars
      BY <2>7 DEF vars, Between
    <2> QED
      BY <2>1, <2>2, <2>3, <2>4, <2>5, <2>6, <2>7 DEF Next
  <1> QED
    BY InitIsGood, <1>1, PTL DEF Spec

\* The types: menus, items, delays and callouts are of those the constants name.
THEOREM PanelTypeCorrect == Spec => []TypeInv
  <1>1. Between => TypeInv
    <2> SUFFICES ASSUME Between
                 PROVE  TypeInv
      OBVIOUS
    <2>1. panel \in State /\ Focused(panel) /\ panel.notices = <<>>
      BY DEF Between, Good, Base
    <2>2. DOMAIN panel = DOMAIN InitState(AutoHide)
      BY <2>1 DEF State, InitState
    <2>3. \A i \in DOMAIN panel.coList : panel.coList[i] \in [cb : Callback, left : Nat]
      <3>1. panel.coList \in Seq([cb : Callback, left : Nat])
        BY <2>1 DEF State, Callouts
      <3> QED
        BY <3>1, LenProperties, ElementOfSeq
    <2>4. /\ panel.mapped \in [Menu -> BOOLEAN] /\ panel.child \in [Menu -> Menu \cup {NULL}]
          /\ panel.xfocus \in Menu \cup {NULL} /\ panel.pointer \in Place
      BY <2>1 DEF State
    <2> QED
      BY <2>1, <2>2, <2>3, <2>4 DEF TypeInv, Focused
  <1> QED
    BY StaysBetween, <1>1, PTL

\* A menu waits to pop up one submenu at most, one of its own, and only while it is on
\* the screen: UnmapMenu and Enter take back what an earlier Enter asked for.
THEOREM PopupsCorrect == Spec => []PopupsOfOpenMenus
  <1>1. Between => PopupsOfOpenMenus
    <2> SUFFICES ASSUME Between, NEW m \in Menu
                 PROVE  LET pending == CalloutsOf(panel.coList, <<"PopupMenu", m>>)
                        IN  /\ Cardinality(pending) <= 1
                            /\ pending # {} => panel.mapped[m] /\ IsDir(m, panel.delayMenuNum[m])
      BY DEF PopupsOfOpenMenus
    <2> DEFINE pending == CalloutsOf(panel.coList, Popup(m))
    <2>1. Once(panel.coList, Popup(m))
          /\ (Waits(panel.coList, Popup(m)) => panel.mapped[m] /\ Delays(panel, m))
      BY DEF Between, Good, Base, Popups
    <2>2. pending # {} => panel.mapped[m] /\ IsDir(m, panel.delayMenuNum[m])
      BY <2>1, CalloutsWait DEF Delays
    <2>3. Cardinality(pending) <= 1
      <3>1. CASE pending = {}
        BY <3>1, FS_EmptySet
      <3>2. CASE pending # {}
        <4>1. PICK i : pending = {i}
          BY <2>1, <3>2 DEF Once, CalloutsOf
        <4>2. Cardinality({i}) = 1
          BY FS_Singleton
        <4> HIDE DEF pending
        <4>3. Cardinality(pending) = 1
          BY <4>1, <4>2
        <4> QED
          BY <4>3
      <3> QED
        BY <3>1, <3>2
    <2> QED
      BY <2>2, <2>3 DEF Popup
  <1> QED
    BY StaysBetween, <1>1, PTL

\* The child of a menu is a submenu of its own that is on the screen, also after a
\* callout has unmapped one behind its parent's back.
THEOREM ChildIsOpenCorrect == Spec => []ChildIsOpen
  <1>1. Between => ChildIsOpen
    BY DEF Between, Good, Base, Children, ChildIsOpen
  <1> QED
    BY StaysBetween, <1>1, PTL

\* A tooltip is on the screen exactly while a callout is there to take it away.
THEOREM TooltipTimersCorrect == Spec => []TooltipTimers
  <1>1. Between => TooltipTimers
    BY CalloutsWait DEF Between, Good, Tips, TooltipTimers
  <1> QED
    BY StaysBetween, <1>1, PTL

\* With auto-hide on, the start menu never stands over a taskbar that hid under it, unless
\* a key of menus or an item of the start menu is bound to QVWM_POPUP_MENU: that maps it
\* by Menu::MapMenu, which leaves the bar where it is (function.cc:113).
THEOREM StartMenuShowsCorrect ==
    ASSUME StartShows
    PROVE  Spec => []StartMenuShowsTaskbar
  <1>1. Between => StartMenuShowsTaskbar
    BY DEF Between, Good, Base, Starts, Above, StartMenuShowsTaskbar
  <1> QED
    BY StaysBetween, <1>1, PTL
=============================================================================
