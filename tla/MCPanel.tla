------------------------------- MODULE MCPanel -------------------------------
(***************************************************************************)
(* Small instances of Panel: a desktop without a taskbar, whose start menu *)
(* has two submenus, and one with a taskbar and plain menus.               *)
(***************************************************************************)
EXTENDS Panel

CascadeMenus == {"desktop", "window", "start", "games", "tools"}
CascadeItems ==
    [m \in CascadeMenus |-> IF m = "start" THEN <<"games", "Q_EXEC", "tools">> ELSE <<"Q_EXEC">>]
SharedKey == [m \in CascadeMenus |-> IF m = "start" THEN {{1, 3}} ELSE {}]
NoSharedKey == [m \in CascadeMenus |-> {}]

PlainMenus == {"desktop", "window", "start", "icon", "taskbar"}
PlainItems == [m \in PlainMenus |-> <<IF m = "taskbar" THEN "Q_TOGGLE_AUTOHIDE" ELSE "Q_EXEC">>]
NoKey == [m \in PlainMenus |-> {}]
=============================================================================
