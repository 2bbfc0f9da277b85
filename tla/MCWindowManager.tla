--------------------------- MODULE MCWindowManager ---------------------------
(***************************************************************************)
(* Small instances of WindowManager: a main window, its transient and a    *)
(* second main window, with the hints and settings each run asks about.    *)
(***************************************************************************)
EXTENDS WindowManager

CONSTANTS main, dialog, other

DialogOfMain == [w \in Window |-> IF w = dialog THEN main ELSE NULL]
NoFlags == [w \in Window |-> {}]
OtherNoFocus == [w \in Window |-> IF w = other THEN {"NO_FOCUS"} ELSE {}]

Buttons == {"BUTTON1", "BUTTON2"}
MenuFunctions == {"Q_RESTORE", "Q_MINIMIZE", "Q_MAXIMIZE"}
RollFunctions == {"Q_CHANGE_WINDOW", "Q_CHANGE_WINDOW_BACK"}
Messages == {"WIN_STATE_MINIMIZED", "~WIN_STATE_MINIMIZED"}
PlainFunctions == Buttons \cup MenuFunctions \cup RollFunctions \cup Messages

\* The loops over the windows, and what moves the focus while they run.
RaceFunctions ==
    RollFunctions \cup {"Q_CHANGE_WINDOW_INSCR", "Q_CHANGE_WINDOW_BACK_INSCR", "Q_EXPAND",
                        "Q_MINIMIZE_ALL", "Q_RESTORE_ALL", "BUTTON1", "WM_CHANGE_STATE",
                        "Q_RAISE_FOCUS", "Q_FOCUS"}

\* What changes the attributes of a window at run time.
HintFunctions ==
    {"Q_TOGGLE_FOCUS", "Q_TOGGLE_TBUTTON", "Q_TOGGLE_TITLE", "WIN_STATE_HIDDEN",
     "Q_MAXIMIZE_ONEWAY"}
=============================================================================
