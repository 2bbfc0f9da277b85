--------------------------- MODULE MCWindowHistory ---------------------------
(***************************************************************************)
(* A main window, a dialog of its and a third window, none with a hint, for *)
(* the run of WindowHistory.                                               *)
(***************************************************************************)
EXTENDS WindowHistory

CONSTANTS main, dialog, other

DialogOfMain == [w \in Window |-> IF w = dialog THEN main ELSE NULL]
NoFlags == [w \in Window |-> {}]
=============================================================================
