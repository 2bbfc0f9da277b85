---------------------------- MODULE MCTaskSwitcher ----------------------------
(***************************************************************************)
(* Small instances of TaskSwitcher: two tasks and a third window that is a *)
(* task of its own or a transient of the first.                            *)
(***************************************************************************)
EXTENDS TaskSwitcher, TLC

CONSTANTS main, dialog, other

DialogOfMain == [w \in Window |-> IF w = dialog THEN main ELSE NULL]
NoTransient == [w \in Window |-> NULL]
NoFlags == [w \in Window |-> {}]
Tasks == Permutations({main, dialog})
=============================================================================
