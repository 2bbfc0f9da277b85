------------------------------ MODULE MCServices ------------------------------
(***************************************************************************)
(* Small instances of Services.                                            *)
(***************************************************************************)
EXTENDS Services

WithOptions == <<"-s", "-c", "1", "-f">>
Starts == {WithOptions}

\* A host with children, one with a session and an indicator, one that restarts.
Watched(ssext) == Host(TRUE, FALSE, ssext, 2, <<"clock">>, FALSE)
Managed == Host(TRUE, FALSE, TRUE, 0, <<"clock">>, TRUE)
Restarting == Host(FALSE, TRUE, TRUE, 0, <<>>, FALSE)
AllHosts == {Watched(TRUE), Watched(FALSE), Managed, Restarting}

\* The second is longer than the buffer, the third has no newline.
Writes == {<<"exit", "nl">>, <<"tile", "nl", "tile", "nl", "restart", "nl">>, <<"w", "w">>}
=============================================================================
