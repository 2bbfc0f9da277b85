-------------------------------- MODULE Session --------------------------------
(***************************************************************************)
(* Session, the client of the session manager: the save-yourself protocol  *)
(* of XSMP over a connection that keeps messages in order.  The session    *)
(* manager is not part of qvwm; it sends what the protocol allows.         *)
(***************************************************************************)
EXTENDS Naturals, Sequences

VARIABLES
    conn,       \* the Session: status, iceConnFd >= 0, and saveDone
    sm,         \* the session manager: where it stands, and if it shuts down
    toQv, toSm  \* messages on their way

session == <<conn, sm, toQv, toSm>>

NoSession == [status |-> FALSE, open |-> FALSE, saveDone |-> FALSE]
NoManager == [phase |-> "idle", shutdown |-> FALSE]

SessionInit == conn = NoSession /\ sm = NoManager /\ toQv = <<>> /\ toSm = <<>>

\* The connection goes with the program.
Disconnected == conn' = NoSession /\ sm' = NoManager /\ toQv' = <<>> /\ toSm' = <<>>

\* The constructor of Session, which looks for SESSION_MANAGER.
ConnectSessionManager(getenv) ==
    /\ conn' = IF getenv THEN [NoSession EXCEPT !.status = TRUE, !.open = TRUE] ELSE conn
    /\ UNCHANGED <<sm, toQv, toSm>>
-----------------------------------------------------------------------------
(* Callbacks, run by IceProcessMessages *)

Received == toQv' = Tail(toQv)

SaveYourselfDone == toSm' = Append(toSm, "SaveYourselfDone") /\ conn' = [conn EXCEPT !.saveDone = TRUE]

\* Mutant: what has still to be saved is taken for saved.
SaveYourselfTaken ==
    \/ toSm' = Append(toSm, "Phase2Request") /\ conn' = [conn EXCEPT !.saveDone = TRUE]
    \/ SaveYourselfDone

\* SmcRequestSaveYourselfPhase2 may fail.
SaveYourself ==
    \/ toSm' = Append(toSm, "Phase2Request") /\ conn' = [conn EXCEPT !.saveDone = FALSE]
    \/ SaveYourselfDone

DoneOnce == IF conn.saveDone THEN UNCHANGED <<conn, toSm>> ELSE SaveYourselfDone

ShutdownCancelled == DoneOnce

\* Mutant: it is not noted that the windows have been saved.
SaveYourselfPhase2Again ==
    IF conn.saveDone THEN UNCHANGED <<conn, toSm>>
    ELSE toSm' = Append(toSm, "SaveYourselfDone") /\ UNCHANGED conn

SaveYourselfPhase2 == DoneOnce

CloseConnection == conn' = [conn EXCEPT !.open = FALSE] /\ UNCHANGED toSm

\* Any message but Die.
ProcessMessage ==
    /\ toQv # <<>> /\ conn.open /\ Head(toQv) # "Die"
    /\ Received /\ UNCHANGED sm
    /\ CASE Head(toQv) = "SaveYourself" -> SaveYourself
         [] Head(toQv) = "SaveYourselfPhase2" -> SaveYourselfPhase2
         [] Head(toQv) = "ShutdownCancelled" -> ShutdownCancelled
         [] Head(toQv) = "SaveComplete" -> UNCHANGED <<conn, toSm>>
         [] Head(toQv) = "IOError" -> CloseConnection

\* RequestQuit, n times.
RequestQuit(n) ==
    /\ toSm' = toSm \o [i \in 1..n |-> "SaveYourselfRequest"]
    /\ UNCHANGED <<conn, sm, toQv>>
-----------------------------------------------------------------------------
(* The session manager *)

Send(msg) == toQv' = Append(toQv, msg)
Goes(phase) == sm' = [sm EXCEPT !.phase = phase]

Waiting == sm.phase \in {"asked", "ready", "phase2", "cancelled"}

\* It asks, at a checkpoint or when the user logs out elsewhere.
ManagerAsks(shutdown) ==
    /\ conn.open /\ sm.phase = "idle"
    /\ sm' = [phase |-> "asked", shutdown |-> shutdown] /\ Send("SaveYourself")
    /\ UNCHANGED <<conn, toSm>>

ManagerReceives ==
    /\ conn.open /\ sm.phase # "lost" /\ toSm # <<>> /\ toSm' = Tail(toSm) /\ UNCHANGED conn
    /\ CASE Head(toSm) = "Phase2Request" /\ sm.phase = "asked" -> Goes("ready") /\ UNCHANGED toQv
         [] Head(toSm) = "SaveYourselfRequest" /\ sm.phase = "idle" ->
                sm' = [phase |-> "asked", shutdown |-> TRUE] /\ Send("SaveYourself")
         [] Head(toSm) = "SaveYourselfDone" ->
                Goes(IF sm.phase = "cancelled" THEN "idle" ELSE "saved") /\ UNCHANGED toQv
         [] OTHER -> UNCHANGED <<sm, toQv>>

\* It goes on once the other clients have saved themselves.
ManagerGoesOn ==
    /\ conn.open
    /\ \/ sm.phase = "ready" /\ Goes("phase2") /\ Send("SaveYourselfPhase2")
       \/ /\ sm.phase = "saved"
          /\ Goes(IF sm.shutdown THEN "dying" ELSE "idle")
          /\ Send(IF sm.shutdown THEN "Die" ELSE "SaveComplete")
    /\ UNCHANGED <<conn, toSm>>

ManagerCancels ==
    /\ conn.open /\ sm.shutdown /\ sm.phase \in {"asked", "ready", "phase2", "saved"}
    /\ sm' = [phase |-> IF sm.phase = "saved" THEN "idle" ELSE "cancelled", shutdown |-> FALSE]
    /\ Send("ShutdownCancelled")
    /\ UNCHANGED <<conn, toSm>>

ManagerDies ==
    /\ conn.open /\ sm.phase # "lost"
    /\ sm' = [phase |-> "lost", shutdown |-> FALSE] /\ Send("IOError") /\ toSm' = <<>>
    /\ UNCHANGED conn
-----------------------------------------------------------------------------
(* Properties *)

Dones == {i \in DOMAIN toSm : toSm[i] = "SaveYourselfDone"}

\* Whatever is cancelled, and whichever request crosses it, the session manager is
\* sent one SaveYourselfDone for each SaveYourself, and never one it does not wait
\* for: saveDone knows which callback has sent it.
SaveAnsweredOnce ==
    conn.open /\ sm.phase # "lost" =>
        \A i, j \in Dones : i = j /\ Waiting
=============================================================================
