------------------------------- MODULE Children -------------------------------
(***************************************************************************)
(* The processes qvwm starts and waits for: the locker of ScreenSaver, the *)
(* indicators, and programs started by PAGE commands.  Children die when   *)
(* they like; SIGCHLD is handled between any two steps of the program.     *)
(***************************************************************************)
EXTENDS Timer, Integers

CONSTANTS
    Names,          \* names of windows, for indicators and PAGE commands
    MaxProcs        \* bound: processes started

ASSUME ChildrenType == MaxProcs \in Nat

VARIABLES
    procs,          \* what has become of each child, by pid
    sigchld,        \* a SIGCHLD is to be handled: one for any number of dead
    coList,         \* Timer::coList, the callouts of ScreenSaver
    scr,            \* the ScreenSaver, and what it asks the server
    starting,       \* pid of a locker vfork has returned and m_lockerPid lacks
    pendingList,    \* Indicator::pendingList
    indList,        \* Indicator::indList
    execList        \* ExecPending::m_pendingList, the names

children == <<procs, sigchld, coList, scr, starting, pendingList, indList, execList>>

\* m_lockMsec in ticks of a second, 0 without a screen saver; ssext: the build uses the
\* server's extension.  idle and moved are the server's: ticks since the last input (up
\* to m_lockMsec), and whether the pointer has moved since QueryPointer.  raced is a
\* history variable: the locker was dead before m_lockerPid was set.
NoScreenSaver ==
    [m_lockerPid |-> 0, m_lockMsec |-> 0, ssext |-> FALSE, idle |-> 0, moved |-> FALSE, raced |-> FALSE]

Zombies == {p \in DOMAIN procs : procs[p] = "zombie"}
CanFork == Len(procs) < MaxProcs
Reaped(ps, dead) == [p \in DOMAIN ps |-> IF p \in dead THEN "gone" ELSE ps[p]]

\* A new program has no list and no timer; its children stay, and a SIGCHLD not yet
\* handled is lost at exec.  main reaps the dead first if it is given -r.
NewProgram(restart) ==
    /\ procs' = IF restart THEN Reaped(procs, Zombies) ELSE procs
    /\ sigchld' = FALSE /\ coList' = <<>> /\ scr' = NoScreenSaver /\ starting' = 0
    /\ pendingList' = <<>> /\ indList' = <<>> /\ execList' = <<>>

ChildrenInit ==
    /\ procs = <<>> /\ sigchld = FALSE /\ coList = <<>> /\ starting = 0 /\ scr = NoScreenSaver
    /\ pendingList = <<>> /\ indList = <<>> /\ execList = <<>>
-----------------------------------------------------------------------------
(* ScreenSaver *)

StartIn(list, ticks) == InsertCallout(list, ticks, "Start")

\* The constructor.
NewScreenSaver(ssext, lockMsec) ==
    /\ scr' = [NoScreenSaver EXCEPT !.ssext = ssext, !.m_lockMsec = lockMsec]
    /\ coList' = IF lockMsec = 0 THEN <<>>
                 ELSE StartIn(IF ssext THEN <<>> ELSE InsertCallout(<<>>, 1, "QueryPointer"), lockMsec)

ResetTimer(list) == StartIn(ResetTimeout(list, "Start"), scr.m_lockMsec)

\* Start, taken from the head of the list: the server may have seen input since.  The
\* parent waits in vfork until the child has called exec.
Start ==
    /\ coList' = IF scr.ssext /\ scr.idle < scr.m_lockMsec
                 THEN StartIn(Tail(coList), scr.m_lockMsec - scr.idle) ELSE Tail(coList)
    /\ IF (scr.ssext /\ scr.idle < scr.m_lockMsec) \/ scr.m_lockerPid # 0
       THEN UNCHANGED <<procs, starting>>
       ELSE CanFork /\ procs' = Append(procs, "alive") /\ starting' = Len(procs')
    /\ UNCHANGED <<sigchld, scr, pendingList, indList, execList>>

\* The assignment m_lockerPid = vfork().
StorePid ==
    /\ starting # 0
    /\ scr' = [scr EXCEPT !.m_lockerPid = starting, !.raced = @ \/ procs[starting] = "gone"]
    /\ starting' = 0
    /\ UNCHANGED <<procs, sigchld, coList, pendingList, indList, execList>>

QueryPointer ==
    LET list == IF scr.moved THEN ResetTimer(Tail(coList)) ELSE Tail(coList)
    IN  /\ coList' = InsertCallout(list, 1, "QueryPointer")
        /\ scr' = [scr EXCEPT !.moved = FALSE]
        /\ UNCHANGED <<procs, sigchld, starting, pendingList, indList, execList>>

\* CheckTimeout runs what has expired.
Callout ==
    /\ starting = 0 /\ coList # <<>> /\ 1 \in Expired(coList)
    /\ IF coList[1].cb = "Start" THEN Start ELSE QueryPointer

TimePasses ==
    /\ starting = 0 /\ coList # <<>> /\ Expired(coList) = {}
    /\ coList' = Tick(coList)
    /\ scr' = [scr EXCEPT !.idle = IF @ < scr.m_lockMsec THEN @ + 1 ELSE @]
    /\ UNCHANGED <<procs, sigchld, starting, pendingList, indList, execList>>

\* A key or a button: ButtonPressProc and KeyPressProc; and the pointer.
Press ==
    /\ starting = 0 /\ scr.m_lockMsec > 0
    /\ coList' = IF scr.ssext THEN coList ELSE ResetTimer(coList)
    /\ scr' = [scr EXCEPT !.idle = 0]
    /\ UNCHANGED <<procs, sigchld, starting, pendingList, indList, execList>>

PointerMoves ==
    /\ scr.m_lockMsec > 0
    /\ scr' = [scr EXCEPT !.idle = 0, !.moved = ~scr.ssext]
    /\ UNCHANGED <<procs, sigchld, coList, starting, pendingList, indList, execList>>
-----------------------------------------------------------------------------
(* Windows that have been waited for *)

FirstNamed(list, name) == {i \in DOMAIN list : list[i] = name /\ ~\E j \in 1..i - 1 : list[j] = name}

\* The indicators of qvwmrc are started while it is read.
StartIndicators(names) ==
    /\ Len(procs) + Len(names) <= MaxProcs
    /\ procs' = procs \o [i \in DOMAIN names |-> "alive"]
    /\ pendingList' = [i \in DOMAIN names |-> [name |-> names[i], pid |-> Len(procs) + i]]

\* ExecCommand of "PAGE[x,y]name command".
ExecCommand(name) ==
    /\ starting = 0 /\ CanFork
    /\ procs' = Append(procs, "alive") /\ execList' = Append(execList, name)
    /\ UNCHANGED <<sigchld, coList, scr, starting, pendingList, indList>>

\* MapRequestProc of a new window: an indicator, or a Qvwm on the page it was
\* started for.  late (a history variable): its process was reaped before.
\* The window of a pending indicator goes into the taskbar.
CreateIndicator(i) ==
    LET ind == pendingList[i]
    IN  /\ pendingList' = RemoveAt(pendingList, i)
        /\ indList' = Append(indList, [name |-> ind.name, pid |-> ind.pid,
                                       late |-> procs[ind.pid] = "gone"])

MapRequest(name) ==
    LET wanted == [i \in DOMAIN pendingList |-> pendingList[i].name]
        hit == FirstNamed(wanted, name)
        page == FirstNamed(execList, name)
    IN  /\ starting = 0 /\ (hit # {} \/ page # {})
        /\ IF hit # {}
           THEN (\E i \in hit : CreateIndicator(i)) /\ UNCHANGED execList
           ELSE /\ \E i \in page : execList' = RemoveAt(execList, i)
                /\ UNCHANGED <<pendingList, indList>>
        /\ UNCHANGED <<procs, sigchld, coList, scr, starting>>
-----------------------------------------------------------------------------
(* The death of children *)

ChildExit(p) ==
    /\ procs[p] = "alive"
    /\ procs' = [procs EXCEPT ![p] = "zombie"] /\ sigchld' = TRUE
    /\ UNCHANGED <<coList, scr, starting, pendingList, indList, execList>>

\* NotifyDeadPid of ScreenSaver, then of Indicator, for each of the dead.
NotifyDead(dead) ==
    /\ procs' = Reaped(procs, dead) /\ sigchld' = FALSE
    /\ IF scr.m_lockerPid \in dead
       THEN coList' = StartIn(coList, scr.m_lockMsec) /\ scr' = [scr EXCEPT !.m_lockerPid = 0]
       ELSE UNCHANGED <<coList, scr>>
    /\ indList' = SelectSeq(indList, LAMBDA ind : ind.pid \notin dead \ {scr.m_lockerPid})
    /\ UNCHANGED <<starting, pendingList, execList>>

\* Mutant: one child is waited for at each signal.
TrapChildOnce == sigchld /\ \E p \in Zombies : NotifyDead({p})

\* Mutant: the death of the locker does not start the timer.
TrapChildUnarmed ==
    /\ sigchld
    /\ procs' = Reaped(procs, Zombies) /\ sigchld' = FALSE
    /\ scr' = IF scr.m_lockerPid \in Zombies THEN [scr EXCEPT !.m_lockerPid = 0] ELSE scr
    /\ indList' = SelectSeq(indList, LAMBDA ind : ind.pid \notin Zombies)
    /\ UNCHANGED <<coList, starting, pendingList, execList>>

TrapChild == sigchld /\ NotifyDead(Zombies)
=============================================================================
