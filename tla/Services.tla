------------------------------- MODULE Services -------------------------------
(***************************************************************************)
(* The program round the window manager: how it starts, restarts and ends; *)
(* the options it hands to itself when it restarts; MainLoop's select over *)
(* the display, the session manager and the FIFO of remote commands, while *)
(* signals come in; and the children.                                      *)
(***************************************************************************)
EXTENDS Children, Session, TLC

CONSTANTS
    Argvs,          \* how qvwm may be started, argv[0] aside
    MAX_FAILURE_COUNT,
    BUF_SIZE,       \* of RemoteCommand::process
    Chunks,         \* what may be written to the FIFO at a time
    Hosts,          \* builds, environments and qvwmrcs
    MaxInputs       \* bound: how much comes from outside

ASSUME ServicesType ==
    /\ MAX_FAILURE_COUNT \in Nat /\ BUF_SIZE \in Nat \ {0} /\ MaxInputs \in Nat
ASSUME HostsType ==
    Hosts \subseteq [bsd : BOOLEAN, broken : BOOLEAN, ssext : BOOLEAN, lockMsec : Nat,
                    indicators : Seq(Names), manager : BOOLEAN]

VARIABLES
    life,       \* the program: where it is, argv, and what argv says
    env,        \* the argv of its user, and the host
    blocked,    \* MainLoop is in IceProcessMessages with nothing to read
    rmt,        \* the FIFO
    inputs      \* bound: inputs so far

vars == <<life, env, blocked, rmt, inputs, children, session>>

\* bsd: signal() leaves the signal blocked in its handler.  broken: qvwmrc has a
\* syntax error.  The others are its variables, and SESSION_MANAGER.
Host(bsd, broken, ssext, lockMsec, indicators, manager) ==
    [bsd |-> bsd, broken |-> broken, ssext |-> ssext, lockMsec |-> lockMsec,
     indicators |-> indicators, manager |-> manager]
-----------------------------------------------------------------------------
(* Options *)

Numbers == {ToString(n) : n \in 0..MAX_FAILURE_COUNT + 1}
atoi(arg) == CHOOSE n \in 0..MAX_FAILURE_COUNT + 1 : ToString(n) = arg

\* The arguments of argv, -c with its value as one.
Options(argv) ==
    LET from[i \in 1..Len(argv) + 1] ==
            IF i > Len(argv) THEN <<>>
            ELSE LET next == IF argv[i] = "-c" THEN i + 2 ELSE i + 1
                 IN  <<SubSeq(argv, i, next - 1)>> \o from[next]
    IN  from[1]

\* AnalizeOptions: the last -c counts, and Usage ends a program with other arguments.
FailCount(argv) ==
    LET counts == SelectSeq(Options(argv), LAMBDA opt : opt[1] = "-c")
    IN  IF counts = <<>> THEN 0 ELSE atoi(Last(counts)[2])

Legal(argv) == \A i \in DOMAIN Options(argv) : Options(argv)[i][1] \notin Numbers

Has(argv, opt) == \E i \in DOMAIN argv : argv[i] = opt

OfRestart == {"-r", "-n", "-c"}
OwnOptions(argv) == SelectSeq(Options(argv), LAMBDA opt : opt[1] \notin OfRestart)

HowTo(minimumRestart, count) ==
    IF minimumRestart THEN <<"-n">>
    ELSE <<"-r">> \o (IF count > 0 THEN <<"-c", ToString(count)>> ELSE <<>>)

\* Mutant: the value of -c is handed on.
RestartArgsKeepValue(argv, minimumRestart, count) ==
    SelectSeq(argv, LAMBDA arg : arg \notin OfRestart) \o HowTo(minimumRestart, count)

\* RestartQvwm: argv without the options of a restart, and those of this one.
RestartArgs(argv, minimumRestart, count) ==
    FlattenSeq(OwnOptions(argv)) \o HowTo(minimumRestart, count)
-----------------------------------------------------------------------------
(* Lives *)

\* mask: the signals blocked since before exec.  crashes (a history variable): how
\* often in a row qvwm has been restarted because it crashed.
Begin(argv, mask, crashes) ==
    [phase |-> IF Legal(argv) THEN "start" ELSE "gone", argv |-> argv,
     failCount |-> FailCount(argv), mask |-> mask, crashes |-> crashes]

\* rmt: what is in the FIFO, and, as history variables, what has been written to it,
\* the commands interpreted, and whether process has discarded anything.
NoRemote == [fifo |-> <<>>, written |-> <<>>, done |-> <<>>, cut |-> FALSE]

Exec(argv, mask, crashes) ==
    /\ life' = Begin(argv, mask, crashes)
    /\ NewProgram(Has(argv, "-r"))
    /\ Disconnected /\ rmt' = NoRemote /\ blocked' = FALSE

Gone ==
    /\ life' = [life EXCEPT !.phase = "gone"]
    /\ procs' = <<>> /\ sigchld' = FALSE /\ coList' = <<>> /\ scr' = NoScreenSaver
    /\ starting' = 0 /\ pendingList' = <<>> /\ indList' = <<>> /\ execList' = <<>>
    /\ Disconnected /\ rmt' = NoRemote /\ blocked' = FALSE

Mask(sig) == IF env.host.bsd THEN life.mask \cup {sig} ELSE life.mask

\* TrapSignal restarts qvwm from the handler; the kernel ends a program that has the
\* signal blocked.
SIGSEGV ==
    IF "SEGV" \in life.mask \/ life.failCount >= MAX_FAILURE_COUNT THEN Gone
    ELSE Exec(RestartArgs(life.argv, FALSE, life.failCount + 1), Mask("SEGV"), life.crashes + 1)

\* SmcCloseConnection and its like are undefined once CloseConnection has been here.
SessionLost == conn.status /\ ~conn.open

\* RestartQvwm and Desktop::FinishQvwm delete the session first.
RestartQvwm(mask) ==
    \/ Exec(RestartArgs(life.argv, FALSE, 0), mask, 0)
    \/ SessionLost /\ SIGSEGV

FinishDesktop == Gone \/ (SessionLost /\ SIGSEGV)

\* FinishQvwm of main.cc, n times: the session manager is asked to end the session.
FinishQvwm(n) ==
    \/ ~conn.status /\ FinishDesktop
    \/ /\ conn.status
       /\ IF conn.open THEN RequestQuit(n) ELSE UNCHANGED session
       /\ UNCHANGED <<life, blocked, rmt, children>>
    \/ SessionLost /\ SIGSEGV

\* MainLoop is where it looks for something to do.
AtLoop == life.phase = "run" /\ starting = 0 /\ ~blocked

\* The lexer and the parser call RestartQvwm(True) before the display is up.
ParseError ==
    /\ life.phase = "start" /\ env.host.broken /\ ~Has(life.argv, "-n")
    /\ Exec(RestartArgs(life.argv, TRUE, 0), life.mask, life.crashes)
    /\ UNCHANGED <<env, inputs>>

\* The rest of main: indicators, ScreenSaver, Session, RemoteCommand.
InitQvwm ==
    /\ life.phase = "start" /\ (Has(life.argv, "-n") \/ ~env.host.broken)
    /\ life' = [life EXCEPT !.phase = "run"]
    /\ IF Has(life.argv, "-n") THEN UNCHANGED <<procs, pendingList>> ELSE StartIndicators(env.host.indicators)
    /\ NewScreenSaver(env.host.ssext, IF Has(life.argv, "-n") THEN 0 ELSE env.host.lockMsec)
    /\ ConnectSessionManager(env.host.manager)
    /\ UNCHANGED <<env, blocked, rmt, inputs, sigchld, starting, indList, execList>>
-----------------------------------------------------------------------------
(* Remote commands: a letter is a name, "nl" ends a command *)

\* Mutant: the newline is left at the start of the next command.
InterpretedFrom(buf) ==
    LET from[cmd, ptr \in 1..Len(buf) + 1] ==
            IF ptr > Len(buf) THEN <<>>
            ELSE IF buf[ptr] = "nl" THEN <<SubSeq(buf, cmd, ptr - 1)>> \o from[ptr, ptr + 1]
            ELSE from[cmd, ptr + 1]
    IN  from[1, 1]

\* The loop of process: the command that begins at cmd, read up to ptr.
Interpreted(buf) ==
    LET from[cmd, ptr \in 1..Len(buf) + 1] ==
            IF ptr > Len(buf) THEN <<>>
            ELSE IF buf[ptr] = "nl" THEN <<SubSeq(buf, cmd, ptr - 1)>> \o from[ptr + 1, ptr + 1]
            ELSE from[cmd, ptr + 1]
    IN  from[1, 1]

\* What one read gets, and how much of it is Q_EXIT and Q_RESTART; the other commands
\* are for the desktop.  A buffer holds no more commands than newlines.
ReadLen == Min({BUF_SIZE, Len(rmt.fifo)})
Buffer == SubSeq(rmt.fifo, 1, ReadLen)
Calls(cmds, name) == {i \in DOMAIN cmds \cap (1..BUF_SIZE) : cmds[i] = <<name>>}

\* RemoteCommand::process; what follows a restart in the buffer goes with the program.
process ==
    LET cmds == Interpreted(Buffer)
        quits == Cardinality(Calls(cmds, "exit"))
    IN  /\ AtLoop /\ rmt.fifo # <<>>
        /\ IF Calls(cmds, "restart") # {} THEN RestartQvwm(life.mask)
           ELSE \/ /\ quits > 0 /\ ~(conn.status /\ conn.open) /\ FinishQvwm(quits)
                \/ /\ rmt' = [rmt EXCEPT !.fifo = SubSeq(@, ReadLen + 1, Len(@)), !.done = @ \o cmds,
                                         !.cut = @ \/ Last(Buffer) # "nl"]
                   /\ IF quits > 0 /\ conn.open THEN RequestQuit(quits) ELSE UNCHANGED session
                   /\ quits > 0 => conn.status
                   /\ UNCHANGED <<life, blocked, children>>
        /\ UNCHANGED <<env, inputs>>

Write(chunk) ==
    /\ life.phase = "run"
    /\ rmt' = [rmt EXCEPT !.fifo = @ \o chunk, !.written = @ \o chunk]
    /\ UNCHANGED <<life, blocked, children, session>>
-----------------------------------------------------------------------------
(* What comes from outside *)

\* A handler that interrupts select makes it fail, and FD_ISSET finds the bits that
\* MainLoop has set: with a connection it reads a message, or waits for one.
SIGCHLD ==
    /\ life.phase # "gone" /\ TrapChild
    /\ blocked' \in {blocked, blocked \/ (AtLoop /\ conn.open /\ toQv = <<>>)}
    /\ UNCHANGED <<life, env, rmt, inputs, session>>

\* MainLoop's IceProcessMessages, with a message to read.
IceProcessMessages ==
    /\ life.phase = "run" /\ starting = 0 /\ ProcessMessage
    /\ blocked' = FALSE
    /\ UNCHANGED <<life, env, rmt, inputs, children>>

\* Before there is a Session, FinishQvwm reads the status of a null pointer.
SIGTERM == IF life.phase = "start" THEN SIGSEGV ELSE FinishQvwm(1)

Signal ==
    /\ life.phase # "gone"
    /\ SIGTERM \/ SIGSEGV \/ ("HUP" \notin life.mask /\ RestartQvwm(Mask("HUP")))

\* Die lets Desktop::FinishQvwm finish the program.
Die ==
    /\ life.phase = "run" /\ starting = 0 /\ toQv # <<>> /\ Head(toQv) = "Die" /\ conn.open
    /\ FinishDesktop
    /\ UNCHANGED <<env, inputs>>

\* Q_EXIT, with the dialogs answered, and Q_RESTART.
UserLeaves == AtLoop /\ (FinishQvwm(1) \/ RestartQvwm(life.mask))

DesktopInput ==
    /\ AtLoop
    /\ Press \/ PointerMoves \/ (\E name \in Names : ExecCommand(name) \/ MapRequest(name))
    /\ UNCHANGED <<life, blocked, rmt, session>>

ManagerInput ==
    /\ ManagerCancels \/ ManagerDies \/ (\E shutdown \in BOOLEAN : ManagerAsks(shutdown))
    /\ UNCHANGED <<life, blocked, rmt, children>>

Input ==
    /\ inputs < MaxInputs /\ inputs' = inputs + 1
    /\ Signal \/ UserLeaves \/ DesktopInput \/ ManagerInput \/ (\E chunk \in Chunks : Write(chunk))
    /\ UNCHANGED env

ChildrenStep ==
    /\ \/ StorePid
       \/ AtLoop /\ (Callout \/ TimePasses)
       \/ \E p \in DOMAIN procs : ChildExit(p)
    /\ UNCHANGED <<life, env, blocked, rmt, inputs, session>>

Manager(A) == A /\ UNCHANGED <<life, env, blocked, rmt, inputs, children>>

Init ==
    /\ \E argv \in Argvs, host \in Hosts :
         /\ env = [argv |-> argv, host |-> host]
         /\ life = Begin(argv, {}, FailCount(argv))
    /\ blocked = FALSE /\ rmt = NoRemote /\ inputs = 0
    /\ ChildrenInit /\ SessionInit

Next ==
    \/ ParseError \/ InitQvwm \/ process \/ SIGCHLD \/ IceProcessMessages \/ Die
    \/ ChildrenStep \/ Manager(ManagerReceives) \/ Manager(ManagerGoesOn)
    \/ Input

\* MainLoop looks at the connection whenever no event of the display is waiting, a
\* vfork returns, and the session manager answers what it is asked.
Fairness ==
    /\ WF_vars(IceProcessMessages) /\ WF_vars(Die)
    /\ WF_vars(StorePid /\ UNCHANGED <<life, env, blocked, rmt, inputs, session>>)
    /\ WF_vars(Manager(ManagerReceives)) /\ WF_vars(Manager(ManagerGoesOn))

Spec == Init /\ [][Next]_vars /\ Fairness
-----------------------------------------------------------------------------
(* Properties *)

\* With a screen saver the locker is running or will be started: its death, however
\* it is mixed with input and other deaths, leaves a callout of Start.  Only a locker
\* that is dead before vfork's value is stored (raced) is waited for forever.
LockerArmed ==
    life.phase = "run" /\ scr.m_lockMsec > 0 /\ ~scr.raced =>
        \/ starting # 0
        \/ CalloutsOf(coList, "Start") # {}
        \/ scr.m_lockerPid # 0 /\ procs[scr.m_lockerPid] # "gone"

\* One SIGCHLD stands for any number of children: none is left a zombie (but for those
\* a -n restart finds), and none that has been reaped stands in the taskbar, unless it
\* was reaped before its window came.
DeadForgotten ==
    life.phase = "run" =>
        /\ Zombies # {} => sigchld \/ Has(life.argv, "-n")
        /\ scr.m_lockerPid # 0 /\ procs[scr.m_lockerPid] = "gone" => scr.raced
        /\ \A i \in DOMAIN indList : procs[indList[i].pid] = "gone" => indList[i].late

\* A user who leaves the session has left it, or the session manager has been stopped:
\* SaveYourself, phase 2 and Die follow each other, although children die in between
\* and other requests cross.
Quitting ==
    conn.open /\ (sm.shutdown \/ \E i \in DOMAIN toSm : toSm[i] = "SaveYourselfRequest")
QuitHonoured == Quitting ~> ~Quitting

\* However qvwm has restarted itself, it has the options its user has given it, and
\* the failures in a row are counted: a restart with -n alone forgets them.
RestartArgsKept ==
    /\ Legal(life.argv)
    /\ OwnOptions(life.argv) = OwnOptions(env.argv)
    /\ life.failCount = life.crashes \/ (env.host.broken /\ life.failCount < life.crashes)

\* As long as no read has been cut short, each command interpreted is what stands
\* between two newlines that were written, in their order.
CommandsWhole ==
    LET newlines == {0} \cup {i \in DOMAIN rmt.written : rmt.written[i] = "nl"}
        End(k) == CHOOSE n \in newlines : Cardinality({m \in newlines : m < n}) = k
    IN  ~rmt.cut =>
            \A k \in DOMAIN rmt.done : rmt.done[k] = SubSeq(rmt.written, End(k - 1) + 1, End(k) - 1)
=============================================================================
