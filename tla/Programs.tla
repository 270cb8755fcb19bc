------------------------------- MODULE Programs -------------------------------
(***************************************************************************)
(* The main programs, from log_init to the loop that serves clients, on    *)
(* top of LibLog and sharing its descriptor table: init_daemon closes      *)
(* every number, the log's own socket too, and what is opened next takes   *)
(* the numbers from 0.  Six kinds of program:                              *)
(*   "thread"   robot-switch/echo-server and robot-switch/tuling-server    *)
(*   "ignoring" robot-switch-fifo/server, whose start() does not look at   *)
(*              what Create_Socket returns                                 *)
(*   "queue"    robot-switch-fifo/echo-server                              *)
(*   "sleeping" the Tuling queue server, whose main sleeps for ever        *)
(*              whatever epoll_Socket_Start returned                       *)
(*   "robot"    the Yanshee server, which sleeps as well, and whose worker *)
(*              opens the robot's port while main goes on with the clients'*)
(*   "library"  any other user of the log, such as test_liblog.c           *)
(***************************************************************************)
EXTENDS LibLog

CONSTANTS
  Kinds,           \* the kinds of program looked at
  Main, Other,     \* the thread of main, and the program's others, one of which logs at a time
  Types,           \* what the library's user asks log_init for
  MaxUserLines     \* lines the library's user prints (bound)

QueueServers == {"queue", "sleeping", "robot"}
ThreadServers == {"thread", "ignoring"}

ASSUME ProgramsAssumption ==
  Users = {Main, Other} /\ Main # Other
    /\ Kinds \subseteq QueueServers \cup ThreadServers \cup {"library"}
    /\ Types \subseteq {"env", "stdout", "stderr", "file", "rsyslog"} /\ 0..5 \subseteq Nums

VARIABLES
  program,         \* which kind
  mpc,             \* where main stands
  listenFd, epollFd,
  rpc              \* where the Yanshee server's worker stands

mainVars == <<program, mpc, listenFd, epollFd>>
progVars == <<mainVars, rpc>>
allVars == <<logVars, progVars>>

\* A program started from a shell has 0, 1 and 2 open; a supervisor may have closed some.
ProgramsInit ==
  /\ LogInit0
  /\ program \in Kinds
  /\ \E std \in IF program = "library" THEN {{0, 1, 2}} ELSE {{0, 1, 2}, {1, 2}, {0, 2}} :
       fdtab = [n \in Nums |-> IF n \in std THEN "std" ELSE NULL]
  /\ mpc = "init" /\ listenFd = NULL /\ epollFd = NULL
  /\ rpc = "none"

StdOpen == ~Marked("stdClosed")

\* The worker has not ended the program.
Alive == rpc # "exited"

MainAt(l) == Alive /\ mpc = l /\ lpc[Main] = "idle"
MainGoto(l) == mpc' = l

\* A step that leaves the log as it is, but for the numbers.
Quiet == UNCHANGED <<start, statics, settings, mutex, calls, syslogVars, files>>

\* The kernel finds a free number, and leaves one.
Room == Cardinality(Free) >= 2

\* Main logs a line and goes on at l.
LogThen(l) ==
  /\ LogPrint(Main)
  /\ MainGoto(l)

-------------------------------------------------------------------------------
(* Start-up *)

\* log_deinit, which does nothing yet, and log_init(LOG_RSYSLOG, NULL)
InitLog ==
  /\ MainAt("init") /\ program # "library"
  /\ LogInit(Main, "rsyslog", <<>>)
  /\ MainGoto("daemon")
  /\ UNCHANGED <<program, listenFd, epollFd, rpc>>

\* init_daemon: the child goes on with every number closed, and glibc keeps its own in
\* mind; or fork fails, which main does not look at.
InitDaemon ==
  /\ MainAt("daemon")
  /\ MainGoto(IF program \in QueueServers THEN "workers" ELSE "listen")
  /\ \/ /\ fdtab' = [n \in Nums |-> NULL]
        /\ Mark(IF \A n \in {0, 1, 2} : fdtab[n] = "std" THEN {<<"daemon", NULL>>} ELSE {<<"daemon", NULL>>, <<"stdClosed", NULL>>})
     \/ UNCHANGED fdtab /\ Mark(IF \A n \in {0, 1, 2} : fdtab[n] = "std" THEN {} ELSE {<<"stdClosed", NULL>>})
  /\ Quiet /\ UNCHANGED <<program, listenFd, epollFd, rpc>>

\* task_worker_start: the line it logs is the first after init_daemon, ...
StartWorkers ==
  /\ MainAt("workers")
  /\ LogThen("create")
  /\ UNCHANGED <<program, listenFd, epollFd, rpc>>

\* ... and then come the threads, whose creation is not checked.  Of the workers only the
\* Yanshee server's opens anything before the first task.
CreateWorkers ==
  /\ MainAt("create")
  /\ MainGoto("listen")
  /\ rpc' \in IF program = "robot" THEN {"none", "socket"} ELSE {"none"}
  /\ Quiet /\ UNCHANGED <<fdtab, marks, program, listenFd, epollFd>>

\* socket(), the options, bind() and listen(): each may fail.
Listen ==
  /\ MainAt("listen")
  /\ \/ /\ Room /\ listenFd' = Lowest
        /\ fdtab' = [fdtab EXCEPT ![Lowest] = "listen"]
        /\ \E l \in {IF program \in QueueServers THEN "epoll" ELSE "accept", "bindFailed", "failed"} :
             /\ MainGoto(l)
             /\ Mark(IF l = "failed" THEN {<<"listenFailed", NULL>>} ELSE {})
     \/ MainGoto("failed") /\ UNCHANGED <<listenFd, fdtab, marks>>
  /\ Quiet /\ UNCHANGED <<program, epollFd, rpc>>

\* Every failure is logged first, then what is open is closed - but not when listen() failed.
BindFailed == MainAt("bindFailed") /\ LogThen("closeListen") /\ UNCHANGED <<program, listenFd, epollFd, rpc>>
EpollFailed == MainAt("epollFailed") /\ LogThen("closeListen") /\ UNCHANGED <<program, listenFd, epollFd, rpc>>
AddFailed == MainAt("addFailed") /\ LogThen("closeBoth") /\ UNCHANGED <<program, listenFd, epollFd, rpc>>

CloseListen ==
  /\ MainAt("closeListen")
  /\ fdtab' = [fdtab EXCEPT ![listenFd] = NULL]
  /\ MainGoto("stop")
  /\ Quiet /\ UNCHANGED <<marks, program, listenFd, epollFd, rpc>>

CloseBoth ==
  /\ MainAt("closeBoth")
  /\ fdtab' = [fdtab EXCEPT ![listenFd] = NULL, ![epollFd] = NULL]
  /\ MainGoto("stop")
  /\ Quiet /\ UNCHANGED <<marks, program, listenFd, epollFd, rpc>>

Failed == MainAt("failed") /\ LogThen("stop") /\ UNCHANGED <<program, listenFd, epollFd, rpc>>

\* epoll_create, the line about the port, epoll_ctl, pthread_create
CreateEpoll ==
  /\ MainAt("epoll")
  /\ \/ /\ Room /\ epollFd' = Lowest /\ fdtab' = [fdtab EXCEPT ![Lowest] = "epoll"]
        /\ MainGoto("announce")
     \/ MainGoto("epollFailed") /\ UNCHANGED <<epollFd, fdtab>>
  /\ Quiet /\ UNCHANGED <<marks, program, listenFd, rpc>>

Announce == MainAt("announce") /\ LogThen("register") /\ UNCHANGED <<program, listenFd, epollFd, rpc>>

Register ==
  /\ MainAt("register")
  /\ \E l \in {"serve", "addFailed"} : MainGoto(l)
  /\ Quiet /\ UNCHANGED <<fdtab, marks, program, listenFd, epollFd, rpc>>

\* Where main goes when the start failed.
Stop ==
  /\ MainAt("stop")
  /\ MainGoto(CASE program \in {"sleeping", "robot"} -> "asleep" [] program = "ignoring" -> "accept" [] OTHER -> "exited")
  /\ Quiet /\ UNCHANGED <<fdtab, marks, program, listenFd, epollFd, rpc>>

-------------------------------------------------------------------------------
(* Serving *)

\* The listening socket is open under its number.
Listening == \E n \in Nums : n = listenFd /\ fdtab[n] = "listen"

\* Mutant: the accept loop of a thread server without its line.
AcceptUnlogged ==
  /\ MainAt("accept") /\ Room /\ Listening
  /\ fdtab' = [fdtab EXCEPT ![Lowest] = "client"]
  /\ MainGoto("accept")
  /\ Quiet /\ UNCHANGED <<marks, program, listenFd, epollFd, rpc>>

\* accept in the loop of a thread server, then the line about it
AcceptClient ==
  /\ MainAt("accept") /\ Room /\ Listening
  /\ fdtab' = [fdtab EXCEPT ![Lowest] = "client"]
  /\ MainGoto("accepted")
  /\ Quiet /\ UNCHANGED <<marks, program, listenFd, epollFd, rpc>>

\* Without a listening socket accept fails at once, again and again.
AcceptError ==
  /\ MainAt("accept") /\ ~Listening
  /\ MainGoto("accepted")
  /\ Quiet /\ UNCHANGED <<fdtab, marks, program, listenFd, epollFd, rpc>>

Accepted == MainAt("accepted") /\ LogThen("accept") /\ UNCHANGED <<program, listenFd, epollFd, rpc>>

\* The loop of epoll_Socket_Start: the number of clients, every ten seconds.
Status ==
  /\ MainAt("serve")
  /\ LogThen("serve")
  /\ UNCHANGED <<program, listenFd, epollFd, rpc>>

\* The network thread accepts, then logs; and closes a client that has gone.
NetAccept ==
  /\ Alive /\ mpc = "serve" /\ lpc[Other] = "idle" /\ Room /\ Listening
  /\ fdtab' = [fdtab EXCEPT ![Lowest] = "client"]
  /\ Quiet /\ UNCHANGED <<marks, progVars>>

NetClose ==
  /\ Alive /\ mpc = "serve" /\ lpc[Other] = "idle"
  /\ \E n \in Nums : fdtab[n] = "client" /\ fdtab' = [fdtab EXCEPT ![n] = NULL]
  /\ Quiet /\ UNCHANGED <<marks, progVars>>

\* Lines of the network thread, of a worker, or of a client's thread.
OtherLogs ==
  /\ Alive /\ (mpc = "serve" \/ rpc = "serve" \/ \E n \in Nums : fdtab[n] = "client")
  /\ LogPrint(Other)
  /\ UNCHANGED progVars

\* syslogd stops or starts.
SyslogdToggles ==
  /\ program # "library"
  /\ syslogd' = ~syslogd
  /\ Mark({<<"gone", NULL>>})
  /\ UNCHANGED <<start, statics, settings, mutex, calls, fdtab, sysFd, files, progVars>>

ServerStep ==
  \/ InitLog \/ InitDaemon \/ StartWorkers \/ CreateWorkers \/ Listen
  \/ BindFailed \/ EpollFailed \/ AddFailed \/ Failed \/ CloseListen \/ CloseBoth
  \/ CreateEpoll \/ Announce \/ Register \/ Stop
  \/ AcceptClient \/ AcceptError \/ Accepted \/ Status

-------------------------------------------------------------------------------
(* The worker of the Yanshee server *)

WorkerAt(l) == rpc = l /\ lpc[Other] = "idle"
WorkerGoto(l) == rpc' = l

\* It logs a line and goes on at l.
WorkerSays(l) == LogPrint(Other) /\ WorkerGoto(l) /\ UNCHANGED mainVars

\* socket()
RobotSocket ==
  /\ WorkerAt("socket")
  /\ \/ Room /\ fdtab' = [fdtab EXCEPT ![Lowest] = "robot"] /\ WorkerGoto("created")
     \/ WorkerGoto("fatal") /\ UNCHANGED fdtab
  /\ Quiet /\ UNCHANGED <<marks, mainVars>>

RobotCreated == WorkerAt("created") /\ WorkerSays("options")

\* setsockopt(), twice, and bind(), whose failure is not noticed.
RobotOptions ==
  /\ WorkerAt("options")
  /\ \E l \in {"bound", "fatal"} : WorkerGoto(l)
  /\ Quiet /\ UNCHANGED <<fdtab, marks, mainVars>>

RobotBound == WorkerAt("bound") /\ WorkerSays("listen")

\* listen()
RobotListen ==
  /\ WorkerAt("listen")
  /\ \E l \in {"listening", "fatal"} : WorkerGoto(l)
  /\ Quiet /\ UNCHANGED <<fdtab, marks, mainVars>>

RobotListening == WorkerAt("listening") /\ WorkerSays("accept")

\* What failed is logged, then the worker ends the whole program, and all its numbers with it.
RobotFatal == WorkerAt("fatal") /\ WorkerSays("exit")

RobotExit ==
  /\ WorkerAt("exit") /\ WorkerGoto("exited")
  /\ Quiet /\ UNCHANGED <<fdtab, marks, mainVars>>

\* accept: the first time until it succeeds, later whether or not it does; the number of a
\* robot that has gone is overwritten and stays open.
RobotAccept ==
  /\ WorkerAt("accept") \/ WorkerAt("again")
  /\ \/ Room /\ fdtab' = [fdtab EXCEPT ![Lowest] = "robot"]
     \/ rpc = "again" /\ UNCHANGED fdtab
  /\ WorkerGoto("accepted")
  /\ Quiet /\ UNCHANGED <<marks, mainVars>>

RobotAccepted == WorkerAt("accepted") /\ WorkerSays("serve")

\* CheckSocketConnected finds the robot gone.
RobotGone == WorkerAt("serve") /\ WorkerSays("again")

WorkerStep ==
  \/ RobotSocket \/ RobotCreated \/ RobotOptions \/ RobotBound \/ RobotListen \/ RobotListening
  \/ RobotFatal \/ RobotExit \/ RobotAccept \/ RobotAccepted \/ RobotGone

-------------------------------------------------------------------------------
(* Other users of the log *)

\* The program opens a file or a socket of its own.
AppOpen ==
  /\ Cardinality(Free) >= 3 /\ \A n \in Nums : fdtab[n] # "app"
  /\ fdtab' = [fdtab EXCEPT ![Lowest] = "app"]
  /\ Quiet /\ UNCHANGED marks

\* main initialises and ends the log, both threads print.  The sizes and the rotation are set
\* before the first line, and once log_init_once has run the type no longer matters.
LibraryUse ==
  /\ program = "library"
  /\ \/ \E type \in Types : \E name \in IF type = "file" THEN Idents ELSE {<<>>} :
          /\ once = "done" => type = "stdout"
          /\ LogInit(Main, type, name)
     \/ lines < MaxUserLines /\ LogPrint(Main)
     \/ lines < MaxUserLines /\ LogPrint(Other)
     \/ LogDeinit(Main)
     \/ lines = 0 /\ \E n \in SplitSizes : SetSplitSize(Main, n)
     \/ lines = 0 /\ ~rotate /\ SetRotate(Main)
     \/ AppOpen
  /\ UNCHANGED progVars

Next ==
  \/ ServerStep \/ WorkerStep
  \/ NetAccept \/ NetClose \/ OtherLogs \/ SyslogdToggles
  \/ LibraryUse
  \/ \E t \in Users : LogStep(t) /\ UNCHANGED progVars

Spec == ProgramsInit /\ [][Next]_allVars

-------------------------------------------------------------------------------
(* Properties *)

\* Started with 0, 1 and 2 open, no server ever has a log line sent to a client or one of
\* its sockets closed by syslog, although init_daemon closes syslog's socket unseen: the
\* first line is logged before anything else can have taken that number.
SyslogSparesSockets ==
  (\E kind \in {"client", "listen", "epoll", "robot"} : <<"syslog", kind>> \in marks) => ~StdOpen

\* CheckSocketConnected takes the number 0 for no connection: a client or the robot gets it
\* only if syslog's socket, which has 0 in a queue server, was closed because syslogd had gone.
ZeroNeedsSyslogGone ==
  (fdtab[0] \in {"client", "robot"} /\ StdOpen) => Marked("gone")

\* A server whose start failed but that stays up holds nothing but what was open before and
\* syslog's socket, except the clients' port if it was listen() that failed, and in the
\* Yanshee server the robot's, which its worker goes on listening on and accepting from.
FailedStartKeepsLittle ==
  mpc = "asleep" =>
    \A n \in Nums :
      \/ fdtab[n] \in {NULL, "std", "syslog"}
      \/ fdtab[n] = "listen" /\ Marked("listenFailed")
      \/ fdtab[n] = "robot" /\ rpc \notin {"none", "socket"}

\* The descriptor table's users keep out of one another's numbers: syslog's socket, the
\* clients, the robot, and what a failed start had opened.
NumbersKeptApart ==
  SyslogSparesSockets /\ ZeroNeedsSyslogGone /\ FailedStartKeepsLittle

===============================================================================
