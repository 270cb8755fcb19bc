------------------------------ MODULE ThreadServer ------------------------------
(***************************************************************************)
(* The echo servers without a task list: robot-switch/echo-server and      *)
(* robot-switch-fifo/server.  The main thread accepts clients into one     *)
(* local variable, clientFD, and starts a detached thread for each with    *)
(* the address of that variable; the thread reads it when it runs.  A      *)
(* thread echoes what its client sends until the connection is no longer   *)
(* established; it never closes it.                                        *)
(*                                                                         *)
(* A client's bytes are counted in requests; a buffer is a sequence of     *)
(* cells, each a request or the NUL byte.  The servers differ in the flags *)
(* of send: a broken connection raises SIGPIPE or does not.                *)
(***************************************************************************)
EXTENDS Naturals, Sequences, FiniteSets

CONSTANTS
  Conns,           \* the connections clients will make
  Fds,             \* descriptors the process may still open (RLIMIT_NOFILE)
  Threads,         \* as many threads as can run at a time
  BufSize,         \* cells of a thread's buffer, 1024 bytes in the code
  MaxSend,         \* requests each client sends (bound, less than a buffer holds)
  MayLeave,        \* the clients that may go away (bound)
  NoSignal,        \* send has MSG_NOSIGNAL
  NULL

ASSUME ServerAssumption ==
  /\ Fds \subseteq Nat \ {0} /\ IsFiniteSet(Fds) /\ NULL \notin Conns \cup Fds
  /\ BufSize \in Nat /\ MaxSend \in [Conns -> 0..(BufSize - 1)]
  /\ MayLeave \subseteq Conns /\ NoSignal \in BOOLEAN

VARIABLES
  peer,            \* each client: "absent", "up", "fin", "rst", or "pipe" when the next
                   \*   send on its connection raises SIGPIPE
  sent, read,      \* requests that arrived from it, and those recv returned
  backlog,         \* connections waiting for accept, oldest first
  fdtab,           \* the descriptor table: which connection a number is
  mpc, clientFD,   \* the main thread, and its variable; NULL is accept's -1
  tpc, tfd, buf,   \* each thread: where it stands, its number, its buffer
  freed,           \* what buffers held when they were freed
  replies,         \* the cells that reached each client
  killed,          \* SIGPIPE has ended the process
  served,          \* history: clients whose number a thread has read
  missed,          \* history: clients whose number was overwritten unread,
  uncreated        \*   and those for which no thread could be started

net == <<peer, sent>>
main == <<mpc, clientFD>>
thread == <<tpc, tfd, buf>>
history == <<served, missed, uncreated>>
vars == <<net, read, backlog, fdtab, main, thread, freed, replies, killed, history>>

NUL == <<NULL, 0>>
Zeros == [i \in 1..BufSize |-> NUL]

Init ==
  /\ peer = [c \in Conns |-> "absent"]
  /\ sent = [c \in Conns |-> 0] /\ read = [c \in Conns |-> 0]
  /\ backlog = <<>> /\ fdtab = [f \in Fds |-> NULL]
  /\ mpc = "accept" /\ clientFD = NULL
  /\ tpc = [t \in Threads |-> "none"] /\ tfd = [t \in Threads |-> NULL]
  /\ buf = [t \in Threads |-> Zeros]
  /\ freed = {}
  /\ replies = [c \in Conns |-> {}]
  /\ killed = FALSE
  /\ served = {} /\ missed = {} /\ uncreated = {}

-------------------------------------------------------------------------------
(* The clients *)

Connect(c) ==
  /\ peer[c] = "absent"
  /\ peer' = [peer EXCEPT ![c] = "up"]
  /\ backlog' = Append(backlog, c)
  /\ UNCHANGED <<sent, read, fdtab, main, thread, freed, replies, killed, history>>

Send(c) ==
  /\ peer[c] = "up" /\ sent[c] < MaxSend[c]
  /\ sent' = [sent EXCEPT ![c] = @ + 1]
  /\ UNCHANGED <<peer, read, backlog, fdtab, main, thread, freed, replies, killed, history>>

\* A FIN, a RST, or a RST after the FIN, which leaves EPIPE as the socket's error.
Hangup(c) ==
  /\ c \in MayLeave
  /\ \/ peer[c] = "up" /\ peer' \in {[peer EXCEPT ![c] = e] : e \in {"fin", "rst"}}
     \/ peer[c] = "fin" /\ peer' = [peer EXCEPT ![c] = "pipe"]
  /\ UNCHANGED <<sent, read, backlog, fdtab, main, thread, freed, replies, killed, history>>

ClientStep(c) == Connect(c) \/ Send(c) \/ Hangup(c)

-------------------------------------------------------------------------------
(* main *)

Lowest(f) == fdtab[f] = NULL /\ \A g \in Fds : g < f => fdtab[g] # NULL
Full == \A f \in Fds : fdtab[f] # NULL

\* The clients whose number is lost when clientFD is written now.
Overwritten ==
  IF clientFD # NULL /\ \E t \in Threads : tpc[t] = "start"
  THEN {fdtab[clientFD]} \ served ELSE {}

\* Mutant: the loop goes back to accept after a connection it has logged.
AcceptAgain ==
  /\ mpc = "accept" /\ backlog # <<>>
  /\ \E f \in Fds :
       /\ Lowest(f)
       /\ fdtab' = [fdtab EXCEPT ![f] = Head(backlog)]
       /\ clientFD' = f
  /\ backlog' = Tail(backlog)
  /\ missed' = missed \cup Overwritten
  /\ mpc' \in {"accept", "create"}
  /\ UNCHANGED <<net, read, thread, freed, replies, killed, served, uncreated>>

\* clientFD = accept(...)
Accept ==
  /\ mpc = "accept" /\ backlog # <<>>
  /\ \E f \in Fds :
       /\ Lowest(f)
       /\ fdtab' = [fdtab EXCEPT ![f] = Head(backlog)]
       /\ clientFD' = f
  /\ backlog' = Tail(backlog)
  /\ missed' = missed \cup Overwritten
  /\ mpc' = "create"
  /\ UNCHANGED <<net, read, thread, freed, replies, killed, served, uncreated>>

\* No descriptor is left: -1 is used like a number, and the client goes on waiting.
AcceptFails ==
  /\ mpc = "accept" /\ backlog # <<>> /\ Full
  /\ clientFD' = NULL
  /\ missed' = missed \cup Overwritten
  /\ mpc' = "create"
  /\ UNCHANGED <<net, read, backlog, fdtab, thread, freed, replies, killed, served, uncreated>>

Idle == {t \in Threads : tpc[t] = "none"}

\* pthread_create(.., &clientFD); whether it succeeds is not looked at.  Threads that do
\* not run are all alike, so which one is used is of no account.
Create ==
  /\ mpc = "create"
  /\ mpc' = "accept"
  /\ \/ /\ Idle # {}
        /\ tpc' = [tpc EXCEPT ![CHOOSE t \in Idle : TRUE] = "start"]
        /\ UNCHANGED uncreated
     \/ /\ Idle = {}
        /\ uncreated' = uncreated \cup (IF clientFD = NULL THEN {} ELSE {fdtab[clientFD]})
        /\ UNCHANGED tpc
  /\ UNCHANGED <<net, read, backlog, fdtab, clientFD, tfd, buf, freed, replies, killed,
                 served, missed>>

-------------------------------------------------------------------------------
(* DoWork *)

\* clientFD = *(int*)arg; malloc, which does not clear the block; setsockopt fails on -1
Start(t) ==
  /\ tpc[t] = "start"
  /\ tfd' = [tfd EXCEPT ![t] = clientFD]
  /\ \/ buf' = [buf EXCEPT ![t] = Zeros] /\ UNCHANGED freed
     \/ \E b \in freed : buf' = [buf EXCEPT ![t] = b] /\ freed' = freed \ {b}
  /\ tpc' = [tpc EXCEPT ![t] = IF clientFD = NULL THEN "end" ELSE "check"]
  /\ served' = served \cup (IF clientFD = NULL THEN {} ELSE {fdtab[clientFD]})
  /\ UNCHANGED <<net, read, backlog, fdtab, main, replies, killed, missed, uncreated>>

Client(t) == fdtab[tfd[t]]

\* CheckSocketConnected: after a FIN the connection is not established any more, also
\* when bytes that came before it have not been read.
Check(t) ==
  /\ tpc[t] = "check"
  /\ tpc' = [tpc EXCEPT ![t] = IF peer[Client(t)] = "up" THEN "recv" ELSE "end"]
  /\ UNCHANGED <<net, read, backlog, fdtab, main, tfd, buf, freed, replies, killed, history>>

Pending(c) == sent[c] - read[c]

\* Mutant: the buffer cleared where it should not be, before the unread bytes.
RecvSkips(t) ==
  LET c == Client(t)
      k == Pending(c)
  IN  /\ tpc[t] = "recv" /\ peer[c] \in {"up", "fin"} /\ k > 0
      /\ read' = [read EXCEPT ![c] = sent[c]]
      /\ buf' = [buf EXCEPT ![t] = [i \in 1..BufSize |->
                   IF i = 1 THEN <<c, sent[c]>> ELSE @[i]]]
      /\ tpc' = [tpc EXCEPT ![t] = "send"]
      /\ UNCHANGED <<net, backlog, fdtab, main, tfd, freed, replies, killed, history>>

\* Mutant: one buffer for all threads.
RecvShared(t) ==
  LET c == Client(t)
      k == Pending(c)
  IN  /\ tpc[t] = "recv" /\ peer[c] \in {"up", "fin"} /\ k > 0
      /\ read' = [read EXCEPT ![c] = sent[c]]
      /\ buf' = [u \in Threads |-> [i \in 1..BufSize |->
                   IF i <= k THEN <<c, read[c] + i>> ELSE buf[t][i]]]
      /\ tpc' = [tpc EXCEPT ![t] = "send"]
      /\ UNCHANGED <<net, backlog, fdtab, main, tfd, freed, replies, killed, history>>

\* recv(.., MSG_WAITALL), cut short by the timeout or the FIN: the front of the buffer is
\* overwritten, the rest stays.
Recv(t) ==
  LET c == Client(t)
      k == Pending(c)
  IN  /\ tpc[t] = "recv" /\ peer[c] \in {"up", "fin"} /\ k > 0
      /\ read' = [read EXCEPT ![c] = sent[c]]
      /\ buf' = [buf EXCEPT ![t] = [i \in 1..BufSize |->
                   IF i <= k THEN <<c, read[c] + i>> ELSE @[i]]]
      /\ tpc' = [tpc EXCEPT ![t] = "send"]
      /\ UNCHANGED <<net, backlog, fdtab, main, tfd, freed, replies, killed, history>>

\* The timeout, the end of the stream, or ECONNRESET, which is reported once.
RecvNothing(t) ==
  LET c == Client(t) IN
    /\ tpc[t] = "recv"
    /\ peer[c] \in {"rst", "pipe"} \/ Pending(c) = 0
    /\ peer' = IF peer[c] = "rst" THEN [peer EXCEPT ![c] = "pipe"] ELSE peer
    /\ tpc' = [tpc EXCEPT ![t] = "check"]
    /\ UNCHANGED <<sent, read, backlog, fdtab, main, tfd, buf, freed, replies, killed, history>>

\* The cells before the first NUL.
CString(b) == {b[i] : i \in {j \in 1..BufSize : \A k \in 1..j : b[k] # NUL}}

\* send(clientFD, buff, strlen(buff), ..): the connection may be gone.
SendReply(t) ==
  LET c == Client(t) IN
    /\ tpc[t] = "send"
    /\ tpc' = [tpc EXCEPT ![t] = "check"]
    /\ replies' = IF peer[c] \in {"up", "fin"}
                  THEN [replies EXCEPT ![c] = @ \cup CString(buf[t])] ELSE replies
    /\ peer' = IF peer[c] \in {"fin", "rst"} THEN [peer EXCEPT ![c] = "pipe"] ELSE peer
    /\ killed' = (peer[c] = "pipe" /\ ~NoSignal)
    /\ UNCHANGED <<sent, read, backlog, fdtab, main, tfd, buf, freed, history>>

\* The end label: the buffer is freed, the number stays open.
End(t) ==
  /\ tpc[t] = "end"
  /\ tpc' = [tpc EXCEPT ![t] = "none"]
  /\ freed' = freed \cup ({buf[t]} \ {Zeros})
  /\ tfd' = [tfd EXCEPT ![t] = NULL] /\ buf' = [buf EXCEPT ![t] = Zeros]
  /\ UNCHANGED <<net, read, backlog, fdtab, main, replies, killed, history>>

ThreadStep(t) ==
  Start(t) \/ Check(t) \/ Recv(t) \/ RecvNothing(t) \/ SendReply(t) \/ End(t)

MainStep == Accept \/ AcceptFails \/ Create

Next ==
  /\ ~killed
  /\ \/ MainStep
     \/ \E t \in Threads : ThreadStep(t)
     \/ \E c \in Conns : ClientStep(c)

Spec == Init /\ [][Next]_vars

\* The scheduler runs the main thread and every thread; recv times out.
FairSpec ==
  /\ Spec
  /\ WF_vars(~killed /\ MainStep)
  /\ \A t \in Threads : WF_vars(~killed /\ ThreadStep(t))

-------------------------------------------------------------------------------
(* Properties *)

Running(t) == tpc[t] \in {"check", "recv", "send"}
Accepted == {fdtab[f] : f \in Fds} \ {NULL}

\* Every accepted client has had a thread, or will get one from the number in clientFD -
\* unless that number was overwritten by the next accept before a new thread had read
\* it, or no thread could be started for it.
ClientServedUnlessRaced ==
  \A c \in Accepted :
    \/ c \in served \cup missed \cup uncreated
    \/ clientFD # NULL /\ fdtab[clientFD] = c
         /\ (mpc = "create" \/ \E t \in Threads : tpc[t] = "start")

\* Two threads share one client only if another client was missed, so with clients that
\* arrive one at a time each has a thread of its own.
OneThreadPerClient ==
  \A t, u \in Threads :
    (t # u /\ Running(t) /\ Running(u) /\ tfd[t] = tfd[u]) => missed # {}

\* Each client has a thread of its own, but for those that arrive while a number is still
\* unread: both halves of what the address of clientFD puts at risk.
OwnThreadUnlessRaced == ClientServedUnlessRaced /\ OneThreadPerClient

\* A client is sent requests of its own, or what an earlier client, whose thread has ended,
\* left in a buffer that was freed and allocated again: never those of another client
\* that is being served by another thread alone.
StrangersOnlyFromFreedBuffers ==
  \A c \in Conns : \A cell \in replies[c] : cell[1] # c => peer[cell[1]] # "up"

\* A client that has a thread and stays connected gets every request echoed, whichever
\* threads come and go beside its own, unless another client's connection brings the
\* process down.
ServedAnswered ==
  \A c \in Conns, n \in 1..(BufSize - 1) :
    (c \in served /\ peer[c] = "up" /\ n <= sent[c])
      ~> <<c, n>> \in replies[c] \/ peer[c] # "up" \/ killed

===============================================================================
