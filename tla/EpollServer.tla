------------------------------ MODULE EpollServer ------------------------------
(***************************************************************************)
(* The network side of the three queue servers                             *)
(* (robot-switch-fifo/{echo,tuling,yanshee}-server/epoll_socket.c, the     *)
(* same file but for its port, buffer size and trigger mode): one thread   *)
(* waits on epoll, accepts clients, reads what they send and hands each    *)
(* read to the callback, which puts it in the task list.                   *)
(*                                                                         *)
(* The kernel's part is modelled as far as the code can see it: the queue  *)
(* of connections waiting for accept, the descriptor table with its        *)
(* lowest-free-number rule, the bytes received and not yet read (counted   *)
(* in requests), FIN and RST, and what epoll_wait reports in level- and in *)
(* edge-triggered mode.  A handler is one step: this thread alone touches  *)
(* the table of sockets, and a handler's system calls do not block.        *)
(***************************************************************************)
EXTENDS Naturals, Sequences, FiniteSets

CONSTANTS
  Conns,           \* the connections clients will make
  Fds,             \* descriptors the process may still open (RLIMIT_NOFILE)
  Listen,          \* gnListenSocket
  NULL,
  MaxEvents,       \* EPOLL_MAX_EVENTS: events per wait and limit of connections
  SlotChunk,       \* MIN_SOCKET_Array_NUM
  ListenQueue,     \* LISTEN_QUEUE_SIZE
  RecvMax,         \* MAXLINE: the most that one recv returns
  MaxSend,         \* requests a client sends (bound)
  EdgeTriggered,   \* EPOLL_MOAD has EPOLLET (echo, tuling) or not (yanshee)
  AddMayFail       \* epoll_ctl(EPOLL_CTL_ADD) can run out of resources

ASSUME FdsAssumption == Fds \subseteq Nat /\ IsFiniteSet(Fds) /\ Listen \notin Fds /\ NULL \notin Fds
ASSUME ConnsAssumption == NULL \notin Conns
ASSUME LimitsAssumption ==
  /\ MaxEvents \in Nat \ {0} /\ SlotChunk \in Nat \ {0} /\ ListenQueue \in Nat \ {0}
  /\ RecvMax \in Nat \ {0} /\ MaxSend \in Nat
  /\ EdgeTriggered \in BOOLEAN /\ AddMayFail \in BOOLEAN

VARIABLES
  peer,            \* what each client's TCP has told the server's
  sent, read,      \* requests received by the kernel, and those recv returned
  backlog,         \* connections waiting for accept, oldest first
  fdtab,           \* the process's descriptor table: which connection a number is
  interest,        \* descriptors registered with gnEpollSocket
  edges,           \* edge mode: registered descriptors with an unreported edge
  batch, hups,     \* pEvents still to be handled, those with EPOLLERR or EPOLLHUP
  reported,        \* history: the connection an event of the batch was reported for
  running,         \* the epoll thread has not returned
  slots,           \* gpSocketArray: a socket number or NULL
  acceptCount,
  queue            \* gpTaskList, oldest first; from, first, last tell whose bytes

net == <<peer, sent>>
kernel == <<backlog, fdtab, interest, edges>>
events == <<batch, hups, reported>>
table == <<slots, acceptCount>>
epollVars == <<net, read, kernel, events, running, table, queue>>

Task == [socket : Fds, from : Conns, first : 1..MaxSend, last : 1..MaxSend]

Waiting(c) == \E i \in 1..Len(backlog) : backlog[i] = c
Open(c) == \E f \in Fds : fdtab[f] = c
Closed(c) == peer[c] # "absent" /\ ~Waiting(c) /\ ~Open(c)
Listed(f) == \E i \in 1..Len(slots) : slots[i] = f

FreeFds == {f \in Fds : fdtab[f] = NULL}
LowestFree == CHOOSE f \in FreeFds : \A g \in FreeFds : f <= g

\* What poll would report for a registered descriptor.
Pending(x) ==
  IF x = Listen THEN backlog # <<>>
  ELSE fdtab[x] # NULL /\ (read[fdtab[x]] < sent[fdtab[x]] \/ peer[fdtab[x]] \in {"fin", "rst"})

Ready == {x \in interest : Pending(x) /\ (EdgeTriggered => x \in edges)}

\* Something arrived: in edge mode that queues the registered descriptors for a report.
Arrival(X) == edges' = IF EdgeTriggered THEN edges \cup (X \cap interest) ELSE edges
FdsOf(c) == {f \in Fds : fdtab[f] = c}

EpollInit ==
  /\ peer = [c \in Conns |-> "absent"]
  /\ sent = [c \in Conns |-> 0] /\ read = [c \in Conns |-> 0]
  /\ backlog = <<>>
  /\ fdtab = [f \in Fds |-> NULL]
  /\ interest = {Listen} /\ edges = {}
  /\ batch = {} /\ hups = {} /\ reported = [f \in Fds |-> NULL]
  /\ running = TRUE
  /\ slots = [i \in 1..SlotChunk |-> NULL] /\ acceptCount = 0
  /\ queue = <<>>

-------------------------------------------------------------------------------
(* The clients and the network *)

Connect(c) ==
  /\ peer[c] = "absent"
  /\ Len(backlog) < ListenQueue
  /\ peer' = [peer EXCEPT ![c] = "up"]
  /\ backlog' = Append(backlog, c)
  /\ Arrival({Listen})
  /\ UNCHANGED <<sent, read, fdtab, interest, events, running, table, queue>>

Send(c) ==
  /\ peer[c] = "up" /\ ~Closed(c) /\ sent[c] < MaxSend
  /\ sent' = [sent EXCEPT ![c] = @ + 1]
  /\ Arrival(FdsOf(c))
  /\ UNCHANGED <<peer, read, backlog, fdtab, interest, events, running, table, queue>>

\* The client closes ("fin"), or the connection breaks ("rst"): a reset by the client,
\* or the keepalive probes of set_Socket that go unanswered.
Hangup(c, how) ==
  /\ peer[c] = "up" \/ (peer[c] = "fin" /\ how = "rst")
  /\ ~Closed(c)
  /\ peer' = [peer EXCEPT ![c] = how]
  /\ Arrival(FdsOf(c))
  /\ UNCHANGED <<sent, read, backlog, fdtab, interest, events, running, table, queue>>

ClientStep(c) == Connect(c) \/ Send(c) \/ \E how \in {"fin", "rst"} : Hangup(c, how)

-------------------------------------------------------------------------------
(* The epoll thread *)

\* epoll_wait(gnEpollSocket, pEvents, EPOLL_MAX_EVENTS, -1)
EpollWait ==
  /\ running /\ batch = {}
  /\ \E R \in SUBSET Ready :
       /\ R # {}
       /\ Cardinality(R) <= MaxEvents
       /\ Cardinality(R) < MaxEvents => R = Ready
       /\ batch' = R
       /\ hups' = {f \in R \ {Listen} : peer[fdtab[f]] = "rst"}
       /\ reported' = [f \in Fds |-> IF f \in R THEN fdtab[f] ELSE NULL]
       /\ edges' = {x \in edges : Pending(x)} \ R
  /\ UNCHANGED <<net, read, backlog, fdtab, interest, running, table, queue>>

\* The loop over pEvents comes to the event of descriptor x.
Take(x) ==
  /\ running
  /\ x \in batch
  /\ batch' = batch \ {x}
  /\ hups' = hups \ {x}
  /\ reported' = [f \in Fds |-> IF f = x THEN NULL ELSE reported[f]]

CannotAccept == backlog = <<>> \/ FreeFds = {}

\* Mutant: a failed accept takes the socket out of epoll, as a failed read does.
AcceptFailsUnregisters ==
  /\ Take(Listen)
  /\ CannotAccept
  /\ interest' = interest \ {Listen}
  /\ UNCHANGED <<net, read, backlog, fdtab, edges, running, table, queue>>

\* accept returned -1 (no connection, or no descriptor left): continue
AcceptFails ==
  /\ Take(Listen)
  /\ CannotAccept
  /\ UNCHANGED <<net, read, kernel, running, table, queue>>

\* acceptCount >= EPOLL_MAX_EVENTS: the new connection is closed at once
AcceptRefuses ==
  /\ Take(Listen)
  /\ ~CannotAccept
  /\ acceptCount >= MaxEvents
  /\ backlog' = Tail(backlog)
  /\ UNCHANGED <<net, read, fdtab, interest, edges, running, table, queue>>

\* The loops over gpSocketArray stop at the first slot that holds what they look for.
FirstSlot(v) ==
  CHOOSE i \in 1..Len(slots) : slots[i] = v /\ \A j \in 1..i - 1 : slots[j] # v

\* Mutant: the new chunk starts over the last slot of the old one.
AddSocketOverlap(f) ==
  slots' = IF Listed(NULL)
           THEN [slots EXCEPT ![FirstSlot(NULL)] = f]
           ELSE [slots EXCEPT ![Len(slots)] = f] \o [i \in 1..SlotChunk |-> NULL]

\* in_add_socket: the first free slot, or the first one of a new chunk
AddSocket(f) ==
  slots' = IF Listed(NULL)
           THEN [slots EXCEPT ![FirstSlot(NULL)] = f]
           ELSE slots \o [i \in 1..SlotChunk |-> IF i = 1 THEN f ELSE NULL]

Accept ==
  /\ Take(Listen)
  /\ ~CannotAccept
  /\ acceptCount < MaxEvents
  /\ LET f == LowestFree  c == Head(backlog) IN
       /\ backlog' = Tail(backlog)
       /\ fdtab' = [fdtab EXCEPT ![f] = c]
       /\ interest' = interest \cup {f}
       /\ edges' = IF EdgeTriggered /\ (sent[c] > 0 \/ peer[c] # "up")
                   THEN edges \cup {f} ELSE edges
       /\ AddSocket(f)
  /\ acceptCount' = acceptCount + 1
  /\ UNCHANGED <<net, read, running, queue>>

\* epoll_ctl(EPOLL_CTL_ADD) < 0: return NULL, the thread is gone
AcceptAddFails ==
  /\ AddMayFail
  /\ Take(Listen)
  /\ ~CannotAccept
  /\ acceptCount < MaxEvents
  /\ backlog' = Tail(backlog)
  /\ fdtab' = [fdtab EXCEPT ![LowestFree] = Head(backlog)]
  /\ running' = FALSE
  /\ UNCHANGED <<net, read, interest, edges, table, queue>>

\* Mutant: the search for the socket stops at the first used slot.
CloseSocketFirst(f) ==
  LET i == CHOOSE i \in 1..Len(slots) : slots[i] # NULL /\ \A j \in 1..i - 1 : slots[j] = NULL
  IN  /\ slots' = [slots EXCEPT ![i] = NULL]
      /\ interest' = interest \ {slots[i]}
      /\ edges' = edges \ {slots[i]}
      /\ fdtab' = [fdtab EXCEPT ![slots[i]] = NULL]
      /\ acceptCount' = acceptCount - 1

\* in_close_socket: forget, deregister and close a socket of the table
CloseSocket(f) ==
  IF Listed(f)
  THEN /\ slots' = [slots EXCEPT ![FirstSlot(f)] = NULL]
       /\ interest' = interest \ {f}
       /\ edges' = edges \ {f}
       /\ fdtab' = [fdtab EXCEPT ![f] = NULL]
       /\ acceptCount' = acceptCount - 1
  ELSE UNCHANGED <<slots, interest, edges, fdtab, acceptCount>>

\* EPOLLERR or EPOLLHUP
CloseOnError(f) ==
  /\ Take(f) /\ f \in hups
  /\ CloseSocket(f)
  /\ UNCHANGED <<net, read, backlog, running, queue>>

\* Mutant: only a full buffer is handed on.
ReadDataFullOnly(f) ==
  /\ Take(f) /\ f \notin hups
  /\ Listed(f)
  /\ LET c == fdtab[f]
         n == IF sent[c] - read[c] < RecvMax THEN sent[c] - read[c] ELSE RecvMax
     IN  /\ n > 0
         /\ read' = [read EXCEPT ![c] = @ + n]
         /\ queue' = IF n < RecvMax THEN queue
                     ELSE Append(queue, [socket |-> f, from |-> c,
                                         first |-> read[c] + 1, last |-> read[c] + n])
  /\ UNCHANGED <<net, kernel, running, table>>

\* Mutant: -1 returned after a successful read too, so that the socket leaves epoll.
ReadDataUnregisters(f) ==
  /\ Take(f) /\ f \notin hups
  /\ Listed(f)
  /\ LET c == fdtab[f]
         n == IF sent[c] - read[c] < RecvMax THEN sent[c] - read[c] ELSE RecvMax
     IN  /\ n > 0
         /\ read' = [read EXCEPT ![c] = @ + n]
         /\ queue' = Append(queue, [socket |-> f, from |-> c,
                                    first |-> read[c] + 1, last |-> read[c] + n])
  /\ interest' = interest \ {f}
  /\ edges' = edges \ {f}
  /\ UNCHANGED <<net, backlog, fdtab, running, table>>

\* read_buffer: recv > 0, the bytes go to the callback as one task
ReadData(f) ==
  /\ Take(f) /\ f \notin hups
  /\ Listed(f)
  /\ LET c == fdtab[f]
         n == IF sent[c] - read[c] < RecvMax THEN sent[c] - read[c] ELSE RecvMax
     IN  /\ n > 0
         /\ read' = [read EXCEPT ![c] = @ + n]
         /\ queue' = Append(queue, [socket |-> f, from |-> c,
                                    first |-> read[c] + 1, last |-> read[c] + n])
  /\ UNCHANGED <<net, kernel, running, table>>

\* Mutant: end of file taken for nothing to read.
ReadEofIgnored(f) ==
  /\ Take(f) /\ f \notin hups
  /\ Listed(f)
  /\ LET c == fdtab[f] IN read[c] = sent[c] /\ peer[c] = "fin"
  /\ UNCHANGED <<net, read, kernel, running, table, queue>>

\* read_buffer: recv = 0, the client has closed
ReadEof(f) ==
  /\ Take(f) /\ f \notin hups
  /\ Listed(f)
  /\ LET c == fdtab[f] IN read[c] = sent[c] /\ peer[c] = "fin"
  /\ CloseSocket(f)
  /\ UNCHANGED <<net, read, backlog, running, queue>>

\* read_buffer: recv = -1 (reset, or nothing to read), or a socket that is not in
\* the table, which is then taken out of epoll
ReadNothing(f) ==
  /\ Take(f) /\ f \notin hups
  /\ Listed(f) => LET c == fdtab[f] IN read[c] = sent[c] /\ peer[c] # "fin"
  /\ interest' = IF Listed(f) THEN interest ELSE interest \ {f}
  /\ UNCHANGED <<net, read, backlog, fdtab, edges, running, table, queue>>

HandleListen == AcceptFails \/ AcceptRefuses \/ Accept \/ AcceptAddFails
HandleClient(f) == CloseOnError(f) \/ ReadData(f) \/ ReadEof(f) \/ ReadNothing(f)

EpollStep == EpollWait \/ HandleListen \/ \E f \in Fds : HandleClient(f)

EpollNext == EpollStep \/ \E c \in Conns : ClientStep(c)

EpollSpec == EpollInit /\ [][EpollNext]_epollVars

\* The epoll thread runs whenever epoll_wait has something to report; clients owe
\* nothing.
EpollFairSpec == EpollSpec /\ WF_epollVars(EpollStep)

-------------------------------------------------------------------------------
(* Properties *)

\* The records of epoll_socket.c hold what their C types and bounds allow.
EpollTypeOK ==
  /\ peer \in [Conns -> {"absent", "up", "fin", "rst"}]
  /\ sent \in [Conns -> 0..MaxSend] /\ read \in [Conns -> 0..MaxSend]
  /\ backlog \in Seq(Conns) /\ Len(backlog) <= ListenQueue
  /\ fdtab \in [Fds -> Conns \cup {NULL}]
  /\ interest \subseteq Fds \cup {Listen} /\ edges \subseteq interest
  /\ batch \subseteq Fds \cup {Listen} /\ hups \subseteq batch \ {Listen}
  /\ reported \in [Fds -> Conns \cup {NULL}]
  /\ running \in BOOLEAN
  /\ slots \in Seq(Fds \cup {NULL})
  /\ acceptCount \in 0..MaxEvents
  /\ queue \in Seq(Task)

\* gpSocketArray, acceptCount, the epoll set and the descriptor table tell the same
\* story after every handler: one slot, one registration and one count for each
\* open client, none for a closed one, and no more than EPOLL_MAX_EVENTS of them.  Only
\* the thread's early return on a failed EPOLL_CTL_ADD leaves an open descriptor behind.
TableAgrees ==
  LET open == {f \in Fds : fdtab[f] # NULL}
      listed == {f \in Fds : Listed(f)}
  IN  /\ EpollTypeOK
      /\ listed = interest \ {Listen}
      /\ acceptCount = Cardinality(listed)
      /\ \A i, j \in 1..Len(slots) : slots[i] = slots[j] /\ slots[i] # NULL => i = j
      /\ \A f, g \in open : fdtab[f] = fdtab[g] => f = g
      /\ listed \subseteq open
      /\ running => open = listed
      /\ Cardinality(open \ listed) <= 1

\* No handler acts on a stale event: whatever the earlier events of the batch closed
\* and accepted, a descriptor still to be handled is the connection that epoll_wait
\* reported, not a new one under a reused number.
BatchFresh ==
  \A f \in batch \ {Listen} : fdtab[f] = reported[f] /\ Listed(f)

\* What is in the task list is what the clients sent: in each client's order, without
\* a gap, a repetition or a byte that recv has not returned.
TasksFollowStream ==
  \A c \in Conns :
    LET mine == {i \in 1..Len(queue) : queue[i].from = c} IN
      /\ \A i \in mine : queue[i].last <= read[c] /\ queue[i].first <= queue[i].last
      /\ \A i, j \in mine : i < j => queue[i].last < queue[j].first
      /\ \A n \in 1..read[c] : \E i \in mine : n \in queue[i].first..queue[i].last

\* A client in the accept queue is eventually accepted or turned away.
ClientAnswered == \A c \in Conns : Waiting(c) ~> ~Waiting(c)

\* The same where descriptors may run out first: as long as they become free again.
ClientAnsweredIfRoom == []<>(FreeFds # {}) => ClientAnswered

\* What a connected client has sent is eventually handed to the task list, unless the
\* connection goes first.
RequestsHandedOn ==
  \A c \in Conns : (Open(c) /\ read[c] < sent[c]) ~> (read[c] = sent[c] \/ ~Open(c))

\* The descriptor of a client that has hung up is eventually closed and its slot freed.
HangupClosed ==
  \A c \in Conns : (Open(c) /\ peer[c] \in {"fin", "rst"}) ~> ~Open(c)

===============================================================================
