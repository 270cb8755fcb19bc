------------------------------ MODULE EchoServer ------------------------------
(***************************************************************************)
(* robot-switch-fifo/echo-server: the epoll thread of EpollServer and the  *)
(* workers of task_work.c, which take the tasks it puts in the list and    *)
(* send each one back to the socket number stored in it.  The list itself  *)
(* is the FIFO that TaskList implements, here the sequence queue.          *)
(***************************************************************************)
EXTENDS EpollServer

CONSTANTS
  Workers,         \* the threads of task_worker_start (100 in the code)
  SendMayFail      \* a client that does not read fills its socket: EAGAIN

ASSUME WorkersAssumption == IsFiniteSet(Workers) /\ SendMayFail \in BOOLEAN
\* task_list_get never returns the null pointer.
ASSUME TaskAssumption == NULL \notin [socket : Fds, from : Conns, first : Nat, last : Nat]

VARIABLES
  hold,            \* the task each worker is answering, or NULL
  replies,         \* what reached each connection, in order: whose bytes, which
  refused          \* history: the requests whose reply did not fit in the socket

echoVars == <<epollVars, hold, replies, refused>>

\* The requests a task, or a reply, stands for.
Span(t) == {<<t.from, n>> : n \in t.first..t.last}

EchoInit ==
  /\ EpollInit
  /\ hold = [w \in Workers |-> NULL]
  /\ replies = [c \in Conns |-> <<>>]
  /\ refused = {}

\* Mutant: the head of the list copied without being unlinked.
WorkerGetPeek(w) ==
  /\ hold[w] = NULL
  /\ queue # <<>>
  /\ hold' = [hold EXCEPT ![w] = Head(queue)]
  /\ queue' = IF \E v \in Workers : hold[v] = Head(queue) THEN Tail(queue) ELSE queue
  /\ UNCHANGED <<net, read, kernel, events, running, table, replies, refused>>

\* task = task_list_get(gpTaskList)
WorkerGet(w) ==
  /\ hold[w] = NULL
  /\ queue # <<>>
  /\ hold' = [hold EXCEPT ![w] = Head(queue)]
  /\ queue' = Tail(queue)
  /\ UNCHANGED <<net, read, kernel, events, running, table, replies, refused>>

\* The connection a send on this number reaches now, if it reaches one.
Receiver(f) ==
  IF fdtab[f] # NULL /\ peer[fdtab[f]] # "rst" THEN fdtab[f] ELSE NULL

\* Mutant: the reply goes to the first used slot of the table.
WorkerSendFirstSlot(w) ==
  /\ hold[w] # NULL
  /\ LET used == {i \in 1..Len(slots) : slots[i] # NULL}
         c == IF used = {} THEN NULL
              ELSE Receiver(slots[CHOOSE i \in used : \A j \in used : i <= j])
     IN  replies' = IF c = NULL THEN replies
                    ELSE [replies EXCEPT ![c] =
                      Append(@, [from |-> hold[w].from, first |-> hold[w].first,
                                 last |-> hold[w].last])]
  /\ hold' = [hold EXCEPT ![w] = NULL]
  /\ UNCHANGED <<epollVars, refused>>

\* send(task->socket, task->pszBuffer, strlen(..), MSG_NOSIGNAL), whatever it returns;
\* then the task is freed.
WorkerSend(w) ==
  /\ hold[w] # NULL
  /\ LET c == Receiver(hold[w].socket) IN
       \/ /\ c # NULL
          /\ replies' = [replies EXCEPT ![c] =
               Append(@, [from |-> hold[w].from, first |-> hold[w].first,
                          last |-> hold[w].last])]
          /\ UNCHANGED refused
       \/ c = NULL /\ UNCHANGED <<replies, refused>>
       \/ /\ SendMayFail /\ c # NULL
          /\ refused' = refused \cup Span(hold[w])
          /\ UNCHANGED replies
  /\ hold' = [hold EXCEPT ![w] = NULL]
  /\ UNCHANGED epollVars

WorkerStep(w) == WorkerGet(w) \/ WorkerSend(w)

EchoNext ==
  \/ EpollNext /\ UNCHANGED <<hold, replies, refused>>
  \/ \E w \in Workers : WorkerStep(w)

EchoSpec == EchoInit /\ [][EchoNext]_echoVars

\* The epoll thread and every worker keep running.
EchoFairSpec ==
  /\ EchoSpec
  /\ WF_echoVars(EpollStep /\ UNCHANGED <<hold, replies, refused>>)
  /\ \A w \in Workers : WF_echoVars(WorkerStep(w))

-------------------------------------------------------------------------------
(* Properties *)

Queued == UNION {Span(queue[i]) : i \in 1..Len(queue)}
InHand == UNION {Span(hold[w]) : w \in {v \in Workers : hold[v] # NULL}}
Delivered(c) == UNION {Span(replies[c][i]) : i \in 1..Len(replies[c])}

\* A request that was read is in one place only - the list, one worker, one reply to
\* one client - so no client sees an echo twice, however the workers interleave.
EachRequestOnce ==
  /\ Queued \cap InHand = {}
  /\ \A c \in Conns :
       /\ Delivered(c) \cap (Queued \cup InHand) = {}
       /\ \A d \in Conns \ {c} : Delivered(c) \cap Delivered(d) = {}
       /\ \A i, j \in 1..Len(replies[c]) :
            i # j => Span(replies[c][i]) \cap Span(replies[c][j]) = {}

\* A client receives another client's bytes only if that other client's connection was
\* closed before its reply was sent: while a client stays, its echoes go to no one else.
MisdeliveryNeedsClose ==
  \A c \in Conns : \A r \in Delivered(c) : r[1] # c => Closed(r[1])

\* "int socket; // the client's SOCKET": a reply goes to the client that sent the request.
ReplyToSender == \A c \in Conns : \A r \in Delivered(c) : r[1] = c

\* As long as one recv can hold what is pending, the echoes catch up with every connected
\* client - also in edge-triggered mode - unless its connection is closed first or it does
\* not read its replies: the worker never tries a refused one again.
RequestAnswered ==
  \A c \in Conns :
    Open(c) ~> (~Open(c) \/ \A n \in 1..sent[c] : <<c, n>> \in Delivered(c) \cup refused)

\* The portion of its client's requests that a task stands for.
Portion(t) == [from |-> t.from, first |-> t.first, last |-> t.last]

Unanswered ==
  {Portion(queue[i]) : i \in 1..Len(queue)}
    \cup {Portion(hold[w]) : w \in {v \in Workers : hold[v] # NULL}}

Broken == {c \in Conns : peer[c] = "rst"}
Gone == {c \in Conns : Closed(c)}

Service == INSTANCE EchoService
  WITH Clients <- Conns, MaxAsked <- MaxSend, asked <- sent, taken <- read,
       pending <- Unanswered, broken <- Broken, gone <- Gone, echoes <- replies

\* The epoll thread, the list and the workers together implement EchoService: every
\* portion read is answered, refused or dropped once, and only to its client as long as
\* that client stays, whatever descriptors and tasks are reused in between.
EchoRefinement == Service!Spec

===============================================================================
