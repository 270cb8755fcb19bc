------------------------------- MODULE EchoProofs -------------------------------
(***************************************************************************)
(* What the echo server guarantees for any number of clients, descriptors  *)
(* and workers: a request that was read is in one place only, and reaches  *)
(* another client only after its own has gone.  EpollProofs gives what the *)
(* epoll thread contributes; the workers change none of it.                *)
(***************************************************************************)
EXTENDS EchoServer, EpollProofs

-------------------------------------------------------------------------------
(* The inductive invariant *)

Reply == [from : Conns, first : 1..MaxSend, last : 1..MaxSend]

Held == {w \in Workers : hold[w] # NULL}

\* Two tasks or replies stand for different requests.
Apart(t, u) == t.from # u.from \/ t.last < u.first \/ u.last < t.first

EchoTypeOK ==
  /\ hold \in [Workers -> Task \cup {NULL}]
  /\ replies \in [Conns -> Seq(Reply)]

\* What is in the list, in a worker's hands or with a client has been read, and every
\* task stands for a request at least.
AllRead ==
  /\ \A i \in 1..Len(queue) :
       queue[i].first <= queue[i].last /\ queue[i].last <= read[queue[i].from]
  /\ \A w \in Held : hold[w].first <= hold[w].last /\ hold[w].last <= read[hold[w].from]
  /\ \A c \in Conns : \A i \in 1..Len(replies[c]) :
       replies[c][i].last <= read[replies[c][i].from]

QueueApart == \A i, j \in 1..Len(queue) : i # j => Apart(queue[i], queue[j])

HeldApart ==
  \A w \in Held :
    /\ \A i \in 1..Len(queue) : Apart(hold[w], queue[i])
    /\ \A v \in Held : v # w => Apart(hold[v], hold[w])

RepliesApart ==
  \A c \in Conns : \A i \in 1..Len(replies[c]) :
    /\ \A j \in 1..Len(queue) : Apart(replies[c][i], queue[j])
    /\ \A w \in Held : Apart(replies[c][i], hold[w])
    /\ \A d \in Conns : \A j \in 1..Len(replies[d]) :
         c # d \/ i # j => Apart(replies[c][i], replies[d][j])

\* The socket of a task is its client's as long as that client's connection is not
\* closed, and a reply that went to another client was sent after that.
Addressed ==
  /\ \A i \in 1..Len(queue) :
       fdtab[queue[i].socket] = queue[i].from \/ queue[i].from \in Gone
  /\ \A w \in Held : fdtab[hold[w].socket] = hold[w].from \/ hold[w].from \in Gone
  /\ \A c \in Conns : \A i \in 1..Len(replies[c]) :
       replies[c][i].from = c \/ replies[c][i].from \in Gone

EchoInv ==
  /\ EpollInv /\ EchoTypeOK
  /\ AllRead /\ QueueApart /\ HeldApart /\ RepliesApart /\ Addressed

-------------------------------------------------------------------------------
(* What the invariant says of each task and reply *)

\* The fields of a task and of a reply.
LEMMA ItemFields ==
  /\ \A t \in Task : /\ t.socket \in Fds /\ t.from \in Conns
                     /\ t.first \in Nat /\ t.last \in Nat
  /\ \A r \in Reply : r.from \in Conns /\ r.first \in Nat /\ r.last \in Nat
BY LimitsAssumption DEF Task, Reply

\* Every place holds a task or a reply.
LEMMA Items ==
  ASSUME EpollInv, EchoTypeOK
  PROVE  /\ queue \in Seq(Task) /\ Len(queue) \in Nat
         /\ \A i \in 1..Len(queue) : queue[i] \in Task
         /\ \A w \in Held : w \in Workers /\ hold[w] \in Task
         /\ \A c \in Conns : /\ replies[c] \in Seq(Reply) /\ Len(replies[c]) \in Nat
                             /\ \A i \in 1..Len(replies[c]) : replies[c][i] \in Reply
         /\ \A c \in Conns : read[c] \in Nat
<1>1. /\ queue \in Seq(Task) /\ hold \in [Workers -> Task \cup {NULL}]
      /\ read \in [Conns -> 0..MaxSend]
  BY DEF EpollInv, EpollTypeOK, EchoTypeOK
<1>2. \A c \in Conns : replies[c] \in Seq(Reply)
  BY DEF EchoTypeOK
<1>3. \A w \in Held : w \in Workers /\ hold[w] \in Task
  BY <1>1 DEF Held
<1>4. \A c \in Conns : Len(replies[c]) \in Nat
                       /\ \A i \in 1..Len(replies[c]) : replies[c][i] \in Reply
  BY <1>2, SeqNonEmpty
<1>5. \A c \in Conns : read[c] \in Nat
  BY <1>1, LimitsAssumption
<1> QED
  BY <1>1, <1>2, <1>3, <1>4, <1>5, SeqNonEmpty

-------------------------------------------------------------------------------
(* The epoll thread's steps *)

\* A step of the epoll thread or of a client opens no closed connection again.
LEMMA ClosedGrows ==
  ASSUME EpollInv, [EpollNext]_epollVars
  PROVE  Gone \subseteq Gone'
BY ClosedStep DEF Gone

\* A number stays its client's until that client's connection is closed.
LEMMA AddressStep ==
  ASSUME EpollInv, [EpollNext]_epollVars, NEW f \in Fds, NEW c \in Conns, fdtab[f] = c
  PROVE  fdtab'[f] = c \/ c \in Gone'
<1>1. /\ EpollTypeOK /\ OpenOK /\ BacklogOK /\ f \in OpenFds /\ c # NULL
      /\ fdtab \in [Fds -> Conns \cup {NULL}]
  BY ConnsAssumption DEF EpollInv, EpollTypeOK, OpenFds
<1>2. CASE UNCHANGED fdtab
  BY <1>2
<1>3. CASE Accept \/ AcceptAddFails
  <2>1. FreeFds # {} /\ fdtab' = [fdtab EXCEPT ![LowestFree] = Head(backlog)]
    BY <1>3 DEF Accept, AcceptAddFails, CannotAccept
  <2> QED BY <1>1, <2>1, LowestFreeFacts
<1>4. ASSUME NEW g \in Fds, CloseOnError(g) \/ ReadEof(g)
      PROVE  fdtab'[f] = c \/ c \in Gone'
  <2>1. CloseSocket(g) /\ UNCHANGED <<peer, backlog>>
    BY <1>4 DEF CloseOnError, ReadEof, net
  <2>2. CASE fdtab' = [fdtab EXCEPT ![g] = NULL] /\ g = f
    <3>1. peer'[c] # "absent"
      BY <1>1, <2>1 DEF BacklogOK
    <3>2. \A i \in 1..Len(backlog') : backlog'[i] # c
      BY <1>1, <2>1 DEF BacklogOK, Open
    <3>3. \A h \in Fds : fdtab'[h] # c
      BY <1>1, <2>2 DEF OpenOK, OpenFds
    <3> QED BY <3>1, <3>2, <3>3 DEF Gone, Closed, Waiting, Open
  <2>3. CASE fdtab' = [fdtab EXCEPT ![g] = NULL] /\ g # f
    BY <1>1, <2>3
  <2> QED BY <1>2, <2>1, <2>2, <2>3 DEF CloseSocket
<1>5. \/ UNCHANGED fdtab
      \/ Accept \/ AcceptAddFails
      \/ \E g \in Fds : CloseOnError(g) \/ ReadEof(g)
  <2>1. CASE \E d \in Conns : ClientStep(d)
    BY <2>1 DEF ClientStep, Connect, Send, Hangup
  <2>2. CASE EpollWait \/ HandleListen
    BY <2>2 DEF EpollWait, HandleListen, AcceptFails, AcceptRefuses, kernel
  <2>3. ASSUME NEW g \in Fds, HandleClient(g)
        PROVE  UNCHANGED fdtab \/ CloseOnError(g) \/ ReadEof(g)
    BY <2>3 DEF HandleClient, ReadData, ReadNothing, kernel
  <2>4. CASE UNCHANGED epollVars
    BY <2>4 DEF epollVars, kernel
  <2> QED BY <2>1, <2>2, <2>3, <2>4 DEF EpollNext, EpollStep
<1> QED
  BY <1>2, <1>3, <1>4, <1>5

\* What a step adds to the list is the next part of a stream, with its client's socket.
LEMMA QueueStep ==
  ASSUME EpollInv, [EpollNext]_epollVars
  PROVE  \/ UNCHANGED <<read, queue>>
         \/ \E t \in Task :
              /\ t.first = read[t.from] + 1 /\ fdtab'[t.socket] = t.from
              /\ read' = [read EXCEPT ![t.from] = t.last] /\ t.first <= t.last
              /\ \A i \in 1..Len(queue') :
                   \/ i \in 1..Len(queue) /\ queue'[i] = queue[i]
                   \/ i = Len(queue) + 1 /\ queue'[i] = t
<1>1. ASSUME NEW f \in Fds, ReadData(f)
      PROVE  \E t \in Task :
               /\ t.first = read[t.from] + 1 /\ fdtab'[t.socket] = t.from
               /\ read' = [read EXCEPT ![t.from] = t.last] /\ t.first <= t.last
               /\ \A i \in 1..Len(queue') :
                    \/ i \in 1..Len(queue) /\ queue'[i] = queue[i]
                    \/ i = Len(queue) + 1 /\ queue'[i] = t
  <2>1. PICK t \in Task :
          /\ t.socket = f /\ t.from = fdtab[f]
          /\ t.first = read[t.from] + 1 /\ t.first <= t.last
          /\ read' = [read EXCEPT ![t.from] = t.last]
          /\ queue' = Append(queue, t)
    BY <1>1, ReadDataFacts
  <2>2. fdtab' = fdtab
    BY <1>1 DEF ReadData, kernel
  <2>3. queue \in Seq(Task)
    BY DEF EpollInv, EpollTypeOK
  <2>4. Len(queue) \in Nat /\ Len(queue') = Len(queue) + 1 /\ queue'[Len(queue) + 1] = t
        /\ \A i \in 1..Len(queue) : queue'[i] = queue[i]
    BY <2>1, <2>3, AppendIndex, SeqNonEmpty
  <2>5. \A i \in 1..Len(queue') : i \in 1..Len(queue) \/ i = Len(queue) + 1
    BY <2>4
  <2>6. \A i \in 1..Len(queue') :
          \/ i \in 1..Len(queue) /\ queue'[i] = queue[i]
          \/ i = Len(queue) + 1 /\ queue'[i] = t
    BY <2>4, <2>5
  <2> QED BY <2>1, <2>2, <2>6
<1> QED
  BY <1>1, OnlyReadsPut

\* The epoll thread keeps the invariant: what it adds was not read before, and what is
\* there keeps its socket or has lost its client.
LEMMA EpollPart ==
  ASSUME EchoInv, [EpollNext]_epollVars, UNCHANGED <<hold, replies>>
  PROVE  EchoInv'
<1>1. EpollInv /\ EchoTypeOK /\ EpollInv' /\ EchoTypeOK'
  BY EpollStepInv DEF EchoInv, EchoTypeOK
<1>2. Held' = Held
  BY DEF Held
<1>3. \A f \in Fds : \A c \in Conns :
        fdtab[f] = c \/ c \in Gone => fdtab'[f] = c \/ c \in Gone'
  BY <1>1, AddressStep, ClosedGrows
<1>4. \A c \in Conns : \A i \in 1..Len(replies'[c]) :
        replies'[c][i].from = c \/ replies'[c][i].from \in Gone'
  BY <1>1, ClosedGrows DEF EchoInv, Addressed
<1>5. \A w \in Held : fdtab'[hold'[w].socket] = hold'[w].from \/ hold'[w].from \in Gone'
  BY <1>1, <1>3, Items, ItemFields DEF EchoInv, Addressed
<1>6. CASE UNCHANGED <<read, queue>>
  <2>1. AllRead' /\ QueueApart' /\ HeldApart' /\ RepliesApart'
    BY <1>2, <1>6 DEF EchoInv, AllRead, QueueApart, HeldApart, RepliesApart
  <2>2. \A i \in 1..Len(queue) :
          fdtab'[queue[i].socket] = queue[i].from \/ queue[i].from \in Gone'
    BY <1>1, <1>3, Items, ItemFields DEF EchoInv, Addressed
  <2>3. Addressed'
    BY <1>2, <1>4, <1>5, <1>6, <2>2 DEF Addressed
  <2> QED BY <1>1, <2>1, <2>3 DEF EchoInv
<1>7. ASSUME NEW t \in Task,
             t.first = read[t.from] + 1, fdtab'[t.socket] = t.from,
             read' = [read EXCEPT ![t.from] = t.last], t.first <= t.last,
             \A i \in 1..Len(queue') :
               \/ i \in 1..Len(queue) /\ queue'[i] = queue[i]
               \/ i = Len(queue) + 1 /\ queue'[i] = t
      PROVE  EchoInv'
  <2>1. read \in [Conns -> 0..MaxSend] /\ \A c \in Conns : read[c] \in Nat
    BY <1>1, Items DEF EpollInv, EpollTypeOK
  <2>2. t.from \in Conns /\ t.first \in Nat /\ t.last \in Nat
    BY ItemFields
  <2>3. /\ \A c \in Conns : \A n \in Nat : n <= read[c] => n <= read'[c]
        /\ t.last <= read'[t.from]
    BY <1>7, <2>1, <2>2
  <2>4. \A u \in Task \cup Reply :
          u.last <= read[u.from] => u.last <= read'[u.from] /\ Apart(t, u) /\ Apart(u, t)
    <3> SUFFICES ASSUME NEW u \in Task \cup Reply, u.last <= read[u.from]
                 PROVE  u.last <= read'[u.from] /\ Apart(t, u) /\ Apart(u, t)
      OBVIOUS
    <3>1. u.from \in Conns /\ u.last \in Nat
      BY ItemFields
    <3> QED BY <1>7, <2>1, <2>2, <2>3, <3>1 DEF Apart
  <2>5. /\ \A i \in 1..Len(queue) : queue[i] \in Task /\ queue[i].last <= read[queue[i].from]
        /\ \A w \in Held : hold[w] \in Task /\ hold[w].last <= read[hold[w].from]
        /\ \A c \in Conns : \A i \in 1..Len(replies[c]) :
             replies[c][i] \in Reply /\ replies[c][i].last <= read[replies[c][i].from]
    BY <1>1, Items DEF EchoInv, AllRead
  <2>6. AllRead'
    <3>1. \A i \in 1..Len(queue') :
            /\ queue'[i].first <= queue'[i].last
            /\ queue'[i].last <= read'[queue'[i].from]
      BY <1>7, <2>3, <2>4, <2>5 DEF EchoInv, AllRead
    <3>2. \A w \in Held : hold[w].first <= hold[w].last /\ hold[w].last <= read'[hold[w].from]
      BY <2>4, <2>5 DEF EchoInv, AllRead
    <3>3. \A c \in Conns : \A i \in 1..Len(replies[c]) :
            replies[c][i].last <= read'[replies[c][i].from]
      BY <2>4, <2>5
    <3> QED BY <1>2, <3>1, <3>2, <3>3 DEF AllRead
  <2>7. QueueApart'
    BY <1>7, <2>4, <2>5 DEF EchoInv, QueueApart
  <2>8. HeldApart'
    BY <1>2, <1>7, <2>4, <2>5 DEF EchoInv, HeldApart
  <2>9. RepliesApart'
    BY <1>2, <1>7, <2>4, <2>5 DEF EchoInv, RepliesApart
  <2>10. \A i \in 1..Len(queue') :
           fdtab'[queue'[i].socket] = queue'[i].from \/ queue'[i].from \in Gone'
    BY <1>1, <1>3, <1>7, <2>5, ItemFields DEF EchoInv, Addressed
  <2>11. Addressed'
    BY <1>2, <1>4, <1>5, <2>10 DEF Addressed
  <2> QED BY <1>1, <2>6, <2>7, <2>8, <2>9, <2>11 DEF EchoInv
<1> QED
  BY <1>1, <1>6, <1>7, QueueStep

-------------------------------------------------------------------------------
(* The workers' steps *)

\* A worker that takes or sends a task leaves the epoll thread's records as they are.
LEMMA EpollFrame ==
  ASSUME EpollInv, queue' \in Seq(Task), UNCHANGED <<net, read, kernel, events, running, table>>
  PROVE  EpollInv' /\ Gone' = Gone
<1>1. EpollTypeOK' /\ SlotsOK' /\ OpenOK'
  BY DEF EpollInv, net, kernel, events, table, EpollTypeOK, SlotsOK, OpenOK,
     ListedFds, OpenFds, Listed
<1>2. BatchFresh' /\ BacklogOK' /\ ReadSent'
  BY DEF EpollInv, net, kernel, events, table, BatchFresh, BacklogOK, ReadSent, OpenFds, Open,
     Listed
<1>3. Gone' = Gone
  BY DEF Gone, Closed, Waiting, Open, net, kernel
<1> QED
  BY <1>1, <1>2, <1>3 DEF EpollInv

\* A task moves from the list to one worker.
LEMMA GetPart ==
  ASSUME EchoInv, NEW w \in Workers, WorkerGet(w)
  PROVE  EchoInv'
<1>1. EpollInv /\ EchoTypeOK
  BY DEF EchoInv
<1>2. /\ queue # <<>> /\ queue' = Tail(queue) /\ hold' = [hold EXCEPT ![w] = Head(queue)]
      /\ UNCHANGED <<net, read, kernel, events, running, table>> /\ replies' = replies
  BY DEF WorkerGet
<1>3. /\ queue' \in Seq(Task) /\ Head(queue) = queue[1] /\ queue[1] \in Task
      /\ Len(queue) \in Nat \ {0} /\ 1 \in 1..Len(queue)
      /\ \A i \in 1..Len(queue') : /\ i + 1 \in 1..Len(queue) /\ queue'[i] = queue[i + 1]
                                   /\ 1 # i + 1 /\ i \in Int
  <2>1. queue \in Seq(Task)
    BY <1>1, Items
  <2>2. /\ Tail(queue) \in Seq(Task) /\ Len(queue) \in Nat \ {0}
        /\ Len(Tail(queue)) = Len(queue) - 1
        /\ \A i \in 1..(Len(queue) - 1) : Tail(queue)[i] = queue[i + 1]
    BY <1>2, <2>1, TailIndex
  <2> QED BY <1>2, <2>1, <2>2, HeadIndex
<1>4. EpollInv' /\ Gone' = Gone
  BY <1>1, <1>2, <1>3, EpollFrame
<1>5. EchoTypeOK'
  BY <1>1, <1>2, <1>3 DEF EchoTypeOK
<1>6. \A v \in Held' : (v = w /\ hold'[v] = queue[1]) \/ (v # w /\ v \in Held /\ hold'[v] = hold[v])
  BY <1>1, <1>2, <1>3 DEF Held, EchoTypeOK
<1>7. fdtab' = fdtab /\ read' = read
  BY <1>2 DEF kernel
<1>8. AllRead'
  BY <1>2, <1>3, <1>6, <1>7 DEF EchoInv, AllRead
<1>9. Addressed'
  BY <1>2, <1>3, <1>4, <1>6, <1>7 DEF EchoInv, Addressed
<1>10. \A i, j \in 1..Len(queue) : i # j => Apart(queue[i], queue[j]) /\ Apart(queue[j], queue[i])
  BY DEF EchoInv, QueueApart
<1>11. QueueApart'
  BY <1>3, <1>10 DEF QueueApart
<1>12. HeldApart'
  <2>1. \A v \in Held : \A i \in 1..Len(queue) :
          Apart(hold[v], queue[i]) /\ Apart(queue[i], hold[v])
    BY DEF EchoInv, HeldApart, Apart
  <2>2. \A u, v \in Held : u # v => Apart(hold[u], hold[v])
    BY DEF EchoInv, HeldApart
  <2>3. \A v \in Held' : \A i \in 1..Len(queue') :
          Apart(hold'[v], queue'[i]) /\ Apart(queue'[i], hold'[v])
    BY <1>3, <1>6, <1>10, <2>1
  <2>4. \A u, v \in Held' : u # v => Apart(hold'[u], hold'[v])
    BY <1>3, <1>6, <2>1, <2>2
  <2> QED BY <2>3, <2>4 DEF HeldApart
<1>13. RepliesApart'
  BY <1>2, <1>3, <1>6, SMTT(60) DEF EchoInv, RepliesApart
<1> QED
  BY <1>4, <1>5, <1>8, <1>9, <1>11, <1>12, <1>13 DEF EchoInv

\* A reply takes over its task's requests, and goes to the task's client unless that
\* client's connection is closed.
LEMMA SendPart ==
  ASSUME EchoInv, NEW w \in Workers, WorkerSend(w)
  PROVE  EchoInv'
<1>1. EpollInv /\ EchoTypeOK
  BY DEF EchoInv
<1>2. hold' = [hold EXCEPT ![w] = NULL] /\ UNCHANGED epollVars /\ w \in Held
  BY DEF WorkerSend, Held
<1>3. /\ UNCHANGED <<net, read, kernel, events, running, table, queue>>
      /\ fdtab' = fdtab /\ read' = read /\ queue' = queue
  BY <1>2 DEF epollVars, kernel
<1>4. EpollInv' /\ Gone' = Gone
  <2>1. queue' \in Seq(Task)
    BY <1>1, <1>3, Items
  <2> QED BY <1>1, <1>3, <2>1, EpollFrame
<1>5. \A v \in Held' : v \in Held /\ v # w /\ hold'[v] = hold[v]
  BY <1>1, <1>2 DEF Held, EchoTypeOK
<1>6. hold' \in [Workers -> Task \cup {NULL}]
  BY <1>1, <1>2 DEF EchoTypeOK
<1>7. QueueApart'
  BY <1>3 DEF EchoInv, QueueApart
<1>8. HeldApart'
  BY <1>3, <1>5 DEF EchoInv, HeldApart
<1>9. CASE replies' = replies
  <2>1. EchoTypeOK' /\ AllRead' /\ RepliesApart' /\ Addressed'
    BY <1>1, <1>3, <1>4, <1>5, <1>6, <1>9
       DEF EchoInv, EchoTypeOK, AllRead, RepliesApart, Addressed
  <2> QED BY <1>4, <1>7, <1>8, <2>1 DEF EchoInv
<1>10. CASE replies' # replies
  <2> DEFINE c == Receiver(hold[w].socket)
             r == [from |-> hold[w].from, first |-> hold[w].first, last |-> hold[w].last]
  <2>1. c # NULL /\ replies' = [replies EXCEPT ![c] = Append(@, r)]
    BY <1>10 DEF WorkerSend
  <2>2. hold[w] \in Task /\ hold[w].socket \in Fds
    BY <1>1, <1>2, Items, ItemFields
  <2>3. c \in Conns /\ fdtab[hold[w].socket] = c
    BY <1>1, <2>1, <2>2 DEF Receiver, EpollInv, EpollTypeOK
  <2>4. /\ r \in Reply
        /\ r.from = hold[w].from /\ r.first = hold[w].first /\ r.last = hold[w].last
    BY <2>2 DEF Task, Reply
  <2>5. r.from = c \/ r.from \in Gone
    BY <1>2, <2>3, <2>4 DEF EchoInv, Addressed
  <2>6. r.last <= read[r.from]
    BY <1>2, <2>4 DEF EchoInv, AllRead
  <2> HIDE DEF c, r
  <2>7. \A x : Apart(hold[w], x) \/ Apart(x, hold[w]) => Apart(r, x) /\ Apart(x, r)
    BY <2>4 DEF Apart
  <2>8. \A d \in Conns : replies'[d] = IF d = c THEN Append(replies[d], r) ELSE replies[d]
    BY <1>1, <2>1, <2>3 DEF EchoTypeOK
  <2>9. /\ Append(replies[c], r) \in Seq(Reply) /\ Len(replies[c]) \in Nat
        /\ \A i \in 1..Len(Append(replies[c], r)) :
             \/ i \in 1..Len(replies[c]) /\ Append(replies[c], r)[i] = replies[c][i]
             \/ i = Len(replies[c]) + 1 /\ Append(replies[c], r)[i] = r
    BY <1>1, <2>3, <2>4, Items, AppendIndex
  <2>10. \A d \in Conns : \A i \in 1..Len(replies'[d]) :
           \/ i \in 1..Len(replies[d]) /\ replies'[d][i] = replies[d][i]
           \/ d = c /\ i = Len(replies[c]) + 1 /\ replies'[d][i] = r
    BY <2>8, <2>9
  <2>11. EchoTypeOK'
    BY <1>1, <1>6, <2>1, <2>3, <2>8, <2>9 DEF EchoTypeOK
  <2>12. AllRead'
    BY <1>3, <1>5, <2>6, <2>10 DEF EchoInv, AllRead
  <2>13. Addressed'
    BY <1>3, <1>4, <1>5, <2>5, <2>10 DEF EchoInv, Addressed
  <2>14. RepliesApart'
    <3>1. /\ \A i \in 1..Len(queue) : Apart(r, queue[i])
          /\ \A v \in Held : v # w => Apart(r, hold[v])
          /\ \A d \in Conns : \A i \in 1..Len(replies[d]) :
               Apart(r, replies[d][i]) /\ Apart(replies[d][i], r)
      BY <1>2, <2>7 DEF EchoInv, HeldApart, RepliesApart
    <3> QED BY <1>3, <1>5, <2>10, <3>1 DEF EchoInv, RepliesApart
  <2> QED BY <1>4, <1>7, <1>8, <2>11, <2>12, <2>13, <2>14 DEF EchoInv
<1> QED
  BY <1>9, <1>10

-------------------------------------------------------------------------------
(* The theorems *)

\* The invariant holds of every behaviour of the echo server.
THEOREM EchoInvariance == EchoSpec => []EchoInv
<1>1. EchoInit => EchoInv
  <2> SUFFICES ASSUME EchoInit PROVE EchoInv
    OBVIOUS
  <2>1. EpollInv /\ queue = <<>> /\ Len(queue) = 0
    BY EpollInitInv DEF EchoInit, EpollInit
  <2>2. /\ hold = [w \in Workers |-> NULL] /\ replies = [c \in Conns |-> <<>>]
        /\ \A c \in Conns : Len(replies[c]) = 0
    BY DEF EchoInit
  <2>3. EchoTypeOK /\ Held = {}
    BY <2>2 DEF EchoTypeOK, Held
  <2>4. AllRead /\ QueueApart /\ HeldApart /\ RepliesApart /\ Addressed
    BY <2>1, <2>2, <2>3 DEF AllRead, QueueApart, HeldApart, RepliesApart, Addressed
  <2> QED BY <2>1, <2>3, <2>4 DEF EchoInv
<1>2. EchoInv /\ [EchoNext]_echoVars => EchoInv'
  <2> SUFFICES ASSUME EchoInv, [EchoNext]_echoVars PROVE EchoInv'
    OBVIOUS
  <2>1. CASE EpollNext /\ UNCHANGED <<hold, replies, refused>>
    BY <2>1, EpollPart
  <2>2. CASE \E w \in Workers : WorkerStep(w)
    BY <2>2, GetPart, SendPart DEF WorkerStep
  <2>3. CASE UNCHANGED echoVars
    BY <2>3, EpollPart DEF echoVars
  <2> QED BY <2>1, <2>2, <2>3 DEF EchoNext
<1> QED
  BY <1>1, <1>2, PTL DEF EchoSpec

\* Tasks and replies that are apart have no request in common.
LEMMA SpansApart ==
  ASSUME NEW t, NEW u, Apart(t, u),
         t.first \in Nat, t.last \in Nat, u.first \in Nat, u.last \in Nat
  PROVE  Span(t) \cap Span(u) = {}
<1> SUFFICES ASSUME NEW p \in Span(t), p \in Span(u) PROVE FALSE
  OBVIOUS
<1>1. PICK n \in t.first..t.last : p = <<t.from, n>>
  BY DEF Span
<1>2. PICK m \in u.first..u.last : p = <<u.from, m>>
  BY DEF Span
<1> QED
  BY <1>1, <1>2 DEF Apart

\* However the epoll thread and the workers interleave, a request that was read is in the
\* list, with one worker or in one reply, and no client gets an echo twice.
THEOREM EachOnce == EchoSpec => []EachRequestOnce
<1>1. EchoInv => EachRequestOnce
  <2> SUFFICES ASSUME EchoInv PROVE EachRequestOnce
    OBVIOUS
  <2>1. /\ \A i \in 1..Len(queue) : queue[i] \in Task
        /\ \A w \in Held : hold[w] \in Task
        /\ \A c \in Conns : \A i \in 1..Len(replies[c]) : replies[c][i] \in Reply
    BY Items DEF EchoInv
  <2>2. \A t, u \in Task \cup Reply : Apart(t, u) => Span(t) \cap Span(u) = {}
    BY ItemFields, SpansApart
  <2>3. \A w \in Held : \A i \in 1..Len(queue) : Span(hold[w]) \cap Span(queue[i]) = {}
    BY <2>1, <2>2 DEF EchoInv, HeldApart
  <2>4. /\ \A c \in Conns : \A i \in 1..Len(replies[c]) :
             /\ \A j \in 1..Len(queue) : Span(replies[c][i]) \cap Span(queue[j]) = {}
             /\ \A w \in Held : Span(replies[c][i]) \cap Span(hold[w]) = {}
        /\ \A c, d \in Conns : \A i \in 1..Len(replies[c]) : \A j \in 1..Len(replies[d]) :
             c # d \/ i # j => Span(replies[c][i]) \cap Span(replies[d][j]) = {}
    BY <2>1, <2>2 DEF EchoInv, RepliesApart
  <2>5. /\ \A p \in Queued : \E i \in 1..Len(queue) : p \in Span(queue[i])
        /\ \A p \in InHand : \E w \in Held : p \in Span(hold[w])
        /\ \A c \in Conns : \A p \in Delivered(c) :
             \E i \in 1..Len(replies[c]) : p \in Span(replies[c][i])
    BY DEF Queued, InHand, Delivered, Held
  <2>6. Queued \cap InHand = {}
    BY <2>3, <2>5
  <2>7. \A c \in Conns : Delivered(c) \cap (Queued \cup InHand) = {}
    BY <2>4, <2>5
  <2>8. ASSUME NEW c \in Conns, NEW d \in Conns \ {c}, NEW p \in Delivered(c), p \in Delivered(d) PROVE FALSE
    <3>1. PICK i \in 1..Len(replies[c]) : p \in Span(replies[c][i])
      BY <2>5
    <3>2. PICK j \in 1..Len(replies[d]) : p \in Span(replies[d][j])
      BY <2>5, <2>8
    <3>3. Span(replies[c][i]) \cap Span(replies[d][j]) = {}
      BY <2>4
    <3> QED BY <3>1, <3>2, <3>3
  <2>9. \A c \in Conns : \A i, j \in 1..Len(replies[c]) :
          i # j => Span(replies[c][i]) \cap Span(replies[c][j]) = {}
    BY <2>4
  <2> QED BY <2>6, <2>7, <2>8, <2>9, ZenonT(60) DEF EachRequestOnce
<1> QED
  BY EchoInvariance, <1>1, PTL

\* A client receives the bytes of another only once that other's connection is closed,
\* although a task names its client by a number that accept gives out again.
THEOREM NeedsClose == EchoSpec => []MisdeliveryNeedsClose
<1>1. EchoInv => MisdeliveryNeedsClose
  <2> SUFFICES ASSUME EchoInv, NEW c \in Conns, NEW p \in Delivered(c), p[1] # c
               PROVE  Closed(p[1])
    BY DEF MisdeliveryNeedsClose
  <2>1. PICK i \in 1..Len(replies[c]) : p \in Span(replies[c][i])
    BY DEF Delivered
  <2>2. p[1] = replies[c][i].from
    BY <2>1 DEF Span
  <2> QED BY <2>2 DEF EchoInv, Addressed, Gone
<1> QED
  BY EchoInvariance, <1>1, PTL

-------------------------------------------------------------------------------
(* The refinement of EchoService *)

\* A connection is closed by the accept that turns it away, or by the handler that reads
\* its end or an error.
LEMMA NewlyClosed ==
  ASSUME EpollInv, EpollNext, NEW c \in Conns, Closed(c)', ~Closed(c)
  PROVE  \/ AcceptRefuses /\ c = Head(backlog)
         \/ \E f \in Fds : (CloseOnError(f) \/ ReadEof(f)) /\ c = fdtab[f]
<1>1. EpollTypeOK /\ BacklogOK /\ c # NULL
  BY ConnsAssumption DEF EpollInv
<1>2. /\ peer'[c] # "absent" /\ \A f \in Fds : fdtab'[f] # c
      /\ \A i \in 1..Len(backlog') : backlog'[i] # c
  BY DEF Closed, Waiting, Open
<1>3. ASSUME UNCHANGED peer, \A f \in Fds : fdtab[f] # c,
             \A i \in 1..Len(backlog) : backlog[i] # c
      PROVE  FALSE
  BY <1>2, <1>3 DEF Closed, Waiting, Open
<1>4. ASSUME UNCHANGED <<peer, backlog, fdtab>> PROVE FALSE
  BY <1>2, <1>3, <1>4
<1>5. ASSUME NEW d \in Conns, Connect(d) PROVE FALSE
  <2>1. backlog \in Seq(Conns) /\ backlog' = Append(backlog, d) /\ UNCHANGED fdtab
    BY <1>1, <1>5 DEF Connect, EpollTypeOK
  <2>2. /\ Len(backlog) + 1 \in 1..Len(backlog') /\ backlog'[Len(backlog) + 1] = d
        /\ \A i \in 1..Len(backlog) : i \in 1..Len(backlog') /\ backlog'[i] = backlog[i]
    BY <2>1, AppendIndex, SeqNonEmpty
  <2>3. c # d /\ \A i \in 1..Len(backlog) : backlog[i] # c
    BY <1>2, <2>2
  <2>4. peer[c] # "absent"
    BY <1>1, <1>2, <1>5, <2>3 DEF Connect, EpollTypeOK
  <2> QED BY <1>2, <2>1, <2>3, <2>4 DEF Closed, Waiting, Open
<1>6. ASSUME NEW d \in Conns, Send(d) \/ \E how \in {"fin", "rst"} : Hangup(d, how) PROVE FALSE
  <2>1. UNCHANGED <<backlog, fdtab>> /\ peer[c] # "absent"
    BY <1>1, <1>2, <1>6 DEF Send, Hangup, EpollTypeOK
  <2> QED BY <1>2, <2>1 DEF Closed, Waiting, Open
<1>7. ASSUME backlog # <<>>, backlog' = Tail(backlog), UNCHANGED peer, c # Head(backlog),
             \A f \in Fds : fdtab[f] = c => fdtab'[f] = c
      PROVE  FALSE
  <2>1. /\ backlog \in Seq(Conns) /\ Head(backlog) = backlog[1] /\ Len(backlog) \in Nat
        /\ Len(backlog') = Len(backlog) - 1
        /\ \A i \in 1..(Len(backlog) - 1) : backlog'[i] = backlog[i + 1]
    BY <1>1, <1>7, HeadIndex, TailIndex, SeqNonEmpty DEF EpollTypeOK
  <2>2. ASSUME NEW i \in 1..Len(backlog), backlog[i] = c PROVE FALSE
    <3>1. i # 1
      BY <1>7, <2>1, <2>2
    <3>2. i - 1 \in 1..Len(backlog') /\ backlog'[i - 1] = backlog[i]
      BY <2>1, <3>1
    <3> QED BY <1>2, <2>2, <3>2
  <2> QED BY <1>2, <1>3, <1>7, <2>2
<1>8. CASE AcceptRefuses
  <2>1. backlog # <<>> /\ backlog' = Tail(backlog) /\ UNCHANGED <<peer, fdtab>>
    BY <1>8 DEF AcceptRefuses, CannotAccept, net
  <2> QED BY <1>7, <1>8, <2>1
<1>9. ASSUME Accept \/ AcceptAddFails PROVE FALSE
  <2>1. /\ ~CannotAccept /\ backlog # <<>> /\ backlog' = Tail(backlog) /\ UNCHANGED peer
        /\ fdtab' = [fdtab EXCEPT ![LowestFree] = Head(backlog)]
    BY <1>9 DEF Accept, AcceptAddFails, CannotAccept, net
  <2>2. /\ LowestFree \in Fds /\ fdtab[LowestFree] = NULL
        /\ fdtab \in [Fds -> Conns \cup {NULL}]
    BY <1>1, <2>1, AcceptedFacts DEF EpollTypeOK
  <2>3. \A f \in Fds : fdtab[f] = c => fdtab'[f] = c
    BY <1>1, <2>1, <2>2
  <2>4. c # Head(backlog)
    BY <1>2, <2>1, <2>2
  <2> QED BY <1>7, <2>1, <2>3, <2>4
<1>10. ASSUME NEW f \in Fds, CloseOnError(f) \/ ReadEof(f)
       PROVE  c = fdtab[f]
  <2>1. Take(f) /\ CloseSocket(f) /\ UNCHANGED <<peer, backlog>>
    BY <1>10 DEF CloseOnError, ReadEof, net
  <2>2. \A g \in Fds : g # f => fdtab'[g] = fdtab[g]
    BY <2>1, CloseFacts
  <2>3. ASSUME c # fdtab[f] PROVE FALSE
    BY <1>2, <1>3, <2>1, <2>2, <2>3
  <2> QED BY <2>3
<1>11. CASE EpollWait
  BY <1>4, <1>11 DEF EpollWait, net
<1>12. CASE HandleListen
  BY <1>4, <1>8, <1>9, <1>12 DEF HandleListen, AcceptFails, net, kernel
<1>13. ASSUME NEW f \in Fds, HandleClient(f)
       PROVE  (CloseOnError(f) \/ ReadEof(f)) /\ c = fdtab[f]
  BY <1>4, <1>10, <1>13 DEF HandleClient, ReadData, ReadNothing, net, kernel
<1> QED
  BY <1>5, <1>6, <1>11, <1>12, <1>13 DEF EpollNext, EpollStep, ClientStep

\* A step that closes no connection leaves the set of the closed ones as it is; one that
\* does adds one.
LEMMA GoneStep ==
  ASSUME EpollInv, [EpollNext]_epollVars
  PROVE  \/ Gone' = Gone
         \/ /\ EpollNext
            /\ \E c \in Conns \ Gone : Gone' = Gone \cup {c}
            /\ AcceptRefuses \/ \E f \in Fds : CloseOnError(f) \/ ReadEof(f)
<1>1. Gone \subseteq Gone'
  BY ClosedGrows
<1>2. CASE Gone' = Gone
  BY <1>2
<1>3. CASE Gone' # Gone
  <2>1. PICK c \in Conns \ Gone : c \in Gone'
    BY <1>1, <1>3 DEF Gone
  <2>2. Closed(c)' /\ ~Closed(c)
    BY <2>1 DEF Gone
  <2>3. EpollNext
    BY <2>2 DEF epollVars, net, kernel, Closed, Waiting, Open
  <2>4. /\ Take(Listen) \/ \A d \in Conns : d \in Gone' \ Gone =>
             \E f \in Fds : Take(f) /\ d = fdtab[f]
        /\ Listen \notin Fds
    BY <2>3, NewlyClosed, FdsAssumption DEF Gone, AcceptRefuses, CloseOnError, ReadEof
  <2>5. \A d \in Gone' \ Gone : d = c
    <3> SUFFICES ASSUME NEW d \in Gone' \ Gone PROVE d = c
      OBVIOUS
    <3>1. d \in Conns /\ Closed(d)' /\ ~Closed(d)
      BY DEF Gone
    <3>2. /\ \/ AcceptRefuses /\ c = Head(backlog)
             \/ \E f \in Fds : (CloseOnError(f) \/ ReadEof(f)) /\ c = fdtab[f]
          /\ \/ AcceptRefuses /\ d = Head(backlog)
             \/ \E f \in Fds : (CloseOnError(f) \/ ReadEof(f)) /\ d = fdtab[f]
      BY <2>2, <2>3, <3>1, NewlyClosed
    <3>3. ASSUME AcceptRefuses, NEW f \in Fds, CloseOnError(f) \/ ReadEof(f) PROVE FALSE
      <4>1. UNCHANGED fdtab /\ fdtab'[f] = NULL /\ fdtab[f] \in Conns
        <5>1. Take(f) /\ CloseSocket(f)
          BY <3>3 DEF CloseOnError, ReadEof
        <5> QED BY <3>3, <5>1, CloseFacts DEF AcceptRefuses
      <4> QED BY <4>1, ConnsAssumption
    <3>4. ASSUME NEW f \in Fds, NEW g \in Fds, f # g,
                 CloseOnError(f) \/ ReadEof(f), CloseOnError(g) \/ ReadEof(g)
          PROVE  FALSE
      <4>1. Take(f) /\ CloseSocket(f) /\ Take(g) /\ CloseSocket(g)
        BY <3>4 DEF CloseOnError, ReadEof
      <4>2. fdtab'[f] = NULL /\ fdtab'[f] = fdtab[f] /\ fdtab[f] \in Conns
        BY <3>4, <4>1, CloseFacts
      <4> QED BY <4>2, ConnsAssumption
    <3> QED BY <3>2, <3>3, <3>4
  <2>6. Gone' = Gone \cup {c}
    BY <1>1, <2>1, <2>5
  <2>7. AcceptRefuses \/ \E f \in Fds : CloseOnError(f) \/ ReadEof(f)
    BY <2>2, <2>3, NewlyClosed
  <2> QED BY <2>3, <2>6, <2>7
<1> QED
  BY <1>2, <1>3

\* The portions not yet answered are those of the list and of the workers.
LEMMA UnansweredFacts ==
  ASSUME NEW p
  PROVE  p \in Unanswered <=> \/ \E i \in 1..Len(queue) : p = Portion(queue[i])
                              \/ \E w \in Held : p = Portion(hold[w])
BY DEF Unanswered, Held

\* Nothing is asked, taken or closed at the start.
LEMMA EchoRefinementInit == EchoInit => Service!Init
<1> SUFFICES ASSUME EchoInit PROVE Service!Init
  OBVIOUS
<1>1. /\ queue = <<>> /\ Len(queue) = 0 /\ hold = [w \in Workers |-> NULL]
      /\ peer = [c \in Conns |-> "absent"]
      /\ sent = [c \in Conns |-> 0] /\ read = [c \in Conns |-> 0]
      /\ replies = [c \in Conns |-> <<>>] /\ refused = {}
  BY DEF EchoInit, EpollInit
<1>2. Unanswered = {}
  BY <1>1, UnansweredFacts DEF Held
<1>3. Broken = {} /\ Gone = {}
  BY <1>1 DEF Broken, Gone, Closed
<1> QED
  BY <1>1, <1>2, <1>3 DEF Service!Init

\* A client's request, its reset, a read and a close are steps of the service; the rest of
\* what the epoll thread and the clients do is not seen.
LEMMA EpollRefines ==
  ASSUME EchoInv, EpollNext, UNCHANGED <<hold, replies, refused>>
  PROVE  Service!Next \/ UNCHANGED Service!vars
<1>1. /\ EpollTypeOK /\ EpollInv /\ sent \in [Conns -> 0..MaxSend] /\ MaxSend \in Nat
      /\ peer \in [Conns -> {"absent", "up", "fin", "rst"}]
  BY LimitsAssumption DEF EchoInv, EpollInv, EpollTypeOK
<1>2. queue' = queue => Unanswered' = Unanswered
  BY DEF Unanswered
<1>3. peer' = peer => Broken' = Broken
  BY DEF Broken
<1>4. \/ Gone' = Gone
      \/ /\ \E c \in Conns \ Gone : Gone' = Gone \cup {c}
         /\ AcceptRefuses \/ \E f \in Fds : CloseOnError(f) \/ ReadEof(f)
  BY <1>1, GoneStep
<1>5. CASE Gone' # Gone
  <2>1. PICK c \in Conns \ Gone : Gone' = Gone \cup {c}
    BY <1>4, <1>5
  <2>2. UNCHANGED <<peer, sent, read, queue>>
    BY <1>4, <1>5 DEF AcceptRefuses, CloseOnError, ReadEof, net
  <2>3. Service!Leave(c)
    BY <1>2, <1>3, <2>1, <2>2 DEF Service!Leave
  <2> QED BY <2>1, <2>3 DEF Service!Next
<1>6. CASE Gone' = Gone
  <2>1. ASSUME NEW f \in Fds, ReadData(f) PROVE Service!Next
    <3>1. PICK t \in Task :
            /\ t.from = fdtab[f] /\ f \in OpenFds
            /\ t.first = read[t.from] + 1 /\ t.first <= t.last /\ t.last <= sent[t.from]
            /\ read' = [read EXCEPT ![t.from] = t.last]
            /\ queue' = Append(queue, t)
      BY <1>1, <2>1, ReadDataFacts
    <3>2. UNCHANGED <<peer, sent>>
      BY <2>1 DEF ReadData, net
    <3>3. t.from \in Conns /\ t.last \in 1..MaxSend /\ t.first \in Nat
      BY ItemFields DEF Task
    <3>4. t.from \notin Gone
      BY <3>1 DEF Gone, Closed, Open, OpenFds
    <3>5. t.last \in read[t.from] + 1..sent[t.from]
      BY <1>1, <3>1, <3>3
    <3>6. Unanswered' = Unanswered \cup {Portion(t)}
      <4>1. /\ queue \in Seq(Task) /\ Len(queue) \in Nat
            /\ Len(queue') = Len(queue) + 1 /\ queue'[Len(queue) + 1] = t
            /\ \A i \in 1..Len(queue) : queue'[i] = queue[i]
        BY <1>1, <3>1, AppendIndex, SeqNonEmpty DEF EpollTypeOK
      <4>2. \A i \in 1..Len(queue') : i \in 1..Len(queue) \/ i = Len(queue) + 1
        BY <4>1
      <4>3. /\ Len(queue) + 1 \in 1..Len(queue')
            /\ \A i \in 1..Len(queue) : i \in 1..Len(queue')
        BY <4>1
      <4>4. {Portion(queue'[i]) : i \in 1..Len(queue')}
              = {Portion(queue[i]) : i \in 1..Len(queue)} \cup {Portion(t)}
        BY <4>1, <4>2, <4>3
      <4> QED BY <4>4 DEF Unanswered
    <3>7. Portion(t) = [from |-> t.from, first |-> read[t.from] + 1, last |-> t.last]
      BY <3>1 DEF Portion
    <3>8. Service!Take(t.from, t.last)
      BY <1>3, <1>6, <3>1, <3>2, <3>4, <3>5, <3>6, <3>7 DEF Service!Take
    <3> QED BY <3>3, <3>8 DEF Service!Next
  <2>2. ASSUME NEW c \in Conns, Send(c) PROVE Service!Next
    <3>1. /\ peer[c] = "up" /\ c \notin Gone /\ sent[c] < MaxSend
          /\ sent' = [sent EXCEPT ![c] = @ + 1] /\ UNCHANGED <<peer, read, queue>>
      BY <2>2 DEF Send, Gone, table
    <3>2. c \notin Gone \cup Broken
      BY <3>1 DEF Broken
    <3>3. Service!Ask(c)
      BY <1>2, <1>3, <1>6, <3>1, <3>2 DEF Service!Ask
    <3> QED BY <3>3 DEF Service!Next
  <2>3. ASSUME NEW c \in Conns, NEW how \in {"fin", "rst"}, Hangup(c, how)
        PROVE  Service!Next \/ UNCHANGED Service!vars
    <3>1. /\ peer[c] \in {"up", "fin"} /\ c \notin Gone
          /\ peer' = [peer EXCEPT ![c] = how] /\ UNCHANGED <<sent, read, queue>>
      BY <2>3 DEF Hangup, Gone
    <3>2. CASE how = "fin"
      <4>1. Broken' = Broken
        BY <1>1, <3>1, <3>2 DEF Broken
      <4> QED BY <1>2, <1>6, <3>1, <4>1 DEF Service!vars
    <3>3. CASE how = "rst"
      <4>1. Broken' = Broken \cup {c} /\ c \notin Broken
        BY <1>1, <3>1, <3>3 DEF Broken
      <4>2. Service!Break(c)
        BY <1>2, <1>6, <3>1, <4>1 DEF Service!Break
      <4> QED BY <4>2 DEF Service!Next
    <3> QED BY <3>2, <3>3
  <2>4. ASSUME NEW c \in Conns, Connect(c) PROVE UNCHANGED Service!vars
    <3>1. peer[c] = "absent" /\ peer' = [peer EXCEPT ![c] = "up"] /\ UNCHANGED <<sent, read, queue>>
      BY <2>4 DEF Connect
    <3>2. Broken' = Broken
      BY <1>1, <3>1 DEF Broken
    <3> QED BY <1>2, <1>6, <3>1, <3>2 DEF Service!vars
  <2>5. ASSUME UNCHANGED <<net, read, queue>> PROVE UNCHANGED Service!vars
    BY <1>2, <1>3, <1>6, <2>5 DEF Service!vars, net
  <2>6. CASE EpollWait \/ HandleListen
    <3>1. UNCHANGED <<net, read, queue>>
      BY <2>6 DEF EpollWait, HandleListen, AcceptFails, AcceptRefuses, Accept, AcceptAddFails
    <3> QED BY <2>5, <3>1
  <2>7. ASSUME NEW f \in Fds, CloseOnError(f) \/ ReadEof(f) \/ ReadNothing(f)
        PROVE  UNCHANGED Service!vars
    <3>1. UNCHANGED <<net, read, queue>>
      BY <2>7 DEF CloseOnError, ReadEof, ReadNothing
    <3> QED BY <2>5, <3>1
  <2> QED
    BY <2>1, <2>2, <2>3, <2>4, <2>6, <2>7 DEF EpollNext, EpollStep, HandleClient, ClientStep
<1> QED
  BY <1>5, <1>6

\* A portion passes from the list to a worker unseen, and its answer is a step of the
\* service: to its client, or to another if that one has gone, or to no one.
LEMMA WorkersRefine ==
  ASSUME EchoInv, NEW w \in Workers, WorkerStep(w)
  PROVE  Service!Next \/ UNCHANGED Service!vars
<1>1. EpollInv /\ EchoTypeOK /\ EpollTypeOK
  BY DEF EchoInv, EpollInv
<1>2. CASE WorkerGet(w)
  <2>1. /\ hold[w] = NULL /\ queue # <<>> /\ queue' = Tail(queue)
        /\ hold' = [hold EXCEPT ![w] = Head(queue)]
        /\ UNCHANGED <<net, read, kernel, replies, refused>>
    BY <1>2 DEF WorkerGet
  <2>2. Broken' = Broken /\ Gone' = Gone
    BY <2>1 DEF Broken, Gone, Closed, Waiting, Open, net, kernel
  <2>3. /\ queue \in Seq(Task) /\ Head(queue) = queue[1] /\ queue[1] \in Task
        /\ Len(queue) \in Nat \ {0} /\ Len(queue') = Len(queue) - 1
        /\ \A i \in 1..(Len(queue) - 1) : queue'[i] = queue[i + 1]
    BY <1>1, <2>1, Items, HeadIndex, TailIndex
  <2>4. Held' = Held \cup {w} /\ hold'[w] = queue[1] /\ w \notin Held
        /\ \A v \in Held : hold'[v] = hold[v]
    <3>1. queue[1] # NULL
      <4>1. queue[1] \in [socket : Fds, from : Conns, first : Nat, last : Nat]
        BY <2>3, LimitsAssumption DEF Task
      <4> QED BY <4>1, TaskAssumption
    <3>2. hold \in [Workers -> Task \cup {NULL}]
      BY <1>1 DEF EchoTypeOK
    <3> QED BY <2>1, <2>3, <3>1, <3>2 DEF Held
  <2>5. ASSUME NEW p PROVE p \in Unanswered' <=> p \in Unanswered
    <3>1. (\E i \in 1..Len(queue) : p = Portion(queue[i]))
            <=> p = Portion(queue[1]) \/ \E i \in 1..Len(queue') : p = Portion(queue'[i])
      <4>1. \A i \in 1..Len(queue) : i # 1 => i - 1 \in 1..Len(queue') /\ queue'[i - 1] = queue[i]
        <5> SUFFICES ASSUME NEW i \in 1..Len(queue), i # 1
                     PROVE  i - 1 \in 1..Len(queue') /\ queue'[i - 1] = queue[i]
          OBVIOUS
        <5>1. i - 1 \in 1..(Len(queue) - 1) /\ (i - 1) + 1 = i
          BY <2>3
        <5> QED BY <2>3, <5>1
      <4>2. 1 \in 1..Len(queue) /\ \A i \in 1..Len(queue') : i + 1 \in 1..Len(queue) /\ queue'[i] = queue[i + 1]
        BY <2>3
      <4> QED BY <4>1, <4>2
    <3>2. (\E v \in Held' : p = Portion(hold'[v]))
            <=> p = Portion(queue[1]) \/ \E v \in Held : p = Portion(hold[v])
      BY <2>4
    <3>3. p \in Unanswered' <=> \/ \E i \in 1..Len(queue') : p = Portion(queue'[i])
                                \/ \E v \in Held' : p = Portion(hold'[v])
      BY DEF Unanswered, Held
    <3> QED BY <3>1, <3>2, <3>3, UnansweredFacts
  <2>6. Unanswered' = Unanswered
    BY <2>5 DEF Unanswered
  <2> QED BY <2>1, <2>2, <2>6 DEF Service!vars, net
<1>3. CASE WorkerSend(w)
  <2> DEFINE c == Receiver(hold[w].socket)
             p == Portion(hold[w])
  <2>1. /\ w \in Held /\ hold' = [hold EXCEPT ![w] = NULL] /\ UNCHANGED epollVars
        /\ hold[w] \in Task
    BY <1>1, <1>3, Items DEF WorkerSend, Held
  <2>2. /\ UNCHANGED <<sent, read, queue>> /\ Broken' = Broken /\ Gone' = Gone
    BY <2>1 DEF epollVars, net, kernel, Broken, Gone, Closed, Waiting, Open
  <2>3. p \in Unanswered /\ p.from = hold[w].from /\ p.first = hold[w].first /\ p.last = hold[w].last
    BY <2>1, UnansweredFacts DEF Portion
  <2>4. Unanswered' = Unanswered \ {p}
    <3>1. Held' = Held \ {w} /\ \A v \in Held' : hold'[v] = hold[v]
      BY <1>1, <2>1 DEF Held, EchoTypeOK
    <3>2. \A t \in Task : Apart(t, hold[w]) \/ Apart(hold[w], t) => Portion(t) # p
      <4> SUFFICES ASSUME NEW t \in Task, Apart(t, hold[w]) \/ Apart(hold[w], t), Portion(t) = p
                   PROVE  FALSE
        OBVIOUS
      <4>1. t.from = p.from /\ t.first = p.first /\ t.last = p.last
        BY DEF Portion
      <4>2. hold[w].first <= hold[w].last
        BY <2>1 DEF EchoInv, AllRead
      <4> QED BY <2>1, <2>3, <4>1, <4>2, ItemFields DEF Apart
    <3>3. \A i \in 1..Len(queue) : Portion(queue[i]) # p
      BY <1>1, <2>1, <3>2, Items DEF EchoInv, HeldApart
    <3>4. \A v \in Held : v # w => Portion(hold[v]) # p
      BY <1>1, <2>1, <3>2, Items DEF EchoInv, HeldApart
    <3>5. ASSUME NEW q PROVE q \in Unanswered' <=> q \in Unanswered /\ q # p
      <4>1. q \in Unanswered' <=> \/ \E i \in 1..Len(queue) : q = Portion(queue[i])
                                  \/ \E v \in Held' : q = Portion(hold'[v])
        BY <2>2 DEF Unanswered, Held
      <4> QED BY <2>1, <3>1, <3>3, <3>4, <4>1, UnansweredFacts
    <3> QED BY <3>5 DEF Unanswered
  <2>5. fdtab[hold[w].socket] = p.from \/ p.from \in Gone
    BY <2>1, <2>3 DEF EchoInv, Addressed
  <2>6. CASE c # NULL /\ replies' = [replies EXCEPT ![c] = Append(@, p)] /\ UNCHANGED refused
    <3>1. fdtab[hold[w].socket] = c /\ peer[c] # "rst" /\ c \in Conns
      BY <1>1, <2>1, <2>6, ItemFields DEF Receiver, EpollTypeOK
    <3>2. c \notin Gone \cup Broken
      BY <2>1, <3>1, ItemFields DEF Gone, Broken, Closed, Open
    <3> HIDE DEF c, p
    <3>3. Service!Echo(p, c)
      BY <2>2, <2>4, <2>5, <2>6, <3>1, <3>2 DEF Service!Echo
    <3> QED BY <2>3, <3>1, <3>3 DEF Service!Next
  <2>7. CASE c = NULL /\ UNCHANGED <<replies, refused>>
    <3>1. p.from \in Gone \cup Broken
      <4>1. fdtab[hold[w].socket] = NULL \/ peer[fdtab[hold[w].socket]] = "rst"
        BY <1>1, <2>7, ConnsAssumption DEF Receiver
      <4>2. p.from \in Conns /\ p.from # NULL
        BY <2>1, <2>3, ItemFields, ConnsAssumption
      <4> QED BY <2>5, <4>1, <4>2 DEF Broken
    <3> HIDE DEF c, p
    <3>2. Service!Drop(p)
      BY <2>2, <2>4, <2>7, <3>1 DEF Service!Drop
    <3> QED BY <2>3, <3>2 DEF Service!Next
  <2>8. CASE refused' = refused \cup Span(hold[w]) /\ UNCHANGED replies
    <3>1. Span(hold[w]) = Service!Requests(p)
      BY <2>3 DEF Span, Service!Requests
    <3> HIDE DEF c, p
    <3>2. Service!Refuse(p)
      BY <2>2, <2>4, <2>8, <3>1 DEF Service!Refuse
    <3> QED BY <2>3, <3>2 DEF Service!Next
  <2> QED
    BY <1>3, <2>6, <2>7, <2>8 DEF WorkerSend, Portion
<1> QED
  BY <1>2, <1>3 DEF WorkerStep

\* The echo server implements EchoService, for any number of clients, descriptors and
\* workers: every portion read is answered, refused or dropped once, and to no other client
\* as long as its own stays.
THEOREM EchoImplements == EchoSpec => EchoRefinement
<1>1. EchoInv /\ [EchoNext]_echoVars => [Service!Next]_(Service!vars)
  <2> SUFFICES ASSUME EchoInv, [EchoNext]_echoVars PROVE [Service!Next]_(Service!vars)
    OBVIOUS
  <2>1. CASE EpollNext /\ UNCHANGED <<hold, replies, refused>>
    BY <2>1, EpollRefines
  <2>2. CASE \E w \in Workers : WorkerStep(w)
    BY <2>2, WorkersRefine
  <2>3. CASE UNCHANGED echoVars
    BY <2>3 DEF echoVars, epollVars, net, kernel, Service!vars, Unanswered, Broken, Gone,
       Closed, Waiting, Open
  <2> QED BY <2>1, <2>2, <2>3 DEF EchoNext
<1> QED
  BY <1>1, EchoRefinementInit, EchoInvariance, PTL DEF EchoSpec, EchoRefinement, Service!Spec

===============================================================================
