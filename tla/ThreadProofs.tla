------------------------------ MODULE ThreadProofs ------------------------------
(***************************************************************************)
(* What ThreadServer guarantees for any number of clients, descriptors and *)
(* threads, and any size of the buffers: which clients go without a thread *)
(* of their own because clientFD is one variable for all, and whose bytes  *)
(* a client can be sent because a thread's buffer is not cleared.          *)
(***************************************************************************)
EXTENDS ThreadServer, SequenceFacts

-------------------------------------------------------------------------------
(* The inductive invariant *)

Cell == (Conns \X Nat) \cup {NUL}

\* The clients that have connected and gone: none comes back.
Gone == {c \in Conns : peer[c] \in {"fin", "rst", "pipe"}}

Started == {t \in Threads : tpc[t] = "start"}

TypeOK ==
  /\ peer \in [Conns -> {"absent", "up", "fin", "rst", "pipe"}]
  /\ sent \in [Conns -> Nat] /\ read \in [Conns -> Nat]
  /\ backlog \in Seq(Conns) /\ fdtab \in [Fds -> Conns \cup {NULL}]
  /\ mpc \in {"accept", "create"} /\ clientFD \in Fds \cup {NULL}
  /\ tpc \in [Threads -> {"none", "start", "check", "recv", "send", "end"}]
  /\ tfd \in [Threads -> Fds \cup {NULL}]
  /\ buf \in [Threads -> [1..BufSize -> Cell]]
  /\ freed \subseteq [1..BufSize -> Cell]
  /\ replies \in [Conns -> SUBSET Cell]

\* A client that waits for accept has connected, waits once, and has no number yet.
WaitingOK ==
  /\ \A i \in 1..Len(backlog) : peer[backlog[i]] # "absent" /\ backlog[i] \notin Accepted
  /\ \A i, j \in 1..Len(backlog) : backlog[i] = backlog[j] => i = j
  /\ \A c \in Accepted : peer[c] # "absent"

\* A thread that talks to a client has read that client's number from clientFD.
ServedOK ==
  /\ served \subseteq Accepted
  /\ clientFD # NULL => fdtab[clientFD] # NULL
  /\ \A t \in Threads : Running(t) => tfd[t] # NULL /\ Client(t) \in served

\* As long as no client was missed, the number in clientFD is for one thread at most, and
\* until that thread has read it no other has; clientFD holds no number only before the
\* first client, or for good once accept has failed.
OneReader ==
  /\ clientFD = NULL => Full \/ (mpc = "accept" /\ Started = {})
  /\ missed = {} /\ clientFD # NULL =>
       /\ mpc = "create" \/ Started # {} => fdtab[clientFD] \notin served
       /\ mpc = "create" => Started = {}
       /\ \A t, u \in Started : t = u

\* What a buffer holds is NUL, or from the client its thread talks to, or from one that
\* has gone.
BuffersOK ==
  /\ \A t \in Threads : \A i \in 1..BufSize :
       \/ buf[t][i] = NUL \/ buf[t][i][1] \in Gone
       \/ Running(t) /\ buf[t][i][1] = Client(t)
  /\ \A b \in freed : \A i \in 1..BufSize : b[i] = NUL \/ b[i][1] \in Gone

RepliesOK == \A c \in Conns : \A cell \in replies[c] : cell[1] = c \/ cell[1] \in Gone

ThreadInv ==
  /\ TypeOK /\ WaitingOK /\ ServedOK /\ OneReader /\ BuffersOK /\ RepliesOK
  /\ ClientServedUnlessRaced /\ OneThreadPerClient

-------------------------------------------------------------------------------
(* What steps leave alone *)

\* Clients keep waiting, and keep their numbers, while neither list changes and none of
\* them becomes new again.
LEMMA WaitingFrame ==
  ASSUME WaitingOK, TypeOK, UNCHANGED <<backlog, fdtab>>,
         \A c \in Conns : peer[c] # "absent" => peer'[c] # "absent"
  PROVE  WaitingOK'
<1>1. Accepted' = Accepted /\ Accepted \subseteq Conns
  BY DEF Accepted, TypeOK
<1>2. \A i \in 1..Len(backlog) : backlog[i] \in Conns
  BY SeqNonEmpty DEF TypeOK
<1> QED
  BY <1>1, <1>2 DEF WaitingOK

\* What concerns the numbers and who has read them does not depend on the clients, nor on
\* a thread that goes on with its own client or ends.
LEMMA NumbersFrame ==
  ASSUME ServedOK, OneReader, ClientServedUnlessRaced, OneThreadPerClient,
         UNCHANGED <<fdtab, main, history>>, Started' = Started,
         \A u \in Threads : tpc'[u] \in {"check", "recv", "send"} => Running(u) /\ tfd'[u] = tfd[u]
  PROVE  ServedOK' /\ OneReader' /\ ClientServedUnlessRaced' /\ OneThreadPerClient'
<1>1. Accepted' = Accepted /\ Full' = Full
  BY DEF Accepted, Full
<1>2. ServedOK'
  BY <1>1 DEF ServedOK, Running, Client, main, history
<1>3. OneReader'
  BY <1>1 DEF OneReader, main, history
<1>4. ClientServedUnlessRaced'
  BY <1>1 DEF ClientServedUnlessRaced, Started, main, history
<1>5. OneThreadPerClient'
  BY DEF OneThreadPerClient, Running, history
<1> QED
  BY <1>2, <1>3, <1>4, <1>5

\* The buffers and what was sent only tell on clients, of whom none comes back.
LEMMA BuffersFrame ==
  ASSUME BuffersOK, RepliesOK, UNCHANGED <<buf, freed, tpc, tfd, fdtab, replies>>, Gone \subseteq Gone'
  PROVE  BuffersOK' /\ RepliesOK'
BY DEF BuffersOK, RepliesOK, Running, Client

-------------------------------------------------------------------------------
(* Each step keeps the invariant *)

\* A client connects, sends or leaves.
LEMMA ClientInv ==
  ASSUME ThreadInv, NEW c \in Conns, ClientStep(c)
  PROVE  ThreadInv'
<1>1. /\ UNCHANGED <<read, fdtab, main, thread, freed, replies, killed, history>>
      /\ UNCHANGED <<tpc, tfd, buf>>
  BY DEF ClientStep, Connect, Send, Hangup, thread
<1>2. TypeOK
  BY DEF ThreadInv
<1>3. TypeOK'
  <2>1. CASE Connect(c)
    BY <1>1, <1>2, <2>1 DEF Connect, TypeOK, main
  <2>2. CASE Send(c)
    BY <1>1, <1>2, <2>2 DEF Send, TypeOK, main
  <2>3. CASE Hangup(c)
    BY <1>1, <1>2, <2>3 DEF Hangup, TypeOK, main
  <2> QED BY <2>1, <2>2, <2>3 DEF ClientStep
<1>4. /\ Gone \subseteq Gone'
      /\ \A d \in Conns : peer[d] # "absent" => peer'[d] # "absent"
  BY <1>2 DEF ClientStep, Connect, Send, Hangup, Gone, TypeOK
<1>5. WaitingOK'
  <2>1. CASE Connect(c)
    <3>1. /\ peer[c] = "absent" /\ backlog' = Append(backlog, c) /\ peer'[c] = "up"
          /\ backlog \in Seq(Conns)
      BY <1>2, <2>1 DEF Connect, TypeOK
    <3>2. c \notin Accepted /\ Accepted' = Accepted /\ \A i \in 1..Len(backlog) : backlog[i] # c
      BY <1>1, <3>1 DEF ThreadInv, WaitingOK, Accepted
    <3>3. /\ Len(backlog') = Len(backlog) + 1 /\ backlog'[Len(backlog) + 1] = c
          /\ \A i \in 1..Len(backlog) : backlog'[i] = backlog[i] /\ backlog[i] \in Conns
          /\ Len(backlog) \in Nat
      BY <3>1, AppendIndex, SeqNonEmpty
    <3>4. \A i \in 1..Len(backlog') :
            \/ i \in 1..Len(backlog) /\ backlog'[i] = backlog[i]
            \/ i = Len(backlog) + 1 /\ backlog'[i] = c
      BY <3>3
    <3>5. \A d \in Accepted : d \in Conns
      BY <1>2 DEF Accepted, TypeOK
    <3>6. \A i \in 1..Len(backlog') : peer'[backlog'[i]] # "absent" /\ backlog'[i] \notin Accepted'
      BY <1>4, <3>1, <3>2, <3>3, <3>4 DEF ThreadInv, WaitingOK
    <3>7. \A i, j \in 1..Len(backlog') : backlog'[i] = backlog'[j] => i = j
      BY <3>2, <3>4 DEF ThreadInv, WaitingOK
    <3> QED BY <1>4, <3>2, <3>5, <3>6, <3>7 DEF ThreadInv, WaitingOK
  <2>2. CASE Send(c) \/ Hangup(c)
    BY <1>1, <1>2, <1>4, <2>2, WaitingFrame DEF ThreadInv, Send, Hangup
  <2> QED BY <2>1, <2>2 DEF ClientStep
<1>6. ServedOK' /\ OneReader' /\ ClientServedUnlessRaced' /\ OneThreadPerClient'
  BY <1>1, NumbersFrame DEF ThreadInv, Started, Running
<1>7. BuffersOK' /\ RepliesOK'
  BY <1>1, <1>4, BuffersFrame DEF ThreadInv
<1> QED
  BY <1>3, <1>5, <1>6, <1>7 DEF ThreadInv

\* The main thread accepts a client, or fails to: if the number in clientFD has not been
\* read, its client is missed.
LEMMA AcceptInv ==
  ASSUME ThreadInv, Accept
  PROVE  ThreadInv'
<1>1. TypeOK /\ backlog \in Seq(Conns) /\ backlog # <<>>
  BY DEF ThreadInv, TypeOK, Accept
<1>2. PICK f \in Fds : /\ Lowest(f) /\ fdtab' = [fdtab EXCEPT ![f] = Head(backlog)]
                       /\ clientFD' = f
  BY DEF Accept
<1> DEFINE c == Head(backlog)
<1>3. /\ c = backlog[1] /\ c \in Conns /\ 1 \in 1..Len(backlog)
      /\ backlog' \in Seq(Conns)
      /\ \A i \in 1..Len(backlog') : /\ i + 1 \in 1..Len(backlog) /\ backlog'[i] = backlog[i + 1]
                                     /\ 1 # i + 1 /\ i \in Int
  <2>1. /\ Tail(backlog) \in Seq(Conns) /\ Len(backlog) \in Nat \ {0}
        /\ Len(Tail(backlog)) = Len(backlog) - 1
        /\ \A i \in 1..(Len(backlog) - 1) : Tail(backlog)[i] = backlog[i + 1]
    BY <1>1, TailIndex
  <2>2. backlog' = Tail(backlog)
    BY DEF Accept
  <2> QED BY <1>1, <2>1, <2>2, HeadIndex
<1> HIDE DEF c
<1>4. /\ fdtab' = [fdtab EXCEPT ![f] = c] /\ fdtab[f] = NULL /\ ~Full
      /\ mpc = "accept" /\ mpc' = "create" /\ missed' = missed \cup Overwritten
      /\ UNCHANGED <<peer, sent, read, tpc, tfd, buf, freed, replies, killed, served, uncreated>>
  BY <1>2 DEF Accept, c, Lowest, Full, net, thread
<1>5. TypeOK'
  BY <1>1, <1>2, <1>3, <1>4 DEF TypeOK
<1>6. /\ Accepted' = Accepted \cup {c} /\ c \notin Accepted /\ c # NULL
      /\ fdtab \in [Fds -> Conns \cup {NULL}]
      /\ \A g \in Fds : fdtab[g] # NULL => g # f /\ fdtab'[g] = fdtab[g]
  <2>1. c # NULL /\ fdtab \in [Fds -> Conns \cup {NULL}] /\ c \notin Accepted
    BY <1>1, <1>3, ServerAssumption DEF TypeOK, ThreadInv, WaitingOK
  <2>2. \A g \in Fds : fdtab'[g] = IF g = f THEN c ELSE fdtab[g]
    BY <1>4, <2>1
  <2>3. Accepted' = Accepted \cup {c}
    BY <1>2, <1>4, <2>1, <2>2 DEF Accepted
  <2> QED BY <1>4, <2>1, <2>2, <2>3
<1>7. WaitingOK'
  BY <1>3, <1>4, <1>6 DEF ThreadInv, WaitingOK
<1>8. \A t \in Threads : Running(t) =>
        /\ tfd[t] \in Fds /\ fdtab[tfd[t]] # NULL
        /\ tfd'[t] = tfd[t] /\ tfd'[t] # f /\ fdtab'[tfd'[t]] = fdtab[tfd[t]]
  <2>1. served \subseteq Accepted /\ NULL \notin Accepted /\ \A t \in Threads : tfd[t] \in Fds \cup {NULL}
    BY <1>1 DEF ThreadInv, ServedOK, Accepted, TypeOK
  <2> QED BY <1>4, <1>6, <2>1 DEF ThreadInv, ServedOK, Client
<1>9. \A t \in Threads : Running(t)' = Running(t)
  BY <1>4 DEF Running
<1>10. ServedOK'
  <2>1. served' \subseteq Accepted' /\ clientFD' # NULL /\ fdtab'[clientFD'] # NULL
    BY <1>1, <1>2, <1>4, <1>6, ServerAssumption DEF ThreadInv, ServedOK
  <2>2. \A t \in Threads : Running(t)' => tfd'[t] # NULL /\ Client(t)' \in served'
    BY <1>4, <1>8, <1>9 DEF ThreadInv, ServedOK, Client
  <2> QED BY <2>1, <2>2 DEF ServedOK
<1>11. Started' = Started /\ \A t \in Started : t \in Threads
  BY <1>4 DEF Started
<1>12. missed' = {} => Started = {}
  <2> SUFFICES ASSUME missed' = {}, NEW t \in Started PROVE FALSE
    OBVIOUS
  <2>1. missed = {} /\ Overwritten = {} /\ tpc[t] = "start" /\ t \in Threads
    BY <1>4 DEF Started
  <2>2. clientFD # NULL
    BY <1>4 DEF ThreadInv, OneReader
  <2>3. fdtab[clientFD] \notin served
    BY <2>1, <2>2 DEF ThreadInv, OneReader
  <2> QED BY <2>1, <2>2, <2>3 DEF Overwritten
<1>13. OneReader'
  <2>1. fdtab'[clientFD'] \notin served' /\ clientFD' # NULL
    BY <1>2, <1>4, <1>6, ServerAssumption DEF ThreadInv, ServedOK
  <2> QED BY <1>11, <1>12, <2>1 DEF OneReader
<1>14. ClientServedUnlessRaced'
  <2> SUFFICES ASSUME NEW d \in Accepted', d \notin served' \cup missed' \cup uncreated'
               PROVE  clientFD' # NULL /\ fdtab'[clientFD'] = d /\ mpc' = "create"
    BY DEF ClientServedUnlessRaced
  <2>1. CASE d = c
    BY <1>1, <1>2, <1>4, <2>1, ServerAssumption DEF TypeOK
  <2>2. CASE d \in Accepted
    <3>1. clientFD # NULL /\ fdtab[clientFD] = d /\ \E t \in Threads : tpc[t] = "start"
      BY <1>4, <2>2 DEF ThreadInv, ClientServedUnlessRaced
    <3>2. d \in Overwritten
      BY <1>4, <3>1 DEF Overwritten
    <3> QED BY <1>4, <3>2
  <2> QED BY <1>6, <2>1, <2>2
<1>15. OneThreadPerClient'
  BY <1>4 DEF ThreadInv, OneThreadPerClient, Running
<1>16. Gone' = Gone
  BY <1>4 DEF Gone
<1>17. RepliesOK'
  BY <1>4, <1>16 DEF ThreadInv, RepliesOK
<1>18. BuffersOK'
  BY <1>4, <1>8, <1>9, <1>16 DEF ThreadInv, BuffersOK, Client
<1> QED
  BY <1>5, <1>7, <1>10, <1>13, <1>14, <1>15, <1>17, <1>18 DEF ThreadInv

\* accept fails, because there is no number left, and none will ever be again.
LEMMA AcceptFailsInv ==
  ASSUME ThreadInv, AcceptFails
  PROVE  ThreadInv'
<1>1. /\ mpc = "accept" /\ mpc' = "create" /\ clientFD' = NULL /\ Full
      /\ missed' = missed \cup Overwritten
      /\ UNCHANGED <<peer, sent, read, backlog, fdtab, tpc, tfd, buf, freed, replies, killed,
                     served, uncreated>>
  BY DEF AcceptFails, net, thread
<1>2. TypeOK' /\ TypeOK
  BY <1>1 DEF ThreadInv, TypeOK
<1>3. WaitingOK'
  BY <1>1, <1>2, WaitingFrame DEF ThreadInv
<1>4. Accepted' = Accepted /\ Full' = Full /\ Gone' = Gone
  BY <1>1 DEF Accepted, Full, Gone
<1>5. ServedOK'
  BY <1>1, <1>4 DEF ThreadInv, ServedOK, Running, Client
<1>6. OneReader'
  BY <1>1, <1>4 DEF OneReader
<1>7. ClientServedUnlessRaced'
  <2> SUFFICES ASSUME NEW d \in Accepted PROVE d \in served' \cup missed' \cup uncreated'
    BY <1>4 DEF ClientServedUnlessRaced
  <2>1. CASE d \in served \cup missed \cup uncreated
    BY <1>1, <2>1
  <2>2. CASE d \notin served \cup missed \cup uncreated
    <3>1. clientFD # NULL /\ fdtab[clientFD] = d /\ \E t \in Threads : tpc[t] = "start"
      BY <1>1, <2>2 DEF ThreadInv, ClientServedUnlessRaced
    <3>2. d \in Overwritten
      BY <2>2, <3>1 DEF Overwritten
    <3> QED BY <1>1, <3>2
  <2> QED BY <2>1, <2>2
<1>8. OneThreadPerClient'
  BY <1>1 DEF ThreadInv, OneThreadPerClient, Running
<1>9. BuffersOK' /\ RepliesOK'
  BY <1>1, <1>4, BuffersFrame DEF ThreadInv
<1> QED
  BY <1>2, <1>3, <1>5, <1>6, <1>7, <1>8, <1>9 DEF ThreadInv

\* A thread is started for the number in clientFD, or cannot be.
LEMMA CreateInv ==
  ASSUME ThreadInv, Create
  PROVE  ThreadInv'
<1>1. /\ mpc = "create" /\ mpc' = "accept"
      /\ UNCHANGED <<peer, sent, read, backlog, fdtab, clientFD, tfd, buf, freed, replies, killed,
                     served, missed>>
  BY DEF Create, net
<1>2. TypeOK
  BY DEF ThreadInv
<1>3. \/ \E t \in Idle : tpc' = [tpc EXCEPT ![t] = "start"] /\ uncreated' = uncreated
      \/ /\ tpc' = tpc
         /\ uncreated' = uncreated \cup (IF clientFD = NULL THEN {} ELSE {fdtab[clientFD]})
  BY DEF Create
<1>4. Accepted' = Accepted /\ Full' = Full /\ Gone' = Gone
  BY <1>1 DEF Accepted, Full, Gone
<1>5. WaitingOK' /\ RepliesOK'
  BY <1>1, <1>2, <1>4, WaitingFrame DEF ThreadInv, RepliesOK
<1>6. /\ \A u \in Threads : tpc[u] = "start" => tpc'[u] = "start"
      /\ \A u \in Threads : Running(u)' <=> Running(u)
      /\ TypeOK'
  <2>1. CASE \E t \in Idle : tpc' = [tpc EXCEPT ![t] = "start"]
    BY <1>1, <1>2, <2>1 DEF TypeOK, Idle, Running
  <2>2. CASE tpc' = tpc
    BY <1>1, <1>2, <2>2 DEF TypeOK, Running
  <2> QED BY <1>3, <2>1, <2>2
<1>7. ServedOK' /\ OneThreadPerClient'
  BY <1>1, <1>4, <1>6 DEF ThreadInv, ServedOK, OneThreadPerClient, Client
<1>8. BuffersOK'
  BY <1>1, <1>4, <1>6 DEF ThreadInv, BuffersOK, Client
<1>9. OneReader'
  <2>1. clientFD = NULL => Full
    BY <1>1 DEF ThreadInv, OneReader
  <2>2. missed = {} /\ clientFD # NULL => fdtab[clientFD] \notin served /\ Started = {}
    BY <1>1 DEF ThreadInv, OneReader
  <2>3. missed = {} /\ clientFD # NULL => \A t, u \in Started' : t = u
    <3>1. CASE \E t \in Idle : tpc' = [tpc EXCEPT ![t] = "start"]
      BY <1>2, <2>2, <3>1 DEF Started, Idle, TypeOK
    <3>2. CASE tpc' = tpc
      BY <2>2, <3>2 DEF Started
    <3> QED BY <1>3, <3>1, <3>2
  <2> QED BY <1>1, <1>4, <2>1, <2>2, <2>3 DEF OneReader
<1>10. ClientServedUnlessRaced'
  <2> SUFFICES ASSUME NEW d \in Accepted, d \notin served \cup missed \cup uncreated'
               PROVE  clientFD # NULL /\ fdtab[clientFD] = d /\ \E t \in Threads : tpc'[t] = "start"
    BY <1>1, <1>4 DEF ClientServedUnlessRaced
  <2>1. uncreated \subseteq uncreated'
    BY <1>3
  <2>2. clientFD # NULL /\ fdtab[clientFD] = d
    BY <2>1 DEF ThreadInv, ClientServedUnlessRaced
  <2>3. \E t \in Threads : tpc'[t] = "start"
    BY <1>2, <1>3, <2>2 DEF Idle, TypeOK
  <2> QED BY <2>2, <2>3
<1> QED
  BY <1>5, <1>6, <1>7, <1>8, <1>9, <1>10 DEF ThreadInv

\* A thread reads clientFD and gets a buffer.
LEMMA StartInv ==
  ASSUME ThreadInv, NEW t \in Threads, Start(t)
  PROVE  ThreadInv'
<1>1. /\ tpc[t] = "start" /\ tfd' = [tfd EXCEPT ![t] = clientFD]
      /\ tpc' = [tpc EXCEPT ![t] = IF clientFD = NULL THEN "end" ELSE "check"]
      /\ served' = served \cup (IF clientFD = NULL THEN {} ELSE {fdtab[clientFD]})
      /\ UNCHANGED <<peer, sent, read, backlog, fdtab, mpc, clientFD, replies, killed, missed,
                     uncreated>>
  BY DEF Start, net, main
<1>2. TypeOK
  BY DEF ThreadInv
<1>3. PICK b : /\ buf' = [buf EXCEPT ![t] = b] /\ freed' \subseteq freed
               /\ b = Zeros \/ b \in freed
  BY DEF Start
<1>4. b \in [1..BufSize -> Cell] /\ \A i \in 1..BufSize : b[i] = NUL \/ b[i][1] \in Gone
  BY <1>2, <1>3 DEF Zeros, Cell, TypeOK, ThreadInv, BuffersOK
<1>5. TypeOK'
  BY <1>1, <1>2, <1>3, <1>4 DEF TypeOK
<1>6. Accepted' = Accepted /\ Full' = Full /\ Gone' = Gone
  BY <1>1 DEF Accepted, Full, Gone
<1>7. WaitingOK' /\ RepliesOK'
  BY <1>1, <1>2, <1>6, WaitingFrame DEF ThreadInv, RepliesOK
<1>8. \A u \in Threads : u # t => tpc'[u] = tpc[u] /\ tfd'[u] = tfd[u] /\ buf'[u] = buf[u]
                                  /\ (Running(u)' <=> Running(u)) /\ Client(u)' = Client(u)
  BY <1>1, <1>2, <1>3 DEF TypeOK, Running, Client
<1>9. /\ tfd'[t] = clientFD /\ buf'[t] = b
      /\ Running(t)' <=> clientFD # NULL
      /\ clientFD # NULL => Client(t)' = fdtab[clientFD]
  BY <1>1, <1>2, <1>3 DEF TypeOK, Running, Client
<1>10. BuffersOK'
  <2>1. \A i \in 1..BufSize : buf'[t][i] = NUL \/ buf'[t][i][1] \in Gone'
    BY <1>4, <1>6, <1>9
  <2> QED BY <1>3, <1>6, <1>8, <2>1 DEF ThreadInv, BuffersOK
<1>11. ServedOK'
  <2>1. clientFD # NULL => fdtab[clientFD] \in Accepted
    BY <1>2, ServerAssumption DEF ThreadInv, ServedOK, Accepted, TypeOK
  <2>2. served' \subseteq Accepted' /\ (clientFD' # NULL => fdtab'[clientFD'] # NULL)
    BY <1>1, <1>6, <2>1 DEF ThreadInv, ServedOK
  <2>3. \A u \in Threads : Running(u)' => tfd'[u] # NULL /\ Client(u)' \in served'
    BY <1>1, <1>8, <1>9 DEF ThreadInv, ServedOK
  <2> QED BY <2>2, <2>3 DEF ServedOK
<1>12. Started' = Started \ {t} /\ t \in Started
  BY <1>1, <1>2 DEF Started, TypeOK
<1>13. missed = {} /\ clientFD # NULL => mpc = "accept" /\ Started' = {}
  BY <1>2, <1>12 DEF ThreadInv, OneReader, TypeOK
<1>14. OneReader'
  BY <1>1, <1>6, <1>12, <1>13 DEF ThreadInv, OneReader
<1>15. ClientServedUnlessRaced'
  <2> SUFFICES ASSUME NEW d \in Accepted, d \notin served' \cup missed \cup uncreated
               PROVE  FALSE
    BY <1>1, <1>6 DEF ClientServedUnlessRaced
  <2> QED BY <1>1 DEF ThreadInv, ClientServedUnlessRaced
<1>16. OneThreadPerClient'
  <2>1. clientFD # NULL /\ missed = {} =>
          \A u \in Threads : u # t /\ Running(u)' => tfd'[u] # clientFD
    <3> SUFFICES ASSUME clientFD # NULL, missed = {}, NEW u \in Threads, u # t, Running(u)'
                 PROVE  tfd'[u] # clientFD
      OBVIOUS
    <3>1. fdtab[clientFD] \notin served
      BY <1>12 DEF ThreadInv, OneReader
    <3>2. fdtab[tfd[u]] \in served /\ tfd'[u] = tfd[u]
      BY <1>8 DEF ThreadInv, ServedOK, Client
    <3> QED BY <3>1, <3>2
  <2>2. \A u, v \in Threads : u # v /\ Running(u)' /\ Running(v)' /\ tfd'[u] = tfd'[v] => missed # {}
    BY <1>8, <1>9, <2>1 DEF ThreadInv, OneThreadPerClient
  <2> QED BY <1>1, <2>2 DEF OneThreadPerClient
<1> QED
  BY <1>5, <1>7, <1>10, <1>11, <1>14, <1>15, <1>16 DEF ThreadInv

\* A thread checks its client's connection, receives, and sends what its buffer holds.
LEMMA TalkInv ==
  ASSUME ThreadInv, NEW t \in Threads, Check(t) \/ Recv(t) \/ RecvNothing(t) \/ SendReply(t)
  PROVE  ThreadInv'
<1> DEFINE c == Client(t)
<1>1. PICK l : /\ tpc' = [tpc EXCEPT ![t] = l] /\ l \in {"check", "recv", "send", "end"}
               /\ l = "end" => peer[c] # "up"
  BY DEF Check, Recv, RecvNothing, SendReply
<1>2. /\ Running(t) /\ tfd' = tfd /\ freed' = freed
      /\ UNCHANGED <<backlog, fdtab, main, history>>
  BY DEF Check, Recv, RecvNothing, SendReply, Running, net
<1>3. TypeOK
  BY DEF ThreadInv
<1>4. c \in Conns /\ c \in Accepted /\ peer[c] # "absent" /\ Client(t)' = c
  <2>1. c \in Accepted
    BY <1>2 DEF ThreadInv, ServedOK
  <2> QED BY <1>2, <1>3, <2>1 DEF ThreadInv, WaitingOK, Accepted, TypeOK, Client
<1>5. \/ peer' = peer
      \/ peer' = [peer EXCEPT ![c] = "pipe"]
  BY DEF Check, Recv, RecvNothing, SendReply, net
<1> HIDE DEF c
<1>6. /\ Gone \subseteq Gone' /\ \A d \in Conns : peer[d] # "absent" => peer'[d] # "absent"
      /\ peer' \in [Conns -> {"absent", "up", "fin", "rst", "pipe"}]
  BY <1>3, <1>4, <1>5 DEF Gone, TypeOK
<1>7. WaitingOK'
  BY <1>2, <1>3, <1>6, WaitingFrame DEF ThreadInv
<1>8. \A u \in Threads : tpc'[u] = IF u = t THEN l ELSE tpc[u]
  BY <1>1, <1>3 DEF TypeOK
<1>9. ServedOK' /\ OneReader' /\ ClientServedUnlessRaced' /\ OneThreadPerClient'
  <2>1. Started' = Started
    BY <1>1, <1>2, <1>8 DEF Started, Running
  <2>2. \A u \in Threads : tpc'[u] \in {"check", "recv", "send"} => Running(u) /\ tfd'[u] = tfd[u]
    BY <1>2, <1>8 DEF Running
  <2> QED BY <1>2, <2>1, <2>2, NumbersFrame DEF ThreadInv
<1>10. /\ sent' \in [Conns -> Nat] /\ read' \in [Conns -> Nat]
       /\ buf' \in [Threads -> [1..BufSize -> Cell]]
       /\ \A u \in Threads : \A i \in 1..BufSize :
            \/ buf'[u][i] = buf[u][i]
            \/ u = t /\ buf'[u][i][1] = c
  <2>1. CASE buf' = buf /\ UNCHANGED <<sent, read>>
    BY <1>3, <2>1 DEF TypeOK
  <2>2. CASE Recv(t)
    <3> DEFINE new == [i \in 1..BufSize |->
                         IF i <= Pending(c) THEN <<c, read[c] + i>> ELSE buf[t][i]]
    <3>1. /\ read' = [read EXCEPT ![c] = sent[c]] /\ sent' = sent
          /\ buf' = [buf EXCEPT ![t] = new]
      BY <2>2 DEF Recv, net, c
    <3>2. /\ new \in [1..BufSize -> Cell]
          /\ \A i \in 1..BufSize : new[i] = buf[t][i] \/ new[i][1] = c
      <4>1. buf[t] \in [1..BufSize -> Cell] /\ read[c] \in Nat
        BY <1>3, <1>4 DEF TypeOK
      <4>2. \A i \in 1..BufSize : /\ <<c, read[c] + i>> \in Cell /\ <<c, read[c] + i>>[1] = c
                                  /\ buf[t][i] \in Cell
        BY <1>4, <4>1, ServerAssumption DEF Cell
      <4> QED BY <4>2
    <3> HIDE DEF new
    <3>3. \A u \in Threads : buf'[u] = IF u = t THEN new ELSE buf[u]
      BY <1>3, <3>1 DEF TypeOK
    <3>4. sent' \in [Conns -> Nat] /\ read' \in [Conns -> Nat]
      BY <1>3, <1>4, <3>1 DEF TypeOK
    <3>5. buf' \in [Threads -> [1..BufSize -> Cell]]
      BY <1>3, <3>1, <3>2 DEF TypeOK
    <3> QED BY <3>2, <3>3, <3>4, <3>5
  <2> QED BY <2>1, <2>2 DEF Check, RecvNothing, SendReply, net
<1>11. BuffersOK'
  <2> SUFFICES ASSUME NEW u \in Threads, NEW i \in 1..BufSize
               PROVE  \/ buf'[u][i] = NUL \/ buf'[u][i][1] \in Gone'
                      \/ Running(u)' /\ buf'[u][i][1] = Client(u)'
    BY <1>2, <1>6 DEF ThreadInv, BuffersOK
  <2>1. \/ buf[u][i] = NUL \/ buf[u][i][1] \in Gone
        \/ Running(u) /\ buf[u][i][1] = Client(u)
    BY DEF ThreadInv, BuffersOK
  <2>2. CASE u # t
    BY <1>2, <1>6, <1>8, <1>10, <2>1, <2>2 DEF Running, Client
  <2>3. CASE u = t /\ l # "end"
    BY <1>1, <1>4, <1>6, <1>8, <1>10, <2>1, <2>3 DEF Running, c
  <2>4. CASE u = t /\ l = "end"
    <3>1. c \in Gone
      BY <1>1, <1>3, <1>4, <2>4 DEF Gone, TypeOK
    <3> QED BY <1>6, <1>10, <2>1, <2>4, <3>1 DEF c
  <2> QED BY <2>2, <2>3, <2>4
<1>12. /\ replies' \in [Conns -> SUBSET Cell]
       /\ \A d \in Conns : \A cell \in replies'[d] :
            \/ cell \in replies[d]
            \/ d = c /\ \E i \in 1..BufSize : cell = buf[t][i] /\ cell # NUL
  <2>1. CASE replies' = replies
    BY <1>3, <2>1 DEF TypeOK
  <2>2. CASE replies' = [replies EXCEPT ![c] = @ \cup CString(buf[t])]
    <3>1. \A cell \in CString(buf[t]) : \E i \in 1..BufSize : cell = buf[t][i] /\ cell # NUL
      <4> SUFFICES ASSUME NEW j \in 1..BufSize, \A k \in 1..j : buf[t][k] # NUL
                   PROVE  buf[t][j] # NUL
        BY DEF CString
      <4>1. j \in 1..j
        BY ServerAssumption
      <4> QED BY <4>1
    <3>2. CString(buf[t]) \subseteq Cell
      <4>1. \A i \in 1..BufSize : buf[t][i] \in Cell
        BY <1>3 DEF TypeOK
      <4> QED BY <3>1, <4>1
    <3>3. \A d \in Conns : replies'[d] = IF d = c THEN replies[d] \cup CString(buf[t]) ELSE replies[d]
      BY <1>3, <2>2 DEF TypeOK
    <3>4. replies' \in [Conns -> SUBSET Cell]
      BY <1>3, <2>2, <3>2 DEF TypeOK
    <3> QED BY <3>1, <3>3, <3>4
  <2> QED BY <2>1, <2>2 DEF Check, Recv, RecvNothing, SendReply, c
<1>13. RepliesOK'
  <2>1. \A i \in 1..BufSize : buf[t][i] # NUL => buf[t][i][1] = c \/ buf[t][i][1] \in Gone
    BY DEF ThreadInv, BuffersOK, c
  <2> QED BY <1>6, <1>12, <2>1 DEF ThreadInv, RepliesOK
<1>14. tpc' \in [Threads -> {"none", "start", "check", "recv", "send", "end"}]
  BY <1>1, <1>3 DEF TypeOK
<1>15. TypeOK'
  BY <1>2, <1>3, <1>6, <1>10, <1>12, <1>14 DEF TypeOK, main
<1> QED
  BY <1>7, <1>9, <1>11, <1>13, <1>15 DEF ThreadInv

\* A thread ends: its buffer goes back with what it holds.
LEMMA EndInv ==
  ASSUME ThreadInv, NEW t \in Threads, End(t)
  PROVE  ThreadInv'
<1>1. /\ tpc[t] = "end" /\ tpc' = [tpc EXCEPT ![t] = "none"]
      /\ tfd' = [tfd EXCEPT ![t] = NULL] /\ buf' = [buf EXCEPT ![t] = Zeros]
      /\ freed' = freed \cup ({buf[t]} \ {Zeros})
      /\ UNCHANGED <<peer, sent, read, backlog, fdtab, main, replies, killed, history>>
  BY DEF End, net
<1>2. TypeOK
  BY DEF ThreadInv
<1>3. Zeros \in [1..BufSize -> Cell] /\ \A i \in 1..BufSize : Zeros[i] = NUL
  BY DEF Zeros, Cell
<1>4. TypeOK'
  BY <1>1, <1>2, <1>3 DEF TypeOK, main
<1>5. \A u \in Threads : /\ tpc'[u] = IF u = t THEN "none" ELSE tpc[u]
                         /\ tfd'[u] = IF u = t THEN NULL ELSE tfd[u]
                         /\ buf'[u] = IF u = t THEN Zeros ELSE buf[u]
  BY <1>1, <1>2 DEF TypeOK
<1>6. WaitingOK'
  BY <1>1, <1>2, WaitingFrame DEF ThreadInv
<1>7. ServedOK' /\ OneReader' /\ ClientServedUnlessRaced' /\ OneThreadPerClient'
  <2>1. Started' = Started
    BY <1>1, <1>5 DEF Started
  <2>2. \A u \in Threads : tpc'[u] \in {"check", "recv", "send"} => Running(u) /\ tfd'[u] = tfd[u]
    BY <1>5 DEF Running
  <2> QED BY <1>1, <2>1, <2>2, NumbersFrame DEF ThreadInv
<1>8. Gone' = Gone /\ RepliesOK'
  BY <1>1 DEF ThreadInv, RepliesOK, Gone
<1>9. \A i \in 1..BufSize : buf[t][i] = NUL \/ buf[t][i][1] \in Gone
  BY <1>1 DEF ThreadInv, BuffersOK, Running
<1>10. BuffersOK'
  BY <1>1, <1>3, <1>5, <1>8, <1>9 DEF ThreadInv, BuffersOK, Running, Client
<1> QED
  BY <1>4, <1>6, <1>7, <1>8, <1>10 DEF ThreadInv

-------------------------------------------------------------------------------
(* The theorems *)

\* The invariant holds of every behaviour of the thread-per-connection servers.
THEOREM ThreadInvariance == Spec => []ThreadInv
<1>1. Init => ThreadInv
  <2> SUFFICES ASSUME Init PROVE ThreadInv
    OBVIOUS
  <2>1. TypeOK
    <3>1. Zeros \in [1..BufSize -> Cell]
      BY DEF Zeros, Cell
    <3> QED BY <3>1 DEF Init, TypeOK
  <2>2. Accepted = {} /\ Len(backlog) = 0 /\ Started = {} /\ \A t \in Threads : ~Running(t)
    BY DEF Init, Accepted, Started, Running
  <2>3. WaitingOK /\ ServedOK /\ OneReader /\ RepliesOK
    BY <2>2 DEF Init, WaitingOK, ServedOK, OneReader, RepliesOK
  <2>4. BuffersOK
    BY DEF Init, BuffersOK, Zeros
  <2>5. ClientServedUnlessRaced /\ OneThreadPerClient
    BY <2>2 DEF ClientServedUnlessRaced, OneThreadPerClient
  <2> QED BY <2>1, <2>3, <2>4, <2>5 DEF ThreadInv
<1>2. ThreadInv /\ [Next]_vars => ThreadInv'
  <2> SUFFICES ASSUME ThreadInv, [Next]_vars PROVE ThreadInv'
    OBVIOUS
  <2>1. CASE MainStep
    BY <2>1, AcceptInv, AcceptFailsInv, CreateInv DEF MainStep
  <2>2. ASSUME NEW t \in Threads, ThreadStep(t) PROVE ThreadInv'
    BY <2>2, StartInv, TalkInv, EndInv DEF ThreadStep
  <2>3. ASSUME NEW c \in Conns, ClientStep(c) PROVE ThreadInv'
    BY <2>3, ClientInv
  <2>4. CASE UNCHANGED vars
    <3>1. /\ UNCHANGED <<peer, sent, read, backlog, fdtab, mpc, clientFD, tpc, tfd, buf, freed>>
          /\ UNCHANGED <<replies, main, history>>
      BY <2>4 DEF vars, net, thread, main
    <3>2. TypeOK' /\ Gone' = Gone /\ Started' = Started
      BY <3>1 DEF ThreadInv, TypeOK, Gone, Started
    <3>3. WaitingOK' /\ BuffersOK' /\ RepliesOK'
      BY <3>1, <3>2, WaitingFrame, BuffersFrame DEF ThreadInv
    <3>4. ServedOK' /\ OneReader' /\ ClientServedUnlessRaced' /\ OneThreadPerClient'
      BY <3>1, <3>2, NumbersFrame DEF ThreadInv, Running
    <3> QED BY <3>2, <3>3, <3>4 DEF ThreadInv
  <2> QED BY <2>1, <2>2, <2>3, <2>4 DEF Next
<1> QED
  BY <1>1, <1>2, PTL DEF Spec

\* Every accepted client has a thread of its own, or will get one, but for those that
\* arrive while a number is still unread or for which no thread can be started.
THEOREM OwnThread == Spec => []OwnThreadUnlessRaced
<1>1. ThreadInv => OwnThreadUnlessRaced
  BY DEF ThreadInv, OwnThreadUnlessRaced
<1> QED
  BY ThreadInvariance, <1>1, PTL

\* Bytes of another client reach a client only out of a freed buffer, when that other
\* client's connection is no longer up.
THEOREM StrangersGone == Spec => []StrangersOnlyFromFreedBuffers
<1>1. ThreadInv => StrangersOnlyFromFreedBuffers
  BY DEF ThreadInv, RepliesOK, Gone, StrangersOnlyFromFreedBuffers
<1> QED
  BY ThreadInvariance, <1>1, PTL

===============================================================================
