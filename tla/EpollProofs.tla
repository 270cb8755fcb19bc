------------------------------ MODULE EpollProofs ------------------------------
(***************************************************************************)
(* What EpollServer guarantees for any number of clients, descriptors,     *)
(* slots and events per wait, in both trigger modes: the five records of   *)
(* a connection agree, no event is stale, the tasks follow the clients'    *)
(* streams, and a closed connection stays closed.  EpollInv does not speak *)
(* of what is in the task list, so that it also holds of the servers whose *)
(* workers take tasks out of it.                                           *)
(***************************************************************************)
EXTENDS EpollServer, SequenceFacts, FiniteSetTheorems

-------------------------------------------------------------------------------
(* The inductive invariant *)

OpenFds == {f \in Fds : fdtab[f] # NULL}
ListedFds == {f \in Fds : Listed(f)}

\* The epoll set and the count are those of the table, which holds no number twice.
SlotsOK ==
  /\ ListedFds = interest \ {Listen}
  /\ acceptCount = Cardinality(ListedFds)
  /\ \A i, j \in 1..Len(slots) : slots[i] = slots[j] /\ slots[i] # NULL => i = j

\* The table holds what is open, and misses one at most when the thread has gone.
OpenOK ==
  /\ \A f, g \in OpenFds : fdtab[f] = fdtab[g] => f = g
  /\ ListedFds \subseteq OpenFds
  /\ running => OpenFds = ListedFds
  /\ Cardinality(OpenFds \ ListedFds) <= 1

\* A connection waits once for accept, has connected, and has no descriptor yet; one
\* that has a descriptor has connected too.
BacklogOK ==
  /\ \A i, j \in 1..Len(backlog) : backlog[i] = backlog[j] => i = j
  /\ \A i \in 1..Len(backlog) : peer[backlog[i]] # "absent" /\ ~Open(backlog[i])
  /\ \A f \in OpenFds : peer[fdtab[f]] # "absent"

\* recv returns no more than was sent.
ReadSent == \A c \in Conns : read[c] <= sent[c]

EpollInv ==
  EpollTypeOK /\ SlotsOK /\ OpenOK /\ BatchFresh /\ BacklogOK /\ ReadSent

-------------------------------------------------------------------------------
(* The searches: each finds what it looks for *)

\* open and accept return a free number when there is one.
LEMMA LowestFreeFacts ==
  ASSUME FreeFds # {}
  PROVE  LowestFree \in Fds /\ fdtab[LowestFree] = NULL
<1>1. \E f \in FreeFds : \A g \in FreeFds : f <= g
  BY FdsAssumption, NatMinimum DEF FreeFds
<1>2. LowestFree \in FreeFds
  BY <1>1 DEF LowestFree
<1> QED
  BY <1>2 DEF FreeFds

\* The loops over gpSocketArray find a slot that holds what they look for.
LEMMA FirstSlotFacts ==
  ASSUME NEW S, slots \in Seq(S), NEW v, Listed(v)
  PROVE  FirstSlot(v) \in 1..Len(slots) /\ slots[FirstSlot(v)] = v
<1> DEFINE T == {i \in 1..Len(slots) : slots[i] = v}
<1>1. Len(slots) \in Nat
  BY SeqNonEmpty
<1>2. T \in SUBSET Nat /\ T # {}
  BY <1>1 DEF Listed
<1>3. PICK m \in T : \A n \in T : m <= n
  BY <1>2, NatMinimum
<1>4. m \in 1..Len(slots) /\ slots[m] = v /\ \A j \in 1..m - 1 : slots[j] # v
  BY <1>1, <1>3
<1> QED
  BY <1>4 DEF FirstSlot

\* in_add_socket adds one number to the table, once.
LEMMA AddSocketFacts ==
  ASSUME slots \in Seq(Fds \cup {NULL}), NEW f \in Fds, ~Listed(f), AddSocket(f),
         \A i, j \in 1..Len(slots) : slots[i] = slots[j] /\ slots[i] # NULL => i = j
  PROVE  /\ slots' \in Seq(Fds \cup {NULL})
         /\ \A i, j \in 1..Len(slots') : slots'[i] = slots'[j] /\ slots'[i] # NULL => i = j
         /\ \A g \in Fds : Listed(g)' <=> Listed(g) \/ g = f
<1> USE FdsAssumption, LimitsAssumption
<1>0. Len(slots) \in Nat /\ f # NULL
  BY SeqNonEmpty
<1>1. CASE Listed(NULL)
  <2> DEFINE n == FirstSlot(NULL)
  <2>1. n \in 1..Len(slots) /\ slots[n] = NULL /\ slots' = [slots EXCEPT ![n] = f]
    BY <1>1, FirstSlotFacts DEF AddSocket
  <2> HIDE DEF n
  <2>2. /\ slots' \in Seq(Fds \cup {NULL}) /\ Len(slots') = Len(slots) /\ slots'[n] = f
        /\ \A i \in 1..Len(slots) : i # n => slots'[i] = slots[i]
    BY <2>1
  <2>3. \A i \in 1..Len(slots) : slots[i] # f
    BY DEF Listed
  <2>4. \A g \in Fds : Listed(g)' <=> Listed(g) \/ g = f
    BY <2>1, <2>2 DEF Listed
  <2> QED BY <1>0, <2>1, <2>2, <2>3, <2>4
<1>2. CASE ~Listed(NULL)
  <2> DEFINE more == [i \in 1..SlotChunk |-> IF i = 1 THEN f ELSE NULL]
  <2>1. more \in Seq(Fds \cup {NULL}) /\ Len(more) = SlotChunk /\ more[1] = f
        /\ \A i \in 1..SlotChunk : i # 1 => more[i] = NULL
    OBVIOUS
  <2>2. slots' = slots \o more
    BY <1>2 DEF AddSocket
  <2> HIDE DEF more
  <2>3. /\ slots' \in Seq(Fds \cup {NULL}) /\ Len(slots') = Len(slots) + SlotChunk
        /\ \A i \in 1..Len(slots) + SlotChunk :
             slots'[i] = IF i <= Len(slots) THEN slots[i] ELSE more[i - Len(slots)]
    BY <2>1, <2>2, ConcatProperties, ZenonT(60)
  <2>4. \A i \in 1..Len(slots') :
          \/ i \in 1..Len(slots) /\ slots'[i] = slots[i]
          \/ i = Len(slots) + 1 /\ slots'[i] = f
          \/ slots'[i] = NULL
    <3> SUFFICES ASSUME NEW i \in 1..Len(slots')
                 PROVE  \/ i \in 1..Len(slots) /\ slots'[i] = slots[i]
                        \/ i = Len(slots) + 1 /\ slots'[i] = f
                        \/ slots'[i] = NULL
      OBVIOUS
    <3>1. CASE i <= Len(slots)
      BY <1>0, <2>3, <3>1
    <3>2. CASE i = Len(slots) + 1
      BY <1>0, <2>1, <2>3, <3>2
    <3>3. CASE i > Len(slots) + 1
      <4>1. i - Len(slots) \in 1..SlotChunk /\ i - Len(slots) # 1 /\ ~(i <= Len(slots))
        BY <1>0, <2>3, <3>3
      <4> QED BY <2>1, <2>3, <4>1
    <3> QED BY <1>0, <2>3, <3>1, <3>2, <3>3
  <2>5. \A i \in 1..Len(slots) : slots[i] # f /\ i \in 1..Len(slots') /\ slots'[i] = slots[i]
    BY <1>0, <2>3 DEF Listed
  <2>6. \A i, j \in 1..Len(slots') : slots'[i] = slots'[j] /\ slots'[i] # NULL => i = j
    BY <1>0, <2>3, <2>4, <2>5
  <2>7. \A g \in Fds : Listed(g)' <=> Listed(g) \/ g = f
    <3>1. Len(slots) + 1 \in 1..Len(slots') /\ slots'[Len(slots) + 1] = f
      BY <1>0, <2>1, <2>3
    <3> QED BY <2>4, <2>5, <3>1 DEF Listed
  <2> QED BY <2>3, <2>6, <2>7
<1> QED
  BY <1>1, <1>2

\* in_close_socket takes one number out of the table, the epoll set and the descriptor
\* table.
LEMMA CloseSocketFacts ==
  ASSUME slots \in Seq(Fds \cup {NULL}), NEW f \in Fds, Listed(f), CloseSocket(f),
         \A i, j \in 1..Len(slots) : slots[i] = slots[j] /\ slots[i] # NULL => i = j
  PROVE  /\ slots' \in Seq(Fds \cup {NULL})
         /\ \A i, j \in 1..Len(slots') : slots'[i] = slots'[j] /\ slots'[i] # NULL => i = j
         /\ \A g \in Fds : Listed(g)' <=> Listed(g) /\ g # f
         /\ interest' = interest \ {f} /\ edges' = edges \ {f}
         /\ fdtab' = [fdtab EXCEPT ![f] = NULL] /\ acceptCount' = acceptCount - 1
<1> USE FdsAssumption
<1> DEFINE n == FirstSlot(f)
<1>1. /\ n \in 1..Len(slots) /\ slots[n] = f /\ slots' = [slots EXCEPT ![n] = NULL]
      /\ interest' = interest \ {f} /\ edges' = edges \ {f}
      /\ fdtab' = [fdtab EXCEPT ![f] = NULL] /\ acceptCount' = acceptCount - 1
  BY FirstSlotFacts DEF CloseSocket
<1> HIDE DEF n
<1>2. /\ slots' \in Seq(Fds \cup {NULL}) /\ Len(slots') = Len(slots) /\ slots'[n] = NULL
      /\ \A i \in 1..Len(slots) : i # n => slots'[i] = slots[i]
  BY <1>1
<1>3. \A i, j \in 1..Len(slots') : slots'[i] = slots'[j] /\ slots'[i] # NULL => i = j
  BY <1>1, <1>2
<1>4. \A g \in Fds : Listed(g)' <=> Listed(g) /\ g # f
  BY <1>1, <1>2 DEF Listed
<1> QED
  BY <1>1, <1>2, <1>3, <1>4

-------------------------------------------------------------------------------
(* What a step leaves alone *)

\* The table's facts speak of the table, the epoll set and the descriptors alone.
LEMMA TableFrame ==
  ASSUME SlotsOK, OpenOK, UNCHANGED <<slots, acceptCount, interest, fdtab, running>>
  PROVE  SlotsOK' /\ OpenOK'
BY DEF SlotsOK, OpenOK, ListedFds, OpenFds, Listed

\* The events of the batch stay fresh while the table and the descriptors do not change.
LEMMA FreshFrame ==
  ASSUME BatchFresh, UNCHANGED <<batch, reported, fdtab, slots>>
  PROVE  BatchFresh'
BY DEF BatchFresh, Listed

\* Handling the event of x leaves the other events, which stay fresh if the handler
\* touches no descriptor but x and those that were not in the table.
LEMMA TakeFresh ==
  ASSUME EpollTypeOK, BatchFresh, NEW x, Take(x),
         \A f \in Fds : f # x /\ Listed(f) => fdtab'[f] = fdtab[f] /\ Listed(f)'
  PROVE  /\ BatchFresh' /\ batch' = batch \ {x}
         /\ batch' \subseteq Fds \cup {Listen} /\ hups' \subseteq batch' \ {Listen}
         /\ reported' \in [Fds -> Conns \cup {NULL}]
<1>1. /\ batch' = batch \ {x} /\ hups' = hups \ {x}
      /\ reported' = [f \in Fds |-> IF f = x THEN NULL ELSE reported[f]]
  BY DEF Take
<1>2. /\ batch' \subseteq Fds \cup {Listen} /\ hups' \subseteq batch' \ {Listen}
      /\ reported' \in [Fds -> Conns \cup {NULL}]
  BY <1>1 DEF EpollTypeOK
<1>3. BatchFresh'
  BY <1>1 DEF BatchFresh, EpollTypeOK
<1> QED
  BY <1>1, <1>2, <1>3

\* A connection has a descriptor, an accept queue entry, or neither; what it means for
\* the numbers.
LEMMA OpenFacts ==
  ASSUME EpollTypeOK
  PROVE  /\ \A f \in OpenFds : fdtab[f] \in Conns /\ f \in Fds
         /\ \A c \in Conns : Open(c) <=> \E f \in OpenFds : fdtab[f] = c
         /\ IsFiniteSet(OpenFds) /\ IsFiniteSet(ListedFds)
<1>1. /\ \A f \in OpenFds : fdtab[f] \in Conns /\ f \in Fds
      /\ \A c \in Conns : Open(c) <=> \E f \in OpenFds : fdtab[f] = c
  BY ConnsAssumption DEF EpollTypeOK, OpenFds, Open
<1>2. IsFiniteSet(OpenFds) /\ IsFiniteSet(ListedFds)
  BY FdsAssumption, FS_Subset DEF OpenFds, ListedFds
<1> QED
  BY <1>1, <1>2

-------------------------------------------------------------------------------
(* The invariant holds initially and is kept by every step *)

\* At the start the table is empty and only the listening socket is registered.
LEMMA EpollInitInv == EpollInit => EpollInv
<1> SUFFICES ASSUME EpollInit PROVE EpollInv
  OBVIOUS
<1> USE FdsAssumption, LimitsAssumption, ConnsAssumption DEF EpollInit
<1>1. /\ slots \in Seq(Fds \cup {NULL}) /\ Len(slots) = SlotChunk
      /\ \A i \in 1..Len(slots) : slots[i] = NULL
  OBVIOUS
<1>2. EpollTypeOK
  <2>1. <<>> \in Seq(Conns) /\ <<>> \in Seq(Task) /\ Len(<<>>) = 0
    OBVIOUS
  <2>2. sent \in [Conns -> 0..MaxSend] /\ read \in [Conns -> 0..MaxSend]
    OBVIOUS
  <2>3. Len(backlog) <= ListenQueue
    BY <2>1
  <2> QED BY <1>1, <2>1, <2>2, <2>3 DEF EpollTypeOK
<1>3. ListedFds = {} /\ OpenFds = {}
  BY <1>1 DEF ListedFds, OpenFds, Listed
<1>4. Cardinality({}) = 0 /\ {} \ {} = {}
  BY FS_EmptySet
<1>5. SlotsOK /\ OpenOK
  BY <1>1, <1>3, <1>4 DEF SlotsOK, OpenOK
<1>6. BatchFresh /\ BacklogOK /\ ReadSent
  BY <1>3 DEF BatchFresh, BacklogOK, ReadSent
<1> QED
  BY <1>2, <1>5, <1>6 DEF EpollInv

\* A new connection goes to the end of the accept queue; nothing had its name before.
LEMMA ConnectInv ==
  ASSUME EpollInv, NEW c \in Conns, Connect(c)
  PROVE  EpollInv'
<1> USE DEF Connect, events, table
<1>1. EpollTypeOK /\ SlotsOK /\ OpenOK /\ BatchFresh /\ BacklogOK /\ ReadSent
  BY DEF EpollInv
<1>2. SlotsOK' /\ OpenOK' /\ BatchFresh' /\ ReadSent'
  BY <1>1, TableFrame, FreshFrame DEF ReadSent
<1>3. /\ backlog' \in Seq(Conns) /\ Len(backlog') = Len(backlog) + 1 /\ Len(backlog) \in Nat
      /\ backlog'[Len(backlog) + 1] = c
      /\ \A i \in 1..Len(backlog) : backlog'[i] = backlog[i] /\ backlog[i] \in Conns
  BY <1>1, AppendIndex, SeqNonEmpty DEF EpollTypeOK
<1>4. EpollTypeOK'
  <2>1. Len(backlog') <= ListenQueue
    BY <1>3, LimitsAssumption
  <2>2. peer' \in [Conns -> {"absent", "up", "fin", "rst"}]
    BY <1>1 DEF EpollTypeOK
  <2>3. edges' \subseteq interest
    BY <1>1 DEF Arrival, EpollTypeOK
  <2> QED BY <1>1, <1>3, <2>1, <2>2, <2>3 DEF EpollTypeOK
<1>5. BacklogOK'
  <2>1. \A d \in Conns : peer[d] # "absent" => peer'[d] # "absent" /\ d # c
    BY <1>1 DEF EpollTypeOK
  <2>2. ~Open(c) /\ \A i \in 1..Len(backlog) : backlog[i] # c
    BY <1>1, OpenFacts DEF BacklogOK
  <2>3. \A i \in 1..Len(backlog') : i \in 1..Len(backlog) \/ i = Len(backlog) + 1
    BY <1>3
  <2>4. \A d \in Conns : Open(d)' <=> Open(d)
    BY DEF Open
  <2>5. peer'[c] # "absent"
    BY <1>1 DEF EpollTypeOK
  <2>6. \A i, j \in 1..Len(backlog') : backlog'[i] = backlog'[j] => i = j
    BY <1>1, <1>3, <2>2, <2>3 DEF BacklogOK
  <2>7. \A i \in 1..Len(backlog') : (peer[backlog[i]] # "absent" /\ ~Open(backlog[i]))'
    <3> SUFFICES ASSUME NEW i \in 1..Len(backlog')
                 PROVE  (peer[backlog[i]] # "absent" /\ ~Open(backlog[i]))'
      OBVIOUS
    <3>1. CASE i \in 1..Len(backlog)
      BY <1>1, <1>3, <2>1, <2>4, <3>1 DEF BacklogOK
    <3>2. CASE i = Len(backlog) + 1
      BY <1>3, <2>2, <2>4, <2>5, <3>2
    <3> QED BY <2>3, <3>1, <3>2
  <2>8. \A f \in OpenFds' : peer'[fdtab'[f]] # "absent"
    BY <1>1, <2>1, OpenFacts DEF BacklogOK, OpenFds
  <2> QED BY <2>6, <2>7, <2>8 DEF BacklogOK
<1> QED
  BY <1>2, <1>4, <1>5 DEF EpollInv

\* Bytes that arrive, or the end of a connection, change no record of the server.
LEMMA ArrivalInv ==
  ASSUME EpollInv, NEW c \in Conns, Send(c) \/ \E how \in {"fin", "rst"} : Hangup(c, how)
  PROVE  EpollInv'
<1> USE DEF events, table
<1>1. EpollTypeOK /\ SlotsOK /\ OpenOK /\ BatchFresh /\ BacklogOK /\ ReadSent
  BY DEF EpollInv
<1>2. /\ Arrival(FdsOf(c))
      /\ UNCHANGED <<read, backlog, fdtab, interest, events, running, table, queue>>
      /\ \/ UNCHANGED peer /\ sent[c] < MaxSend /\ sent' = [sent EXCEPT ![c] = @ + 1]
         \/ UNCHANGED sent /\ \E how \in {"fin", "rst"} : peer' = [peer EXCEPT ![c] = how]
  BY DEF Send, Hangup
<1>3. SlotsOK' /\ OpenOK' /\ BatchFresh'
  BY <1>1, <1>2, TableFrame, FreshFrame
<1>4. /\ sent' \in [Conns -> 0..MaxSend] /\ peer' \in [Conns -> {"absent", "up", "fin", "rst"}]
      /\ \A d \in Conns : sent[d] <= sent'[d] /\ (peer[d] # "absent" => peer'[d] # "absent")
  <2>1. /\ sent \in [Conns -> 0..MaxSend] /\ peer \in [Conns -> {"absent", "up", "fin", "rst"}]
        /\ MaxSend \in Nat
    BY <1>1, LimitsAssumption DEF EpollTypeOK
  <2>2. CASE UNCHANGED peer /\ sent[c] < MaxSend /\ sent' = [sent EXCEPT ![c] = @ + 1]
    BY <2>1, <2>2
  <2>3. CASE UNCHANGED sent /\ \E how \in {"fin", "rst"} : peer' = [peer EXCEPT ![c] = how]
    BY <2>1, <2>3
  <2> QED BY <1>2, <2>2, <2>3
<1>5. EpollTypeOK'
  <2>1. edges' \subseteq interest
    BY <1>1, <1>2 DEF Arrival, EpollTypeOK
  <2> QED BY <1>1, <1>2, <1>4, <2>1 DEF EpollTypeOK
<1>6. ReadSent'
  BY <1>1, <1>2, <1>4, LimitsAssumption DEF ReadSent, EpollTypeOK
<1>7. BacklogOK'
  <2>1. \A i \in 1..Len(backlog) : backlog[i] \in Conns
    BY <1>1, SeqNonEmpty DEF EpollTypeOK
  <2> QED BY <1>1, <1>2, <1>4, <2>1, OpenFacts DEF BacklogOK, OpenFds, Open
<1> QED
  BY <1>3, <1>5, <1>6, <1>7 DEF EpollInv

\* What epoll_wait reports is registered, and so in the table.
LEMMA EpollWaitInv ==
  ASSUME EpollInv, EpollWait
  PROVE  EpollInv'
<1> USE DEF net, table
<1>1. EpollTypeOK /\ SlotsOK /\ OpenOK /\ BatchFresh /\ BacklogOK /\ ReadSent
  BY DEF EpollInv
<1>2. PICK R \in SUBSET Ready :
        /\ batch' = R
        /\ hups' = {f \in R \ {Listen} : peer[fdtab[f]] = "rst"}
        /\ reported' = [f \in Fds |-> IF f \in R THEN fdtab[f] ELSE NULL]
        /\ edges' = {x \in edges : Pending(x)} \ R
  BY DEF EpollWait
<1>3. UNCHANGED <<net, read, backlog, fdtab, interest, running, table, queue>>
  BY DEF EpollWait
<1>4. SlotsOK' /\ OpenOK' /\ ReadSent'
  BY <1>1, <1>3, TableFrame DEF ReadSent
<1>5. BacklogOK'
  BY <1>1, <1>3 DEF BacklogOK, OpenFds, Open
<1>6. R \subseteq interest /\ interest \subseteq Fds \cup {Listen}
  BY <1>1, <1>2 DEF Ready, EpollTypeOK
<1>7. BatchFresh'
  <2>1. \A f \in R \ {Listen} : f \in Fds /\ Listed(f)
    BY <1>1, <1>6 DEF SlotsOK, ListedFds
  <2> QED BY <1>2, <1>3, <2>1 DEF BatchFresh, Listed
<1>8. EpollTypeOK'
  <2>1. /\ batch' \subseteq Fds \cup {Listen} /\ hups' \subseteq batch' \ {Listen}
        /\ edges' \subseteq interest' /\ reported' \in [Fds -> Conns \cup {NULL}]
    BY <1>1, <1>2, <1>3, <1>6 DEF EpollTypeOK
  <2> QED BY <1>1, <1>3, <2>1 DEF EpollTypeOK
<1> QED
  BY <1>4, <1>5, <1>7, <1>8 DEF EpollInv

\* A failed accept, or a connection turned away, leaves the table alone.
LEMMA NoAcceptInv ==
  ASSUME EpollInv, AcceptFails \/ AcceptRefuses
  PROVE  EpollInv'
<1> USE DEF net, table, kernel
<1>1. EpollTypeOK /\ SlotsOK /\ OpenOK /\ BatchFresh /\ BacklogOK /\ ReadSent
  BY DEF EpollInv
<1>2. /\ Take(Listen)
      /\ UNCHANGED <<net, read, fdtab, interest, edges, running, table, queue>>
      /\ \/ UNCHANGED backlog
         \/ backlog # <<>> /\ backlog' = Tail(backlog)
  BY DEF AcceptFails, AcceptRefuses, CannotAccept
<1>3. SlotsOK' /\ OpenOK' /\ ReadSent'
  BY <1>1, <1>2, TableFrame DEF ReadSent
<1>4. /\ BatchFresh'
      /\ batch' \subseteq Fds \cup {Listen} /\ hups' \subseteq batch' \ {Listen}
      /\ reported' \in [Fds -> Conns \cup {NULL}]
  <2>1. \A f \in Fds : Listed(f) => fdtab'[f] = fdtab[f] /\ Listed(f)'
    BY <1>2 DEF Listed
  <2> QED BY <1>1, <1>2, <2>1, TakeFresh
<1>5. /\ backlog' \in Seq(Conns) /\ Len(backlog') <= ListenQueue
      /\ \/ UNCHANGED backlog
         \/ \A i \in 1..Len(backlog') : i + 1 \in 1..Len(backlog) /\ backlog'[i] = backlog[i + 1]
  <2>1. backlog \in Seq(Conns) /\ Len(backlog) <= ListenQueue /\ ListenQueue \in Nat
    BY <1>1, LimitsAssumption DEF EpollTypeOK
  <2>2. CASE backlog # <<>> /\ backlog' = Tail(backlog)
    BY <2>1, <2>2, TailIndex
  <2> QED BY <1>2, <2>1, <2>2
<1>6. BacklogOK'
  BY <1>1, <1>2, <1>5 DEF BacklogOK, OpenFds, Open
<1>7. EpollTypeOK'
  BY <1>1, <1>2, <1>4, <1>5 DEF EpollTypeOK
<1> QED
  BY <1>3, <1>4, <1>6, <1>7 DEF EpollInv

\* What both ways of accepting a connection do to the accept queue and the descriptors:
\* the oldest connection gets a number that no other had.
LEMMA AcceptedFacts ==
  ASSUME EpollInv, ~CannotAccept,
         backlog' = Tail(backlog), peer' = peer,
         fdtab' = [fdtab EXCEPT ![LowestFree] = Head(backlog)]
  PROVE  /\ LowestFree \in Fds /\ fdtab[LowestFree] = NULL /\ ~Listed(LowestFree)
         /\ Head(backlog) \in Conns
         /\ backlog' \in Seq(Conns) /\ Len(backlog') <= ListenQueue
         /\ fdtab' \in [Fds -> Conns \cup {NULL}]
         /\ OpenFds' = OpenFds \cup {LowestFree}
         /\ \A f, g \in OpenFds' : fdtab'[f] = fdtab'[g] => f = g
         /\ BacklogOK'
<1> DEFINE f0 == LowestFree
           c == Head(backlog)
<1>1. EpollTypeOK /\ SlotsOK /\ OpenOK /\ BatchFresh /\ BacklogOK /\ ReadSent
  BY DEF EpollInv
<1>2. f0 \in Fds /\ fdtab[f0] = NULL
  BY LowestFreeFacts DEF CannotAccept
<1>3. ~Listed(f0)
  BY <1>1, <1>2 DEF OpenOK, ListedFds, OpenFds
<1>4. /\ backlog \in Seq(Conns) /\ backlog # <<>> /\ c \in Conns /\ c = backlog[1]
      /\ Len(backlog) \in Nat \ {0}
      /\ backlog' \in Seq(Conns) /\ Len(backlog') = Len(backlog) - 1
      /\ \A i \in 1..Len(backlog') :
           i + 1 \in 1..Len(backlog) /\ i + 1 # 1 /\ backlog'[i] = backlog[i + 1]
  BY <1>1, HeadIndex, TailIndex DEF CannotAccept, EpollTypeOK
<1>5. c # NULL
  BY <1>4, ConnsAssumption
<1> HIDE DEF f0, c
<1>6. /\ fdtab' \in [Fds -> Conns \cup {NULL}] /\ fdtab'[f0] = c
      /\ \A g \in Fds : g # f0 => fdtab'[g] = fdtab[g]
  BY <1>1, <1>2, <1>4 DEF EpollTypeOK, f0, c
<1>7. OpenFds' = OpenFds \cup {f0}
  BY <1>2, <1>5, <1>6 DEF OpenFds
<1>8. peer[c] # "absent" /\ ~Open(c) /\ \A i \in 2..Len(backlog) : backlog[i] # c
  BY <1>1, <1>4 DEF BacklogOK
<1>9. \A f, g \in OpenFds' : fdtab'[f] = fdtab'[g] => f = g
  <2>1. \A f \in OpenFds : f \in Fds /\ f # f0 /\ fdtab'[f] = fdtab[f] /\ fdtab[f] # c
    BY <1>2, <1>6, <1>8 DEF OpenFds, Open
  <2> QED BY <1>1, <1>6, <1>7, <2>1 DEF OpenOK
<1>10. BacklogOK'
  <2>1. \A i, j \in 1..Len(backlog') : backlog'[i] = backlog'[j] => i = j
    BY <1>1, <1>4 DEF BacklogOK
  <2>2. \A d \in Conns : Open(d)' => Open(d) \/ d = c
    BY <1>6 DEF Open
  <2>3. \A i \in 1..Len(backlog') : (peer[backlog[i]] # "absent" /\ ~Open(backlog[i]))'
    <3> SUFFICES ASSUME NEW i \in 1..Len(backlog')
                 PROVE  (peer[backlog[i]] # "absent" /\ ~Open(backlog[i]))'
      OBVIOUS
    <3>1. /\ i + 1 \in 1..Len(backlog) /\ backlog'[i] = backlog[i + 1]
          /\ backlog[i + 1] \in Conns /\ backlog[i + 1] # c
      BY <1>4, <1>8, SeqNonEmpty
    <3>2. peer[backlog[i + 1]] # "absent" /\ ~Open(backlog[i + 1])
      BY <1>1, <3>1 DEF BacklogOK
    <3> QED BY <2>2, <3>1, <3>2
  <2>4. \A f \in OpenFds' : peer'[fdtab'[f]] # "absent"
    <3>1. \A f \in OpenFds : f \in Fds /\ f # f0 /\ fdtab'[f] = fdtab[f]
      BY <1>2, <1>6 DEF OpenFds
    <3> QED BY <1>1, <1>6, <1>7, <1>8, <3>1 DEF BacklogOK
  <2> QED BY <2>1, <2>3, <2>4 DEF BacklogOK
<1>11. Len(backlog') <= ListenQueue
  BY <1>1, <1>4, LimitsAssumption DEF EpollTypeOK
<1> QED
  BY <1>2, <1>3, <1>4, <1>6, <1>7, <1>9, <1>10, <1>11 DEF f0, c

\* Accepting a connection adds its number to every record.
LEMMA AcceptInv ==
  ASSUME EpollInv, Accept
  PROVE  EpollInv'
<1> DEFINE f0 == LowestFree
<1>1. EpollTypeOK /\ SlotsOK /\ OpenOK /\ BatchFresh /\ BacklogOK /\ ReadSent
  BY DEF EpollInv
<1>2. /\ Take(Listen) /\ ~CannotAccept /\ acceptCount < MaxEvents
      /\ backlog' = Tail(backlog)
      /\ fdtab' = [fdtab EXCEPT ![f0] = Head(backlog)]
      /\ interest' = interest \cup {f0}
      /\ edges' \subseteq edges \cup {f0}
      /\ AddSocket(f0) /\ acceptCount' = acceptCount + 1
      /\ UNCHANGED <<peer, sent, read, running, queue>>
  BY DEF Accept, net
<1>3. /\ f0 \in Fds /\ fdtab[f0] = NULL /\ ~Listed(f0)
      /\ backlog' \in Seq(Conns) /\ Len(backlog') <= ListenQueue
      /\ fdtab' \in [Fds -> Conns \cup {NULL}]
      /\ OpenFds' = OpenFds \cup {f0}
      /\ \A f, g \in OpenFds' : fdtab'[f] = fdtab'[g] => f = g
      /\ BacklogOK'
  BY <1>2, AcceptedFacts
<1> HIDE DEF f0
<1>4. /\ slots' \in Seq(Fds \cup {NULL})
      /\ \A i, j \in 1..Len(slots') : slots'[i] = slots'[j] /\ slots'[i] # NULL => i = j
      /\ \A g \in Fds : Listed(g)' <=> Listed(g) \/ g = f0
  BY <1>1, <1>2, <1>3, AddSocketFacts DEF SlotsOK, EpollTypeOK
<1>5. ListedFds' = ListedFds \cup {f0} /\ f0 \notin ListedFds /\ f0 \notin OpenFds /\ f0 # Listen
  BY <1>3, <1>4, FdsAssumption DEF ListedFds, OpenFds
<1>6. Cardinality(ListedFds') = Cardinality(ListedFds) + 1
  BY <1>1, <1>5, OpenFacts, FS_AddElement
<1>7. SlotsOK'
  BY <1>1, <1>2, <1>4, <1>5, <1>6 DEF SlotsOK
<1>8. OpenOK'
  <2>1. OpenFds' \ ListedFds' = OpenFds \ ListedFds
    BY <1>3, <1>5
  <2> QED BY <1>1, <1>2, <1>3, <1>5, <2>1 DEF OpenOK
<1>9. /\ BatchFresh'
      /\ batch' \subseteq Fds \cup {Listen} /\ hups' \subseteq batch' \ {Listen}
      /\ reported' \in [Fds -> Conns \cup {NULL}]
  <2>1. \A f \in Fds : f # Listen /\ Listed(f) => fdtab'[f] = fdtab[f] /\ Listed(f)'
    BY <1>1, <1>2, <1>3, <1>4 DEF EpollTypeOK
  <2> QED BY <1>1, <1>2, <2>1, TakeFresh
<1>10. EpollTypeOK'
  <2>1. acceptCount' \in 0..MaxEvents
    BY <1>1, <1>2, LimitsAssumption DEF EpollTypeOK
  <2>2. interest' \subseteq Fds \cup {Listen} /\ edges' \subseteq interest'
    BY <1>1, <1>2, <1>3 DEF EpollTypeOK
  <2> QED BY <1>1, <1>2, <1>3, <1>4, <1>9, <2>1, <2>2 DEF EpollTypeOK
<1>11. ReadSent'
  BY <1>1, <1>2 DEF ReadSent
<1> QED
  BY <1>3, <1>7, <1>8, <1>9, <1>10, <1>11 DEF EpollInv

\* When the registration fails the thread is gone, and leaves one descriptor behind.
LEMMA AcceptAddFailsInv ==
  ASSUME EpollInv, AcceptAddFails
  PROVE  EpollInv'
<1> DEFINE f0 == LowestFree
<1>1. EpollTypeOK /\ SlotsOK /\ OpenOK /\ BatchFresh /\ BacklogOK /\ ReadSent
  BY DEF EpollInv
<1>2. /\ Take(Listen) /\ running /\ ~CannotAccept
      /\ backlog' = Tail(backlog)
      /\ fdtab' = [fdtab EXCEPT ![f0] = Head(backlog)]
      /\ running' = FALSE
      /\ UNCHANGED <<peer, sent, read, interest, edges, slots, acceptCount, queue>>
  BY DEF AcceptAddFails, Take, net, table
<1>3. /\ f0 \in Fds /\ fdtab[f0] = NULL /\ ~Listed(f0)
      /\ backlog' \in Seq(Conns) /\ Len(backlog') <= ListenQueue
      /\ fdtab' \in [Fds -> Conns \cup {NULL}]
      /\ OpenFds' = OpenFds \cup {f0}
      /\ \A f, g \in OpenFds' : fdtab'[f] = fdtab'[g] => f = g
      /\ BacklogOK'
  BY <1>2, AcceptedFacts
<1> HIDE DEF f0
<1>4. ListedFds' = ListedFds
  BY <1>2 DEF ListedFds, Listed
<1>5. SlotsOK'
  BY <1>1, <1>2, <1>4 DEF SlotsOK
<1>6. OpenOK'
  <2>1. OpenFds' \ ListedFds' = {f0}
    BY <1>1, <1>2, <1>3, <1>4 DEF OpenOK, ListedFds
  <2>2. Cardinality({f0}) = 1
    BY FS_Singleton
  <2>3. Cardinality(OpenFds' \ ListedFds') <= 1
    BY <2>1, <2>2
  <2>4. ListedFds' \subseteq OpenFds' /\ ~running'
    BY <1>1, <1>2, <1>3, <1>4 DEF OpenOK
  <2> QED BY <1>3, <2>3, <2>4 DEF OpenOK
<1>7. /\ BatchFresh'
      /\ batch' \subseteq Fds \cup {Listen} /\ hups' \subseteq batch' \ {Listen}
      /\ reported' \in [Fds -> Conns \cup {NULL}]
  <2>1. \A f \in Fds : f # Listen /\ Listed(f) => fdtab'[f] = fdtab[f] /\ Listed(f)'
    BY <1>1, <1>2, <1>3 DEF EpollTypeOK, Listed
  <2> QED BY <1>1, <1>2, <2>1, TakeFresh
<1>8. EpollTypeOK'
  BY <1>1, <1>2, <1>3, <1>7 DEF EpollTypeOK
<1>9. ReadSent'
  BY <1>1, <1>2 DEF ReadSent
<1> QED
  BY <1>3, <1>5, <1>6, <1>7, <1>8, <1>9 DEF EpollInv

\* The socket of an event is in the table, and closing it takes it out of every record.
LEMMA CloseFacts ==
  ASSUME EpollInv, NEW f \in Fds, Take(f), CloseSocket(f)
  PROVE  /\ Listed(f) /\ f \in OpenFds /\ fdtab[f] \in Conns
         /\ slots' \in Seq(Fds \cup {NULL})
         /\ \A i, j \in 1..Len(slots') : slots'[i] = slots'[j] /\ slots'[i] # NULL => i = j
         /\ \A g \in Fds : Listed(g)' <=> Listed(g) /\ g # f
         /\ interest' = interest \ {f} /\ edges' = edges \ {f}
         /\ fdtab' \in [Fds -> Conns \cup {NULL}] /\ fdtab'[f] = NULL
         /\ \A g \in Fds : g # f => fdtab'[g] = fdtab[g]
         /\ OpenFds' = OpenFds \ {f} /\ acceptCount' = acceptCount - 1
<1>1. EpollTypeOK /\ SlotsOK /\ OpenOK /\ BatchFresh
  BY DEF EpollInv
<1>2. Listed(f)
  BY <1>1, FdsAssumption DEF Take, BatchFresh
<1>3. f \in OpenFds /\ fdtab[f] \in Conns
  BY <1>1, <1>2, OpenFacts DEF OpenOK, ListedFds
<1>4. /\ slots' \in Seq(Fds \cup {NULL})
      /\ \A i, j \in 1..Len(slots') : slots'[i] = slots'[j] /\ slots'[i] # NULL => i = j
      /\ \A g \in Fds : Listed(g)' <=> Listed(g) /\ g # f
      /\ interest' = interest \ {f} /\ edges' = edges \ {f}
      /\ fdtab' = [fdtab EXCEPT ![f] = NULL] /\ acceptCount' = acceptCount - 1
  BY <1>1, <1>2, CloseSocketFacts DEF SlotsOK, EpollTypeOK
<1>5. /\ fdtab' \in [Fds -> Conns \cup {NULL}] /\ fdtab'[f] = NULL
      /\ \A g \in Fds : g # f => fdtab'[g] = fdtab[g]
  BY <1>1, <1>4 DEF EpollTypeOK
<1>6. OpenFds' = OpenFds \ {f}
  BY <1>5 DEF OpenFds
<1> QED
  BY <1>2, <1>3, <1>4, <1>5, <1>6

\* An error, or the end of a client's stream, closes the socket that was reported.
LEMMA CloseInv ==
  ASSUME EpollInv, NEW f \in Fds, CloseOnError(f) \/ ReadEof(f)
  PROVE  EpollInv'
<1>1. EpollTypeOK /\ SlotsOK /\ OpenOK /\ BatchFresh /\ BacklogOK /\ ReadSent
  BY DEF EpollInv
<1>2. Take(f) /\ CloseSocket(f) /\ UNCHANGED <<peer, sent, read, backlog, running, queue>>
  BY DEF CloseOnError, ReadEof, net
<1>3. /\ Listed(f) /\ f \in OpenFds
      /\ slots' \in Seq(Fds \cup {NULL})
      /\ \A i, j \in 1..Len(slots') : slots'[i] = slots'[j] /\ slots'[i] # NULL => i = j
      /\ \A g \in Fds : Listed(g)' <=> Listed(g) /\ g # f
      /\ interest' = interest \ {f} /\ edges' = edges \ {f}
      /\ fdtab' \in [Fds -> Conns \cup {NULL}]
      /\ \A g \in Fds : g # f => fdtab'[g] = fdtab[g]
      /\ OpenFds' = OpenFds \ {f} /\ acceptCount' = acceptCount - 1
  BY <1>2, CloseFacts
<1>4. ListedFds' = ListedFds \ {f} /\ f \in ListedFds
  BY <1>3 DEF ListedFds
<1>5. /\ Cardinality(ListedFds') = Cardinality(ListedFds) - 1
      /\ Cardinality(ListedFds) \in Nat \ {0} /\ Cardinality(ListedFds') \in Nat
  <2>1. IsFiniteSet(ListedFds) /\ IsFiniteSet(ListedFds')
    BY <1>1, <1>4, OpenFacts, FS_RemoveElement
  <2>2. Cardinality(ListedFds) \in Nat /\ Cardinality(ListedFds') \in Nat
    BY <2>1, FS_CardinalityType
  <2>3. Cardinality(ListedFds') = Cardinality(ListedFds) - 1
    BY <1>4, <2>1, FS_RemoveElement
  <2> QED BY <2>2, <2>3
<1>6. SlotsOK'
  BY <1>1, <1>3, <1>4, <1>5 DEF SlotsOK
<1>7. OpenOK'
  <2>1. OpenFds' \ ListedFds' = OpenFds \ ListedFds
    BY <1>3, <1>4
  <2>2. \A g, h \in OpenFds' : fdtab'[g] = fdtab'[h] => g = h
    BY <1>1, <1>3 DEF OpenOK, OpenFds
  <2> QED BY <1>1, <1>2, <1>3, <1>4, <2>1, <2>2 DEF OpenOK
<1>8. /\ BatchFresh'
      /\ batch' \subseteq Fds \cup {Listen} /\ hups' \subseteq batch' \ {Listen}
      /\ reported' \in [Fds -> Conns \cup {NULL}]
  BY <1>1, <1>2, <1>3, TakeFresh
<1>9. BacklogOK'
  <2>1. \A d \in Conns : Open(d)' => Open(d)
    BY <1>1, <1>3, ConnsAssumption DEF Open, OpenFds
  <2>2. \A i \in 1..Len(backlog) : backlog[i] \in Conns
    BY <1>1, SeqNonEmpty DEF EpollTypeOK
  <2>3. \A g \in OpenFds' : g \in OpenFds /\ fdtab'[g] = fdtab[g]
    BY <1>3 DEF OpenFds
  <2> QED BY <1>1, <1>2, <2>1, <2>2, <2>3 DEF BacklogOK
<1>10. EpollTypeOK'
  <2>1. acceptCount' \in 0..MaxEvents
    BY <1>1, <1>3, <1>5, LimitsAssumption DEF EpollTypeOK, SlotsOK
  <2>2. interest' \subseteq Fds \cup {Listen} /\ edges' \subseteq interest'
    BY <1>1, <1>3 DEF EpollTypeOK
  <2> QED BY <1>1, <1>2, <1>3, <1>8, <2>1, <2>2 DEF EpollTypeOK
<1>11. ReadSent'
  BY <1>1, <1>2 DEF ReadSent
<1> QED
  BY <1>6, <1>7, <1>8, <1>9, <1>10, <1>11 DEF EpollInv

\* What recv returned becomes one task, with the number and the connection it came from.
LEMMA ReadDataFacts ==
  ASSUME EpollInv, NEW f \in Fds, ReadData(f)
  PROVE  \E t \in Task :
           /\ t.socket = f /\ t.from = fdtab[f] /\ f \in OpenFds
           /\ t.first = read[t.from] + 1 /\ t.first <= t.last /\ t.last <= sent[t.from]
           /\ read' = [read EXCEPT ![t.from] = t.last]
           /\ queue' = Append(queue, t)
<1> DEFINE c == fdtab[f]
           n == IF sent[c] - read[c] < RecvMax THEN sent[c] - read[c] ELSE RecvMax
           t == [socket |-> f, from |-> c, first |-> read[c] + 1, last |-> read[c] + n]
<1>1. EpollTypeOK /\ OpenOK /\ ReadSent
  BY DEF EpollInv
<1>2. f \in OpenFds /\ c \in Conns
  BY <1>1, OpenFacts DEF ReadData, OpenOK, ListedFds
<1>3. /\ n > 0 /\ read' = [read EXCEPT ![c] = @ + n]
      /\ queue' = Append(queue, t)
  BY DEF ReadData
<1>4. sent[c] \in 0..MaxSend /\ read[c] \in 0..MaxSend /\ read[c] <= sent[c]
  BY <1>1, <1>2 DEF EpollTypeOK, ReadSent
<1> HIDE DEF c
<1>5. n \in Nat \ {0} /\ read[c] + n <= sent[c]
  BY <1>3, <1>4, LimitsAssumption
<1> HIDE DEF n
<1>6. read[c] + 1 \in 1..MaxSend /\ read[c] + n \in 1..MaxSend /\ read[c] + 1 <= read[c] + n
  BY <1>4, <1>5, LimitsAssumption
<1>7. t \in Task
  BY <1>2, <1>6 DEF Task
<1>8. /\ t.socket = f /\ t.from = c /\ t.first = read[c] + 1 /\ t.last = read[c] + n
  OBVIOUS
<1>9. read' = [read EXCEPT ![c] = read[c] + n]
  BY <1>3
<1> HIDE DEF t
<1> QED
  BY <1>2, <1>3, <1>5, <1>6, <1>7, <1>8, <1>9 DEF c

\* A read changes what has been read and what is in the list.
LEMMA ReadInv ==
  ASSUME EpollInv, NEW f \in Fds, ReadData(f) \/ ReadNothing(f)
  PROVE  EpollInv'
<1>1. EpollTypeOK /\ SlotsOK /\ OpenOK /\ BatchFresh /\ BacklogOK /\ ReadSent
  BY DEF EpollInv
<1>2. Take(f) /\ Listed(f)
  BY <1>1, FdsAssumption DEF ReadData, ReadNothing, Take, BatchFresh
<1>3. UNCHANGED <<peer, sent, backlog, fdtab, interest, edges, running, slots, acceptCount>>
  BY <1>2 DEF ReadData, ReadNothing, net, kernel, table
<1>4. SlotsOK' /\ OpenOK'
  BY <1>1, <1>3, TableFrame
<1>5. /\ BatchFresh'
      /\ batch' \subseteq Fds \cup {Listen} /\ hups' \subseteq batch' \ {Listen}
      /\ reported' \in [Fds -> Conns \cup {NULL}]
  <2>1. \A g \in Fds : Listed(g) => fdtab'[g] = fdtab[g] /\ Listed(g)'
    BY <1>3 DEF Listed
  <2> QED BY <1>1, <1>2, <2>1, TakeFresh
<1>6. BacklogOK'
  BY <1>1, <1>3 DEF BacklogOK, OpenFds, Open
<1>7. /\ read' \in [Conns -> 0..MaxSend] /\ queue' \in Seq(Task)
      /\ \A d \in Conns : read'[d] <= sent[d]
  <2>1. CASE ReadNothing(f)
    BY <1>1, <2>1 DEF ReadNothing, EpollTypeOK, ReadSent
  <2>2. CASE ReadData(f)
    <3>1. PICK t \in Task :
            /\ t.last <= sent[t.from]
            /\ read' = [read EXCEPT ![t.from] = t.last] /\ queue' = Append(queue, t)
      BY <2>2, ReadDataFacts
    <3>2. t.last \in 0..MaxSend /\ t.from \in Conns
      BY LimitsAssumption DEF Task
    <3>3. queue' \in Seq(Task)
      BY <1>1, <3>1, AppendIndex DEF EpollTypeOK
    <3> QED BY <1>1, <3>1, <3>2, <3>3 DEF EpollTypeOK, ReadSent
  <2> QED BY <2>1, <2>2
<1>8. EpollTypeOK' /\ ReadSent'
  BY <1>1, <1>3, <1>5, <1>7 DEF EpollTypeOK, ReadSent
<1> QED
  BY <1>4, <1>5, <1>6, <1>8 DEF EpollInv

\* Every step of the clients, the kernel and the epoll thread keeps the invariant.
LEMMA EpollStepInv ==
  ASSUME EpollInv, [EpollNext]_epollVars
  PROVE  EpollInv'
<1>1. ASSUME NEW c \in Conns, ClientStep(c) PROVE EpollInv'
  BY <1>1, ConnectInv, ArrivalInv DEF ClientStep
<1>2. CASE HandleListen
  BY <1>2, NoAcceptInv, AcceptInv, AcceptAddFailsInv DEF HandleListen
<1>3. ASSUME NEW f \in Fds, HandleClient(f) PROVE EpollInv'
  BY <1>3, CloseInv, ReadInv DEF HandleClient
<1>4. CASE UNCHANGED epollVars
  <2>1. EpollTypeOK' /\ SlotsOK' /\ OpenOK'
    BY <1>4 DEF EpollInv, epollVars, net, kernel, events, table, EpollTypeOK, SlotsOK, OpenOK,
            ListedFds, OpenFds, Listed
  <2>2. BatchFresh' /\ BacklogOK' /\ ReadSent'
    BY <1>4 DEF EpollInv, epollVars, net, kernel, events, table, BatchFresh, BacklogOK, ReadSent,
            OpenFds, Listed, Open
  <2> QED BY <2>1, <2>2 DEF EpollInv
<1> QED
  BY <1>1, <1>2, <1>3, <1>4, EpollWaitInv DEF EpollNext, EpollStep

\* The invariant of the network side holds in every state.
THEOREM EpollInvariance == EpollSpec => []EpollInv
<1>1. EpollInv /\ [EpollNext]_epollVars => EpollInv'
  BY EpollStepInv
<1> QED
  BY EpollInitInv, <1>1, PTL DEF EpollSpec

-------------------------------------------------------------------------------
(* What the invariant gives *)

\* The table of sockets, the count, the epoll set and the descriptor table agree after
\* every handler.
LEMMA InvAgrees == EpollInv => TableAgrees
<1> SUFFICES ASSUME EpollInv PROVE TableAgrees
  OBVIOUS
<1>1. /\ OpenFds = {f \in Fds : fdtab[f] # NULL} /\ ListedFds = {f \in Fds : Listed(f)}
      /\ EpollTypeOK /\ SlotsOK /\ OpenOK
  BY DEF EpollInv, OpenFds, ListedFds
<1> QED
  BY <1>1 DEF TableAgrees, SlotsOK, OpenOK

\* Slot, registration, count and descriptor exist together for each open client, and for
\* no other, whatever the order of accepts, reads, errors and reused numbers.
THEOREM TablesAgree == EpollSpec => []TableAgrees
BY EpollInvariance, InvAgrees, PTL

\* No handler acts on an event of a connection that is gone.
THEOREM EventsFresh == EpollSpec => []BatchFresh
<1>1. EpollInv => BatchFresh
  BY DEF EpollInv
<1> QED
  BY EpollInvariance, <1>1, PTL

\* Only a read changes what has been read, or puts a task in the list.
LEMMA OnlyReadsPut ==
  ASSUME [EpollNext]_epollVars
  PROVE  \/ \E f \in Fds : ReadData(f)
         \/ UNCHANGED <<read, queue>>
<1>1. CASE \E c \in Conns : ClientStep(c)
  BY <1>1 DEF ClientStep, Connect, Send, Hangup
<1>2. CASE EpollWait
  BY <1>2 DEF EpollWait
<1>3. CASE HandleListen
  BY <1>3 DEF HandleListen, AcceptFails, AcceptRefuses, Accept, AcceptAddFails
<1>4. ASSUME NEW f \in Fds, HandleClient(f) PROVE ReadData(f) \/ UNCHANGED <<read, queue>>
  BY <1>4 DEF HandleClient, CloseOnError, ReadEof, ReadNothing
<1>5. CASE UNCHANGED epollVars
  BY <1>5 DEF epollVars
<1> QED
  BY <1>1, <1>2, <1>3, <1>4, <1>5 DEF EpollNext, EpollStep

\* A task continues its client's stream where the last one ended.
LEMMA FollowStep ==
  ASSUME EpollInv, TasksFollowStream, [EpollNext]_epollVars
  PROVE  TasksFollowStream'
<1>1. CASE UNCHANGED <<read, queue>>
  BY <1>1 DEF TasksFollowStream
<1>2. ASSUME NEW f \in Fds, ReadData(f) PROVE TasksFollowStream'
  <2>1. PICK t \in Task :
          /\ t.first = read[t.from] + 1 /\ t.first <= t.last
          /\ read' = [read EXCEPT ![t.from] = t.last] /\ queue' = Append(queue, t)
    BY <1>2, ReadDataFacts
  <2>2. /\ t.from \in Conns /\ t.last \in Nat
        /\ read \in [Conns -> 0..MaxSend] /\ queue \in Seq(Task)
    BY LimitsAssumption DEF Task, EpollInv, EpollTypeOK
  <2>3. /\ Len(queue) \in Nat /\ Len(queue') = Len(queue) + 1
        /\ queue'[Len(queue) + 1] = t
        /\ \A i \in 1..Len(queue) : queue'[i] = queue[i] /\ queue[i] \in Task
    BY <2>1, <2>2, AppendIndex, SeqNonEmpty
  <2>4. \A i \in 1..Len(queue') : i \in 1..Len(queue) \/ i = Len(queue) + 1
    BY <2>3
  <2>5. \A q \in Task : q.first \in Nat /\ q.last \in Nat
    BY LimitsAssumption DEF Task
  <2>6. SUFFICES ASSUME NEW c \in Conns
                 PROVE  LET mine == {i \in 1..Len(queue') : queue'[i].from = c} IN
                          /\ \A i \in mine : /\ queue'[i].last <= read'[c]
                                             /\ queue'[i].first <= queue'[i].last
                          /\ \A i, j \in mine : i < j => queue'[i].last < queue'[j].first
                          /\ \A n \in 1..read'[c] :
                               \E i \in mine : n \in queue'[i].first..queue'[i].last
    BY DEF TasksFollowStream
  <2> DEFINE old == {i \in 1..Len(queue) : queue[i].from = c}
             mine == {i \in 1..Len(queue') : queue'[i].from = c}
  <2>7. /\ \A i \in old : queue[i].last <= read[c] /\ queue[i].first <= queue[i].last
        /\ \A i, j \in old : i < j => queue[i].last < queue[j].first
        /\ \A n \in 1..read[c] : \E i \in old : n \in queue[i].first..queue[i].last
    BY DEF TasksFollowStream
  <2>8. read[c] \in Nat
    BY <2>2
  <2>9. CASE t.from # c
    <3>1. /\ \A i \in mine : i \in old /\ queue'[i] = queue[i]
          /\ \A i \in old : i \in mine /\ queue'[i] = queue[i]
          /\ read'[c] = read[c]
      BY <2>1, <2>2, <2>3, <2>4, <2>9
    <3> HIDE DEF mine, old
    <3>2. \A i \in mine : queue'[i].last <= read'[c] /\ queue'[i].first <= queue'[i].last
      BY <2>7, <3>1
    <3>3. \A i, j \in mine : i < j => queue'[i].last < queue'[j].first
      BY <2>7, <3>1
    <3>4. \A n \in 1..read'[c] : \E i \in mine : n \in queue'[i].first..queue'[i].last
      BY <2>7, <3>1
    <3> QED BY <3>2, <3>3, <3>4 DEF mine
  <2>10. CASE t.from = c
    <3>1. /\ \A i \in mine : i = Len(queue) + 1 \/ (i \in old /\ queue'[i] = queue[i])
          /\ \A i \in old : i \in mine /\ i < Len(queue) + 1 /\ queue'[i] = queue[i]
          /\ Len(queue) + 1 \in mine /\ \A i \in mine : i \in Nat
          /\ read'[c] = t.last /\ t.first = read[c] + 1
      BY <2>1, <2>2, <2>3, <2>4, <2>10
    <3>2. \A i \in old : queue[i].last \in Nat /\ queue[i].first \in Nat
      BY <2>3, <2>5
    <3> HIDE DEF mine, old
    <3>3. \A i \in mine : queue'[i].last <= read'[c] /\ queue'[i].first <= queue'[i].last
      <4> SUFFICES ASSUME NEW i \in mine
                   PROVE  queue'[i].last <= read'[c] /\ queue'[i].first <= queue'[i].last
        OBVIOUS
      <4>1. CASE i \in old
        <5>1. queue'[i] = queue[i] /\ queue[i].last \in Nat /\ queue[i].first \in Nat
          BY <3>1, <3>2, <4>1
        <5>2. queue[i].last <= read[c] /\ queue[i].first <= queue[i].last
          BY <2>7, <4>1
        <5>3. read[c] <= read'[c]
          BY <2>1, <2>2, <2>8, <3>1
        <5> QED BY <2>2, <2>8, <3>1, <5>1, <5>2, <5>3
      <4>2. CASE i = Len(queue) + 1
        <5>1. queue'[i] = t
          BY <2>3, <4>2
        <5> QED BY <2>1, <2>2, <3>1, <5>1
      <4> QED BY <3>1, <4>1, <4>2
    <3>4. \A i, j \in mine : i < j => queue'[i].last < queue'[j].first
      <4> SUFFICES ASSUME NEW i \in mine, NEW j \in mine, i < j
                   PROVE  queue'[i].last < queue'[j].first
        OBVIOUS
      <4>1. i \in old /\ queue'[i] = queue[i] /\ i \in Nat /\ j \in Nat
        BY <2>3, <3>1
      <4>2. CASE j \in old
        BY <2>7, <3>1, <4>1, <4>2
      <4>3. CASE j = Len(queue) + 1
        BY <2>3, <2>7, <2>8, <3>1, <3>2, <4>1, <4>3
      <4> QED BY <3>1, <4>2, <4>3
    <3>5. \A n \in 1..read'[c] : \E i \in mine : n \in queue'[i].first..queue'[i].last
      <4> SUFFICES ASSUME NEW n \in 1..read'[c]
                   PROVE  \E i \in mine : n \in queue'[i].first..queue'[i].last
        OBVIOUS
      <4>1. CASE n \in 1..read[c]
        BY <2>7, <3>1, <4>1
      <4>2. CASE n > read[c]
        <5>1. n \in t.first..t.last
          BY <2>2, <2>8, <3>1, <4>2
        <5> QED BY <2>3, <3>1, <5>1
      <4> QED BY <2>2, <2>8, <3>1, <4>1, <4>2
    <3> QED BY <3>3, <3>4, <3>5 DEF mine
  <2> QED BY <2>9, <2>10
<1> QED
  BY <1>1, <1>2, OnlyReadsPut

\* The task list holds what the clients sent: in each client's order, without a gap, a
\* repetition or a byte that was not read.
THEOREM StreamsFollowed == EpollSpec => []TasksFollowStream
<1>1. EpollInit => TasksFollowStream
  BY DEF EpollInit, TasksFollowStream
<1>2. EpollInv /\ TasksFollowStream /\ [EpollNext]_epollVars => TasksFollowStream'
  BY FollowStep
<1> QED
  BY EpollInvariance, <1>1, <1>2, PTL DEF EpollSpec

\* A connection that has been closed is neither accepted nor opened again: its name is
\* never given to another.
LEMMA ClosedStep ==
  ASSUME EpollInv, [EpollNext]_epollVars, NEW c \in Conns, Closed(c)
  PROVE  Closed(c)'
<1>1. EpollTypeOK /\ BacklogOK
  BY DEF EpollInv
<1>2. peer[c] # "absent" /\ ~Waiting(c) /\ ~Open(c)
  BY DEF Closed
<1>3. \A i \in 1..Len(backlog) : backlog[i] # c
  BY <1>2 DEF Waiting
<1>4. ASSUME NEW d \in Conns, Connect(d) PROVE Closed(c)'
  <2>1. d # c /\ UNCHANGED fdtab /\ backlog' = Append(backlog, d) /\ peer'[c] = peer[c]
    BY <1>1, <1>2, <1>4 DEF Connect, EpollTypeOK
  <2>2. \A i \in 1..Len(backlog') : backlog'[i] # c
    <3>1. backlog \in Seq(Conns) /\ Len(backlog) \in Nat
      BY <1>1, SeqNonEmpty DEF EpollTypeOK
    <3>2. /\ Len(backlog') = Len(backlog) + 1 /\ backlog'[Len(backlog) + 1] = d
          /\ \A i \in 1..Len(backlog) : backlog'[i] = backlog[i]
      BY <2>1, <3>1, AppendIndex
    <3> QED BY <1>3, <2>1, <3>1, <3>2
  <2> QED BY <1>2, <2>1, <2>2 DEF Closed, Waiting, Open
<1>5. ASSUME NEW d \in Conns, Send(d) \/ \E how \in {"fin", "rst"} : Hangup(d, how)
      PROVE  Closed(c)'
  <2>1. UNCHANGED <<fdtab, backlog>> /\ peer'[c] # "absent"
    BY <1>1, <1>2, <1>5 DEF Send, Hangup, EpollTypeOK
  <2> QED BY <1>2, <2>1 DEF Closed, Waiting, Open
<1>6. ASSUME UNCHANGED <<peer, fdtab, backlog>> PROVE Closed(c)'
  BY <1>2, <1>6 DEF Closed, Waiting, Open
<1>7. ASSUME backlog # <<>>, backlog' = Tail(backlog), UNCHANGED peer,
             \/ UNCHANGED fdtab
             \/ fdtab' = [fdtab EXCEPT ![LowestFree] = Head(backlog)]
      PROVE  Closed(c)'
  <2>1. /\ Head(backlog) # c
        /\ \A i \in 1..Len(backlog') : backlog'[i] # c
    <3>1. backlog \in Seq(Conns) /\ Head(backlog) = backlog[1] /\ 1 \in 1..Len(backlog)
      BY <1>1, <1>7, HeadIndex, TailIndex DEF EpollTypeOK
    <3>2. \A i \in 1..Len(backlog') : i + 1 \in 1..Len(backlog) /\ backlog'[i] = backlog[i + 1]
      BY <1>7, <3>1, TailIndex
    <3> QED BY <1>3, <3>1, <3>2
  <2>2. \A f \in Fds : fdtab'[f] # c
    BY <1>1, <1>2, <1>7, <2>1 DEF EpollTypeOK, Open
  <2> QED BY <1>2, <1>7, <2>1, <2>2 DEF Closed, Waiting, Open
<1>8. CASE HandleListen
  BY <1>6, <1>7, <1>8 DEF HandleListen, AcceptFails, AcceptRefuses, Accept, AcceptAddFails,
     CannotAccept, net, kernel
<1>9. ASSUME NEW f \in Fds, HandleClient(f) PROVE Closed(c)'
  <2>1. CASE CloseOnError(f) \/ ReadEof(f)
    <3>1. /\ Take(f) /\ CloseSocket(f) /\ UNCHANGED <<peer, backlog>>
      BY <2>1 DEF CloseOnError, ReadEof, net
    <3>2. \A g \in Fds : fdtab'[g] = NULL \/ fdtab'[g] = fdtab[g]
      BY <3>1, CloseFacts
    <3>3. \A g \in Fds : fdtab'[g] # c
      BY <1>2, <3>2, ConnsAssumption DEF Open
    <3> QED BY <1>2, <3>1, <3>3 DEF Closed, Waiting, Open
  <2>2. CASE ReadData(f) \/ ReadNothing(f)
    BY <1>6, <2>2 DEF ReadData, ReadNothing, net, kernel
  <2> QED BY <1>9, <2>1, <2>2 DEF HandleClient
<1>10. CASE EpollWait
  BY <1>6, <1>10 DEF EpollWait, net
<1>11. CASE UNCHANGED epollVars
  BY <1>6, <1>11 DEF epollVars, net, kernel
<1> QED
  BY <1>4, <1>5, <1>8, <1>9, <1>10, <1>11 DEF EpollNext, EpollStep, ClientStep

\* A closed connection stays closed.
THEOREM ClosedForGood == EpollSpec => [][\A c \in Conns : Closed(c) => Closed(c)']_epollVars
<1>1. EpollInv /\ [EpollNext]_epollVars => [\A c \in Conns : Closed(c) => Closed(c)']_epollVars
  BY ClosedStep
<1> QED
  BY EpollInvariance, <1>1, PTL DEF EpollSpec

===============================================================================
