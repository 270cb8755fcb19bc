------------------------------ MODULE TulingProofs ------------------------------
(***************************************************************************)
(* What TulingApi guarantees for any number of threads, clients and        *)
(* questions: when memory is safe although all threads share the statics   *)
(* root, item and item2 without a lock, when a question is put to the      *)
(* service undisturbed, and that a client gets one answer, its own.  The   *)
(* steps between a fault and the end of the process are not modelled, so   *)
(* all of this is about what happens up to the fault.  At the end, for a   *)
(* message of any length: what the user id is the digest of.               *)
(***************************************************************************)
EXTENDS TulingApi, SequenceFacts

-------------------------------------------------------------------------------
(* The inductive invariant *)

Question == [n : Nat, fd : Fds]
Users == {UserId[f] : f \in Fds} \cup {NULL}
Access == [tree : Threads, parts : SUBSET {"text", "user"}, write : BOOLEAN]

\* The places where a thread is in the middle of an access, and those where it has a
\* question, or has initialised and not left.
AccessPcs == {"textDone", "userDone", "printed"}
BusyPcs == CallPcs \cup {"stalled"}
ServingPcs == BusyPcs \cup {"loop"}

Busy == {t \in Threads : pc[t] \in BusyPcs}

TypeOK ==
  /\ style \in {"queue", "client"}
  /\ pc \in [Threads -> {"start", "loop", "stalled", "release", "ended"} \cup InitPcs \cup CallPcs]
  /\ root \in Threads \cup {NULL} /\ item2 \in Threads \cup {NULL}
  /\ item \in ({"perception", "inputText"} \X Threads) \cup {NULL}
  /\ trees \in [Threads -> {"none", "live", "dead"}]
  /\ textIn \in [Threads -> Nat] /\ userIn \in [Threads -> Users]
  /\ using \in [Threads -> Access \cup {NULL}]
  /\ asked \in Nat /\ inbox \in Seq(Question)
  /\ task \in [Threads -> Question \cup {NULL}]
  /\ post \in [Threads -> [text : Nat, user : Users] \cup {NULL}]

\* Where a thread stands says what it holds, and which statics have been set.
PlacesOK ==
  \A t \in Threads :
    /\ pc[t] \in AccessPcs => using[t] \in Access
    /\ pc[t] \notin AccessPcs => using[t] = NULL
    /\ pc[t] \in BusyPcs => task[t] \in Question
    /\ pc[t] = "perform" => post[t] \in [text : Nat, user : Users]
    /\ pc[t] \in InitPcs \cup ServingPcs => root \in Threads
    /\ pc[t] \in ServingPcs => item2 \in Threads

\* A question is waiting, with one thread, or answered.
NumbersOK ==
  /\ \A i \in 1..Len(inbox) :
       /\ inbox[i].n <= asked
       /\ \A j \in 1..Len(inbox) : i # j => inbox[i].n # inbox[j].n
       /\ \A t \in Busy : inbox[i].n # task[t].n
       /\ \A r \in replies : inbox[i].n # r.n
  /\ \A t \in Busy :
       /\ task[t].n <= asked
       /\ \A u \in Busy : t # u => task[t].n # task[u].n
       /\ \A r \in replies : task[t].n # r.n
  /\ \A r \in replies : r.n \in 0..asked
  /\ \A r, s \in replies : r.n = s.n => r = s

\* No two calls overlap until two have met.
OneCaller == ~clashed => \A t, u \in Threads : InCall(t) /\ InCall(u) => t = u

\* As long as no thread releases a tree that is not its own alone, what the statics and
\* the accesses point to is not deleted.
MemoryOK ==
  ~releasedUnder =>
    /\ \A t \in Threads : Active(t) => root \in Threads /\ trees[root] # "dead"
    /\ \A t \in Threads : pc[t] \in {"found", "narrowed", "release"} \cup ServingPcs =>
         item = NULL \/ trees[item[2]] # "dead"
    /\ \A t \in Threads : pc[t] \in {"release"} \cup ServingPcs =>
         item2 \in Threads /\ trees[item2] # "dead"
    /\ \A t \in Threads : using[t] # NULL => trees[using[t].tree] # "dead"

\* As long as no two initialisations met, the statics belong together: while one is going
\* on, as far as it has come.
StaticsOK ==
  ~initRaced =>
    /\ \A t, u \in Threads : InInit(t) /\ InInit(u) => t = u
    /\ \A t \in Threads : pc[t] = "found" => item = <<"perception", root>>
    /\ \A t \in Threads : pc[t] = "narrowed" => item = <<"inputText", root>>
    /\ \A t \in Threads : pc[t] \in ServingPcs =>
         \/ \E u \in Threads : InInit(u)
         \/ item = <<"inputText", root>> /\ item2 = root

Undisturbed(t) == InCall(t) /\ task[t].n \notin overlapped

\* A call that met nothing is alone,
CallAlone ==
  \A t \in Threads : Undisturbed(t) =>
    \A u \in Threads \ {t} : ~InCall(u) /\ ~InInit(u)

\* and puts its own text and user in the tree that it prints.
CallOK ==
  ~initRaced =>
    \A t \in Threads : Undisturbed(t) =>
      /\ pc[t] \in AccessPcs => using[t].tree = root
      /\ pc[t] \in {"user", "userDone", "print", "printed"} => textIn[root] = task[t].n
      /\ pc[t] \in {"print", "printed"} => userIn[root] = UserId[task[t].fd]
      /\ pc[t] = "perform" => post[t] = [text |-> task[t].n, user |-> UserId[task[t].fd]]

AnswersOK ==
  \A r \in replies :
    (r.n \notin failed /\ r.answer.kind = "answer") =>
      \E p \in posted : p.n = r.n /\ p.text = r.answer.to

TulingInv ==
  /\ TypeOK /\ PlacesOK /\ NumbersOK /\ OneCaller /\ MemoryOK /\ StaticsOK /\ CallAlone /\ CallOK
  /\ FaultNeedsSharing /\ PostedUndisturbed /\ AnswersOK

-------------------------------------------------------------------------------
(* Types and places *)

\* RemoveAt takes one element out and keeps the order of the others.
LEMMA RemoveAtIndex ==
  ASSUME NEW S, NEW s \in Seq(S), NEW i \in 1..Len(s)
  PROVE  /\ RemoveAt(s, i) \in Seq(S)
         /\ Len(RemoveAt(s, i)) = Len(s) - 1
         /\ \A j \in 1..(Len(s) - 1) :
              RemoveAt(s, i)[j] = IF j < i THEN s[j] ELSE s[j + 1]
<1> DEFINE a == SubSeq(s, 1, i - 1)
           b == SubSeq(s, i + 1, Len(s))
<1>1. Len(s) \in Nat /\ i \in Nat \ {0}
  BY SeqNonEmpty
<1>2. /\ a \in Seq(S) /\ Len(a) = i - 1 /\ \A j \in 1..(i - 1) : a[j] = s[j]
  BY <1>1
<1>3. /\ b \in Seq(S) /\ Len(b) = Len(s) - i /\ \A j \in 1..(Len(s) - i) : b[j] = s[j + i]
  BY <1>1
<1> HIDE DEF a, b
<1>4. RemoveAt(s, i) = a \o b
  BY DEF RemoveAt, a, b
<1>5. /\ a \o b \in Seq(S) /\ Len(a \o b) = Len(s) - 1
      /\ \A j \in 1..(Len(s) - 1) : (a \o b)[j] = IF j <= i - 1 THEN a[j] ELSE b[j - (i - 1)]
  BY <1>1, <1>2, <1>3, ConcatProperties
<1>6. \A j \in 1..(Len(s) - 1) : (a \o b)[j] = IF j < i THEN s[j] ELSE s[j + 1]
  BY <1>1, <1>2, <1>3, <1>5, SMTT(60)
<1> QED
  BY <1>4, <1>5, <1>6

\* The question that a thread takes is the head of those it may take.
LEMMA TakeFacts ==
  ASSUME TypeOK, NEW t \in Threads, Take(t)
  PROVE  \E i \in 1..Len(inbox) :
           /\ task' = [task EXCEPT ![t] = inbox[i]] /\ inbox[i] \in Question
           /\ inbox' \in Seq(Question)
           /\ Len(inbox) \in Nat /\ Len(inbox') = Len(inbox) - 1
           /\ \A j \in 1..Len(inbox') : inbox'[j] = IF j < i THEN inbox[j] ELSE inbox[j + 1]
           /\ overlapped' =
                LET met == Meets(t) IN
                  IF met # {} \/ \E u \in Threads \ {t} : InInit(u)
                  THEN overlapped \cup met \cup {inbox[i].n} ELSE overlapped
<1> DEFINE i == CHOOSE j \in Mine(t) : \A k \in Mine(t) : j <= k
<1>1. inbox \in Seq(Question) /\ Mine(t) # {} /\ Mine(t) \subseteq 1..Len(inbox) /\ Len(inbox) \in Nat
  <2>1. inbox \in Seq(Question) /\ Mine(t) # {}
    BY DEF TypeOK, Take
  <2>2. DOMAIN inbox = 1..Len(inbox) /\ Len(inbox) \in Nat
    BY <2>1, SeqNonEmpty
  <2> QED BY <2>1, <2>2 DEF Mine
<1>2. i \in Mine(t)
  <2>1. \E j \in Mine(t) : \A k \in Mine(t) : j <= k
    BY <1>1, NatMinimum
  <2> QED BY <2>1
<1>3. /\ task' = [task EXCEPT ![t] = inbox[i]]
      /\ inbox' = RemoveAt(inbox, i)
      /\ overlapped' =
           LET met == Meets(t) IN
             IF met # {} \/ \E u \in Threads \ {t} : InInit(u)
             THEN overlapped \cup met \cup {inbox[i].n} ELSE overlapped
  BY DEF Take
<1> HIDE DEF i
<1>4. i \in 1..Len(inbox) /\ inbox[i] \in Question
  BY <1>1, <1>2, SeqNonEmpty
<1>5. /\ inbox' \in Seq(Question) /\ Len(inbox') = Len(inbox) - 1
      /\ \A j \in 1..Len(inbox') : inbox'[j] = IF j < i THEN inbox[j] ELSE inbox[j + 1]
  BY <1>1, <1>3, <1>4, RemoveAtIndex
<1> QED
  BY <1>1, <1>3, <1>4, <1>5

\* Types and places are kept by each step.  A client asks.
LEMMA AskTypes ==
  ASSUME TypeOK, PlacesOK, Ask
  PROVE  TypeOK' /\ PlacesOK'
<1>1. /\ UNCHANGED <<style, pc, root, item, item2, trees, textIn, userIn, using, task, post>>
      /\ asked' = asked + 1
      /\ \E f \in Fds : inbox' = Append(inbox, [n |-> asked + 1, fd |-> f])
  BY TulingAssumption DEF Ask, statics, memory
<1>2. inbox' \in Seq(Question)
  BY <1>1, AppendIndex DEF TypeOK, Question
<1> QED
  BY <1>1, <1>2 DEF TypeOK, PlacesOK

\* The steps of InitTulingApi.
LEMMA InitTypes ==
  ASSUME TypeOK, PlacesOK, NEW t \in Threads, InitStep(t)
  PROVE  TypeOK' /\ PlacesOK'
<1>1. UNCHANGED <<style, textIn, userIn, using, asked, inbox, task, post>>
  BY DEF InitStep, Parse, FindPerception, FindInputText, FindUserInfo, memory, work
<1>2. root \in Threads \/ pc[t] = "start"
  BY DEF InitStep, Parse, FindPerception, FindInputText, FindUserInfo, PlacesOK, InitPcs
<1>3. TypeOK'
  <2> USE DEF Goto, InitPcs, statics, memory
  <2>1. CASE Parse(t)
    BY <1>1, <2>1 DEF Parse, TypeOK
  <2>2. CASE FindPerception(t)
    <3>1. <<"perception", root>> \in {"perception", "inputText"} \X Threads
      BY <1>2, <2>2 DEF FindPerception
    <3> QED BY <1>1, <2>2, <3>1 DEF FindPerception, TypeOK
  <2>3. CASE FindInputText(t)
    <3>1. item' \in ({"perception", "inputText"} \X Threads) \cup {NULL}
      BY <2>3 DEF FindInputText, TypeOK
    <3> QED BY <1>1, <2>3, <3>1 DEF FindInputText, TypeOK
  <2>4. CASE FindUserInfo(t)
    BY <1>1, <1>2, <2>4 DEF FindUserInfo, TypeOK
  <2> QED BY <2>1, <2>2, <2>3, <2>4 DEF InitStep
<1>4. PlacesOK'
  BY <1>1, <1>2 DEF InitStep, Parse, FindPerception, FindInputText, FindUserInfo, TypeOK, Goto,
     InitPcs, CallPcs, AccessPcs, BusyPcs, ServingPcs, PlacesOK, statics, memory
<1> QED
  BY <1>3, <1>4

\* The steps of CallTulingApi, from the question to the reply.
LEMMA CallTypes ==
  ASSUME TypeOK, PlacesOK, NEW t \in Threads, CallStep(t)
  PROVE  TypeOK' /\ PlacesOK'
<1> USE DEF Goto, CallPcs, AccessPcs, BusyPcs, ServingPcs
<1>1. CASE Take(t)
  <2>1. /\ pc[t] = "loop" /\ pc' = [pc EXCEPT ![t] = "text"]
        /\ UNCHANGED <<style, root, item, item2, trees, textIn, userIn, using, asked, post>>
    BY <1>1 DEF Take, statics, memory
  <2>2. PICK q \in Question : task' = [task EXCEPT ![t] = q] /\ inbox' \in Seq(Question)
    BY <1>1, TakeFacts
  <2>3. TypeOK'
    BY <2>1, <2>2 DEF TypeOK
  <2>4. PlacesOK'
    BY <2>1, <2>2 DEF TypeOK, PlacesOK
  <2> QED BY <2>3, <2>4
<1>2. ASSUME NEW a \in Access, NEW l \in AccessPcs, Begin(t, a, l), pc[t] \in {"text", "user", "print"}
      PROVE  TypeOK' /\ PlacesOK'
  <2>1. /\ pc' = [pc EXCEPT ![t] = l] /\ using' = [using EXCEPT ![t] = a]
        /\ UNCHANGED <<style, root, item, item2, trees, textIn, userIn, asked, inbox, task, post>>
    BY <1>2 DEF Begin, statics, work
  <2>2. TypeOK'
    BY <2>1 DEF TypeOK
  <2>3. PlacesOK'
    BY <1>2, <2>1 DEF TypeOK, PlacesOK
  <2> QED BY <2>2, <2>3
<1>3. CASE ReplaceText(t)
  <2>1. CASE item # NULL /\ item[1] = "inputText"
    <3>1. [tree |-> item[2], parts |-> {"text"}, write |-> TRUE] \in Access
      BY <2>1 DEF TypeOK, Access
    <3> QED BY <1>2, <1>3, <2>1, <3>1 DEF ReplaceText
  <2>2. CASE ~(item # NULL /\ item[1] = "inputText")
    <3>1. /\ pc[t] = "text" /\ pc' = [pc EXCEPT ![t] = "user"]
          /\ UNCHANGED <<style, root, item, item2, trees, textIn, userIn, using, asked, inbox, task, post>>
      BY <1>3, <2>2 DEF ReplaceText, statics, memory, work
    <3>2. TypeOK'
      BY <3>1 DEF TypeOK
    <3>3. PlacesOK'
      BY <3>1 DEF TypeOK, PlacesOK
    <3> QED BY <3>2, <3>3
  <2> QED BY <2>1, <2>2
<1>4. CASE ReplaceUser(t) \/ PrintRoot(t)
  <2>1. pc[t] \in {"user", "print"} /\ root \in Threads /\ item2 \in Threads
    BY <1>4 DEF ReplaceUser, PrintRoot, PlacesOK
  <2>2. /\ [tree |-> item2, parts |-> {"user"}, write |-> TRUE] \in Access
        /\ [tree |-> root, parts |-> {"text", "user"}, write |-> FALSE] \in Access
    BY <2>1 DEF Access
  <2> QED BY <1>2, <1>4, <2>1, <2>2 DEF ReplaceUser, PrintRoot
<1>5. CASE TextReplaced(t) \/ UserReplaced(t) \/ Printed(t)
  <2>1. using[t] \in Access /\ task[t] \in Question /\ using[t].tree \in Threads
        /\ task[t].n \in Nat /\ task[t].fd \in Fds
    BY <1>5 DEF TextReplaced, UserReplaced, Printed, PlacesOK, Access, Question
  <2>2. UserId[task[t].fd] \in Users
    BY <2>1 DEF Users
  <2>3. /\ using' = [using EXCEPT ![t] = NULL]
        /\ UNCHANGED <<style, root, item, item2, trees, asked, inbox, task>>
    BY <1>5 DEF TextReplaced, UserReplaced, Printed, statics, work
  <2>4. CASE TextReplaced(t)
    <3>1. /\ pc[t] = "textDone" /\ pc' = [pc EXCEPT ![t] = "user"] /\ UNCHANGED <<userIn, post>>
          /\ textIn' = [textIn EXCEPT ![using[t].tree] = task[t].n]
      BY <2>4 DEF TextReplaced, work
    <3>2. TypeOK'
      BY <2>1, <2>3, <3>1 DEF TypeOK
    <3>3. PlacesOK'
      BY <2>3, <3>1 DEF TypeOK, PlacesOK
    <3> QED BY <3>2, <3>3
  <2>5. CASE UserReplaced(t)
    <3>1. /\ pc[t] = "userDone" /\ pc' = [pc EXCEPT ![t] = "print"] /\ UNCHANGED <<textIn, post>>
          /\ userIn' = [userIn EXCEPT ![using[t].tree] = UserId[task[t].fd]]
      BY <2>5 DEF UserReplaced, work
    <3>2. TypeOK'
      BY <2>1, <2>2, <2>3, <3>1 DEF TypeOK
    <3>3. PlacesOK'
      BY <2>3, <3>1 DEF TypeOK, PlacesOK
    <3> QED BY <3>2, <3>3
  <2>6. CASE Printed(t)
    <3> DEFINE p == [text |-> textIn[using[t].tree], user |-> userIn[using[t].tree]]
    <3>1. /\ pc[t] = "printed" /\ pc' = [pc EXCEPT ![t] = "perform"] /\ UNCHANGED <<textIn, userIn>>
          /\ post' = [post EXCEPT ![t] = p]
      BY <2>6 DEF Printed
    <3>2. p \in [text : Nat, user : Users]
      BY <2>1 DEF TypeOK
    <3> HIDE DEF p
    <3>3. TypeOK'
      BY <2>3, <3>1, <3>2 DEF TypeOK
    <3>4. PlacesOK'
      BY <2>3, <3>1, <3>2 DEF TypeOK, PlacesOK
    <3> QED BY <3>3, <3>4
  <2> QED BY <1>5, <2>4, <2>5, <2>6
<1>6. CASE Answered(t) \/ NotUnderstood(t) \/ TransferFails(t)
  <2>1. /\ pc' = [pc EXCEPT ![t] = "loop"] /\ task' = [task EXCEPT ![t] = NULL]
        /\ post' = [post EXCEPT ![t] = NULL] /\ pc[t] = "perform"
        /\ UNCHANGED <<style, root, item, item2, trees, textIn, userIn, using, asked, inbox>>
    BY <1>6 DEF Answered, NotUnderstood, TransferFails, Reply, statics, memory
  <2>2. TypeOK'
    BY <2>1 DEF TypeOK
  <2>3. PlacesOK'
    BY <2>1 DEF TypeOK, PlacesOK
  <2> QED BY <2>2, <2>3
<1> QED
  BY <1>1, <1>3, <1>4, <1>5, <1>6 DEF CallStep

\* A transfer that stalls, a client that leaves, and ReleaseTulingApi.
LEMMA EndTypes ==
  ASSUME TypeOK, PlacesOK, NEW t \in Threads, Stall(t) \/ Leave(t) \/ Release(t)
  PROVE  TypeOK' /\ PlacesOK'
<1> USE DEF Goto, CallPcs, AccessPcs, BusyPcs, ServingPcs
<1>1. /\ UNCHANGED <<style, root, item, item2, textIn, userIn, using, asked, inbox, task, post>>
      /\ \/ pc[t] = "perform" /\ pc' = [pc EXCEPT ![t] = "stalled"]
         \/ pc[t] \in {"start", "loop"} /\ pc' = [pc EXCEPT ![t] = "release"]
         \/ pc[t] = "release" /\ pc' = [pc EXCEPT ![t] = "ended"]
      /\ trees' = trees \/ (root \in Threads /\ trees' = [trees EXCEPT ![root] = "dead"])
  BY DEF Stall, Leave, Release, statics, memory, work, TypeOK
<1>2. TypeOK'
  BY <1>1 DEF TypeOK
<1>3. PlacesOK'
  BY <1>1 DEF TypeOK, PlacesOK, InitPcs
<1> QED
  BY <1>2, <1>3

-------------------------------------------------------------------------------
(* Each question once *)

Accesses(t) ==
  ReplaceText(t) \/ TextReplaced(t) \/ ReplaceUser(t) \/ UserReplaced(t) \/ PrintRoot(t) \/ Printed(t)
Replies(t) == Answered(t) \/ NotUnderstood(t) \/ TransferFails(t)

\* The steps other than taking a question and replying leave the questions where they are.
LEMMA QuietSteps ==
  ASSUME TypeOK, NEW t \in Threads,
         InitStep(t) \/ Accesses(t) \/ Stall(t) \/ Leave(t) \/ Release(t)
  PROVE  UNCHANGED <<asked, inbox, task, posted, replies>> /\ Busy' = Busy
<1> USE DEF Goto
<1>1. CASE InitStep(t)
  <2>1. /\ UNCHANGED <<asked, inbox, task, posted, replies>>
        /\ pc[t] \in {"start", "parsed", "found", "narrowed"}
        /\ \E l \in {"parsed", "found", "narrowed", "loop"} : pc' = [pc EXCEPT ![t] = l]
    BY <1>1 DEF InitStep, Parse, FindPerception, FindInputText, FindUserInfo, work
  <2> QED BY <2>1 DEF TypeOK, Busy, BusyPcs, CallPcs
<1>2. CASE Accesses(t)
  <2>1. /\ UNCHANGED <<asked, inbox, task, posted, replies>>
        /\ pc[t] \in CallPcs /\ \E l \in CallPcs : pc' = [pc EXCEPT ![t] = l]
    BY <1>2 DEF Accesses, ReplaceText, TextReplaced, ReplaceUser, UserReplaced, PrintRoot, Printed,
       Begin, work, CallPcs
  <2> QED BY <2>1 DEF TypeOK, Busy, BusyPcs
<1>3. CASE Stall(t) \/ Leave(t) \/ Release(t)
  <2>1. /\ UNCHANGED <<asked, inbox, task, posted, replies>>
        /\ \/ pc[t] = "perform" /\ pc' = [pc EXCEPT ![t] = "stalled"]
           \/ pc[t] \in {"start", "loop", "release"}
              /\ \E l \in {"release", "ended"} : pc' = [pc EXCEPT ![t] = l]
    BY <1>3 DEF Stall, Leave, Release, work
  <2> QED BY <2>1 DEF TypeOK, Busy, BusyPcs, CallPcs
<1> QED
  BY <1>1, <1>2, <1>3

\* A question that is asked, taken or answered stays one question.
LEMMA NumbersStep ==
  ASSUME TypeOK, PlacesOK, NumbersOK,
         Ask \/ \E t \in Threads : ThreadStep(t) \/ Stall(t) \/ Leave(t)
  PROVE  NumbersOK'
<1>1. /\ Len(inbox) \in Nat /\ \A i \in 1..Len(inbox) : inbox[i] \in Question
      /\ \A q \in Question : q.n \in Nat
      /\ asked \in Nat /\ \A t \in Busy : t \in Threads /\ task[t] \in Question
  BY SeqNonEmpty DEF TypeOK, PlacesOK, Question, Busy
<1>2. CASE Ask
  <2>1. /\ asked' = asked + 1 /\ UNCHANGED <<task, replies>> /\ Busy' = Busy
        /\ \E f \in Fds : inbox' = Append(inbox, [n |-> asked + 1, fd |-> f])
    BY <1>2, TulingAssumption DEF Ask, Busy
  <2>2. PICK f \in Fds : inbox' = Append(inbox, [n |-> asked + 1, fd |-> f])
    BY <2>1
  <2> DEFINE q == [n |-> asked + 1, fd |-> f]
  <2>3. q \in Question /\ q.n = asked + 1
    BY <1>1 DEF Question
  <2> HIDE DEF q
  <2>4. inbox \in Seq(Question) /\ inbox' = Append(inbox, q)
    BY <2>2 DEF TypeOK, q
  <2>5. \A i \in 1..Len(inbox') : \/ i \in 1..Len(inbox) /\ inbox'[i] = inbox[i]
                                  \/ i = Len(inbox) + 1 /\ inbox'[i] = q
    BY <1>1, <2>3, <2>4, AppendIndex
  <2>6. /\ \A i \in 1..Len(inbox) : inbox[i].n < asked + 1
        /\ \A t \in Busy : task[t].n < asked + 1
        /\ \A r \in replies : r.n # asked + 1 /\ r.n \in 0..asked + 1
    <3>1. \A r \in replies : r.n \in 0..asked => r.n # asked + 1 /\ r.n \in 0..asked + 1
      BY <1>1
    <3> QED BY <1>1, <3>1 DEF NumbersOK
  <2> QED BY <1>1, <2>1, <2>3, <2>5, <2>6 DEF NumbersOK
<1>3. ASSUME NEW t \in Threads, Take(t) PROVE NumbersOK'
  <2>1. PICK i \in 1..Len(inbox) :
          /\ task' = [task EXCEPT ![t] = inbox[i]]
          /\ Len(inbox') = Len(inbox) - 1
          /\ \A j \in 1..Len(inbox') : inbox'[j] = IF j < i THEN inbox[j] ELSE inbox[j + 1]
    BY <1>3, TakeFacts
  <2>2. /\ UNCHANGED <<asked, replies>> /\ pc[t] = "loop" /\ pc' = [pc EXCEPT ![t] = "text"]
    BY <1>3 DEF Take, Goto
  <2>3. Busy' = Busy \cup {t} /\ t \notin Busy
    BY <2>2 DEF TypeOK, Busy, BusyPcs, CallPcs
  <2>4. task'[t] = inbox[i] /\ \A u \in Busy : task'[u] = task[u]
    BY <1>1, <2>1, <2>3 DEF TypeOK
  <2>5. /\ \A j \in 1..Len(inbox') : \E k \in 1..Len(inbox) \ {i} : inbox'[j] = inbox[k]
        /\ \A j, k \in 1..Len(inbox') : j # k =>
             \E l, m \in 1..Len(inbox) : l # m /\ inbox'[j] = inbox[l] /\ inbox'[k] = inbox[m]
    <3> DEFINE at(j) == IF j < i THEN j ELSE j + 1
    <3>1. \A j \in 1..Len(inbox') : at(j) \in 1..Len(inbox) \ {i} /\ inbox'[j] = inbox[at(j)]
      BY <1>1, <2>1
    <3>2. \A j, k \in 1..Len(inbox') : j # k => at(j) # at(k)
      BY <1>1
    <3> HIDE DEF at
    <3> QED BY <3>1, <3>2
  <2>6. /\ \A j \in 1..Len(inbox') :
             /\ inbox'[j].n <= asked
             /\ \A k \in 1..Len(inbox') : j # k => inbox'[j].n # inbox'[k].n
             /\ \A u \in Busy \cup {t} : inbox'[j].n # task'[u].n
             /\ \A r \in replies : inbox'[j].n # r.n
    <3> SUFFICES ASSUME NEW j \in 1..Len(inbox')
                 PROVE  /\ inbox'[j].n <= asked
                        /\ \A k \in 1..Len(inbox') : j # k => inbox'[j].n # inbox'[k].n
                        /\ \A u \in Busy \cup {t} : inbox'[j].n # task'[u].n
                        /\ \A r \in replies : inbox'[j].n # r.n
      OBVIOUS
    <3>1. PICK k \in 1..Len(inbox) \ {i} : inbox'[j] = inbox[k]
      BY <2>5
    <3>2. /\ inbox[k].n <= asked /\ inbox[k].n # inbox[i].n
          /\ \A u \in Busy : inbox[k].n # task[u].n
          /\ \A r \in replies : inbox[k].n # r.n
      BY DEF NumbersOK
    <3>3. ASSUME NEW l \in 1..Len(inbox'), j # l PROVE inbox'[j].n # inbox'[l].n
      <4>1. PICK x, y \in 1..Len(inbox) : x # y /\ inbox'[j] = inbox[x] /\ inbox'[l] = inbox[y]
        BY <2>5, <3>3
      <4>2. inbox[x].n # inbox[y].n
        BY <4>1 DEF NumbersOK
      <4> QED BY <4>1, <4>2
    <3> QED BY <2>4, <3>1, <3>2, <3>3
  <2>7. \A u \in Busy \cup {t} :
          /\ task'[u].n <= asked
          /\ \A v \in Busy \cup {t} : u # v => task'[u].n # task'[v].n
          /\ \A r \in replies : task'[u].n # r.n
    BY <2>4 DEF NumbersOK
  <2> QED BY <2>2, <2>3, <2>6, <2>7 DEF NumbersOK
<1>4. ASSUME NEW t \in Threads, Replies(t) PROVE NumbersOK'
  <2>1. /\ UNCHANGED <<asked, inbox>> /\ pc[t] = "perform" /\ pc' = [pc EXCEPT ![t] = "loop"]
        /\ task' = [task EXCEPT ![t] = NULL]
        /\ \E a : replies' = replies \cup {[n |-> task[t].n, answer |-> a]}
    BY <1>4 DEF Replies, Answered, NotUnderstood, TransferFails, Reply, Goto
  <2>2. PICK a : replies' = replies \cup {[n |-> task[t].n, answer |-> a]}
    BY <2>1
  <2>3. t \in Busy /\ Busy' = Busy \ {t} /\ \A u \in Busy' : task'[u] = task[u]
    BY <1>1, <2>1 DEF TypeOK, Busy, BusyPcs, CallPcs
  <2>4. \A r \in replies' : r \in replies \/ (r = [n |-> task[t].n, answer |-> a] /\ r.n = task[t].n)
    BY <2>2
  <2>5. task[t].n \in 0..asked
    BY <1>1, <2>3 DEF NumbersOK
  <2>6. \A r \in replies' : r.n \in 0..asked
    BY <2>4, <2>5 DEF NumbersOK
  <2>7. \A r, s \in replies' : r.n = s.n => r = s
    BY <2>3, <2>4 DEF NumbersOK
  <2>8. \A u \in Busy' : /\ task'[u].n <= asked
                         /\ \A v \in Busy' : u # v => task'[u].n # task'[v].n
                         /\ \A r \in replies' : task'[u].n # r.n
    BY <2>3, <2>4 DEF NumbersOK
  <2>9. \A i \in 1..Len(inbox) :
          /\ inbox[i].n <= asked
          /\ \A j \in 1..Len(inbox) : i # j => inbox[i].n # inbox[j].n
          /\ \A u \in Busy' : inbox[i].n # task'[u].n
          /\ \A r \in replies' : inbox[i].n # r.n
    BY <2>3, <2>4 DEF NumbersOK
  <2> QED BY <2>1, <2>6, <2>7, <2>8, <2>9 DEF NumbersOK
<1>5. ASSUME NEW t \in Threads, InitStep(t) \/ Accesses(t) \/ Stall(t) \/ Leave(t) \/ Release(t)
      PROVE  NumbersOK'
  BY <1>5, QuietSteps DEF NumbersOK
<1> QED
  BY <1>2, <1>3, <1>4, <1>5 DEF ThreadStep, CallStep, Accesses, Replies

-------------------------------------------------------------------------------
(* Overlapping calls, and memory *)

\* What has happened has happened.
LEMMA HistoryGrows ==
  ASSUME Ask \/ \E t \in Threads : ThreadStep(t) \/ Stall(t) \/ Leave(t)
  PROVE  /\ overlapped \subseteq overlapped' /\ failed \subseteq failed' /\ posted \subseteq posted'
         /\ ~clashed' => ~clashed
         /\ ~initRaced' => ~initRaced
         /\ ~releasedUnder' => ~releasedUnder
<1>1. CASE Ask
  BY <1>1 DEF Ask, history
<1>2. ASSUME NEW t \in Threads, InitStep(t)
      PROVE  /\ overlapped \subseteq overlapped' /\ UNCHANGED <<clashed, releasedUnder, failed, posted>>
             /\ ~initRaced' => ~initRaced
  <2>1. CASE Parse(t)
    <3>1. overlapped' = overlapped \cup Meets(t) /\ UNCHANGED <<clashed, releasedUnder, failed, posted>>
      BY <2>1 DEF Parse, work
    <3>2. initRaced' = (initRaced \/ \E u \in Threads \ {t} : InInit(u))
      BY <2>1 DEF Parse
    <3>3. ~initRaced' => ~initRaced
      BY <3>2
    <3> QED BY <3>1, <3>3
  <2>2. CASE FindPerception(t) \/ FindInputText(t) \/ FindUserInfo(t)
    BY <2>2 DEF FindPerception, FindInputText, FindUserInfo, history, work
  <2> QED BY <1>2, <2>1, <2>2 DEF InitStep
<1>3. ASSUME NEW t \in Threads, Take(t)
      PROVE  /\ overlapped \subseteq overlapped' /\ UNCHANGED <<initRaced, releasedUnder, failed, posted>>
             /\ ~clashed' => ~clashed
  BY <1>3 DEF Take
<1>4. ASSUME NEW t \in Threads, Accesses(t) \/ Stall(t)
      PROVE  UNCHANGED <<overlapped, clashed, initRaced, releasedUnder, failed, posted>>
  BY <1>4 DEF Accesses, ReplaceText, TextReplaced, ReplaceUser, UserReplaced, PrintRoot, Printed,
     Begin, Stall, work, history
<1>5. ASSUME NEW t \in Threads, Replies(t)
      PROVE  /\ UNCHANGED <<overlapped, clashed, initRaced, releasedUnder>>
             /\ posted \subseteq posted' /\ failed \subseteq failed'
  BY <1>5 DEF Replies, Answered, NotUnderstood, TransferFails, Posted, Reply
<1>6. ASSUME NEW t \in Threads, Leave(t) \/ Release(t)
      PROVE  /\ UNCHANGED <<overlapped, clashed, initRaced, failed, posted>>
             /\ ~releasedUnder' => ~releasedUnder
  BY <1>6 DEF Leave, Release, work
<1> QED
  BY <1>1, <1>2, <1>3, <1>4, <1>5, <1>6 DEF ThreadStep, CallStep, Accesses, Replies

\* How each kind of step moves its thread, and which statics it leaves alone.
LEMMA Moves ==
  ASSUME TypeOK, NEW t \in Threads
  PROVE  /\ ThreadStep(t) \/ Stall(t) \/ Leave(t) =>
              \A u \in Threads \ {t} : pc'[u] = pc[u] /\ using'[u] = using[u] /\ task'[u] = task[u]
         /\ Parse(t) => pc[t] = "start" /\ pc'[t] = "parsed"
         /\ FindPerception(t) => pc[t] = "parsed" /\ pc'[t] = "found"
         /\ FindInputText(t) => pc[t] = "found" /\ pc'[t] = "narrowed"
         /\ FindUserInfo(t) => pc[t] = "narrowed" /\ pc'[t] = "loop"
         /\ Take(t) => pc[t] = "loop" /\ pc'[t] = "text"
         /\ Accesses(t) => /\ pc[t] \in CallPcs /\ pc'[t] \in CallPcs
                           /\ UNCHANGED <<root, item, item2, trees, task, overlapped, initRaced>>
         /\ Replies(t) => pc[t] = "perform" /\ pc'[t] = "loop"
         /\ Stall(t) => pc[t] = "perform" /\ pc'[t] = "stalled"
         /\ Leave(t) => pc[t] \in {"start", "loop"} /\ pc'[t] = "release"
         /\ Release(t) => pc[t] = "release" /\ pc'[t] = "ended"
<1> USE DEF Goto
<1>1. /\ pc \in [Threads -> {"start", "loop", "stalled", "release", "ended"} \cup InitPcs \cup CallPcs]
      /\ using \in [Threads -> Access \cup {NULL}] /\ task \in [Threads -> Question \cup {NULL}]
  BY DEF TypeOK
<1>2. ASSUME InitStep(t)
      PROVE  /\ UNCHANGED <<using, task>> /\ pc' = [pc EXCEPT ![t] = pc'[t]]
             /\ Parse(t) => pc[t] = "start" /\ pc'[t] = "parsed"
             /\ FindPerception(t) => pc[t] = "parsed" /\ pc'[t] = "found"
             /\ FindInputText(t) => pc[t] = "found" /\ pc'[t] = "narrowed"
             /\ FindUserInfo(t) => pc[t] = "narrowed" /\ pc'[t] = "loop"
  BY <1>1, <1>2 DEF InitStep, Parse, FindPerception, FindInputText, FindUserInfo, memory, work
<1>3. ASSUME Take(t)
      PROVE  /\ pc' = [pc EXCEPT ![t] = "text"] /\ pc[t] = "loop" /\ using' = using
             /\ \A u \in Threads \ {t} : task'[u] = task[u]
  <2>1. pc' = [pc EXCEPT ![t] = "text"] /\ pc[t] = "loop" /\ using' = using
    BY <1>3 DEF Take, memory
  <2> QED BY <1>1, <1>3, <2>1, TakeFacts
<1>4. ASSUME Accesses(t)
      PROVE  /\ pc[t] \in CallPcs /\ \E l \in CallPcs : pc' = [pc EXCEPT ![t] = l]
             /\ \A u \in Threads \ {t} : using'[u] = using[u]
             /\ UNCHANGED <<root, item, item2, trees, task, overlapped, initRaced>>
  BY <1>1, <1>4 DEF Accesses, ReplaceText, TextReplaced, ReplaceUser, UserReplaced, PrintRoot, Printed,
     Begin, statics, memory, work, history, CallPcs
<1>5. ASSUME Replies(t)
      PROVE  /\ pc' = [pc EXCEPT ![t] = "loop"] /\ pc[t] = "perform" /\ using' = using
             /\ task' = [task EXCEPT ![t] = NULL]
  BY <1>5 DEF Replies, Answered, NotUnderstood, TransferFails, Reply, memory
<1>6. ASSUME Stall(t) \/ Leave(t) \/ Release(t)
      PROVE  /\ UNCHANGED <<using, task>>
             /\ Stall(t) => pc' = [pc EXCEPT ![t] = "stalled"] /\ pc[t] = "perform"
             /\ Leave(t) => pc' = [pc EXCEPT ![t] = "release"] /\ pc[t] \in {"start", "loop"}
             /\ Release(t) => pc' = [pc EXCEPT ![t] = "ended"] /\ pc[t] = "release"
  BY <1>6 DEF Stall, Leave, Release, memory, work
<1>7. ASSUME NEW l, pc' = [pc EXCEPT ![t] = l] PROVE pc'[t] = l /\ \A u \in Threads \ {t} : pc'[u] = pc[u]
  BY <1>1, <1>7
<1>8. ThreadStep(t) => InitStep(t) \/ Take(t) \/ Accesses(t) \/ Replies(t) \/ Release(t)
  BY DEF ThreadStep, CallStep, Accesses, Replies
<1>9. /\ InitStep(t) \/ Take(t) \/ Accesses(t) \/ Replies(t) \/ Stall(t) \/ Leave(t) \/ Release(t) =>
           \A u \in Threads \ {t} : pc'[u] = pc[u]
      /\ InitStep(t) \/ Take(t) \/ Accesses(t) \/ Replies(t) \/ Stall(t) \/ Leave(t) \/ Release(t) =>
           \A u \in Threads \ {t} : using'[u] = using[u] /\ task'[u] = task[u]
  BY <1>1, <1>2, <1>3, <1>4, <1>5, <1>6, <1>7
<1>10. /\ Accesses(t) => pc'[t] \in CallPcs
       /\ Take(t) => pc'[t] = "text"
       /\ Replies(t) => pc'[t] = "loop"
       /\ Stall(t) => pc'[t] = "stalled"
       /\ Leave(t) => pc'[t] = "release"
       /\ Release(t) => pc'[t] = "ended"
  BY <1>3, <1>4, <1>5, <1>6, <1>7
<1> QED
  BY <1>2, <1>3, <1>4, <1>5, <1>6, <1>8, <1>9, <1>10 DEF InitStep

\* Two calls overlap only after one has met another.
LEMMA OneCallerStep ==
  ASSUME TypeOK, OneCaller, NEW t \in Threads, ThreadStep(t) \/ Stall(t) \/ Leave(t)
  PROVE  OneCaller'
<1> USE DEF InCall
<1>1. \A u \in Threads \ {t} : pc'[u] = pc[u]
  BY Moves
<1>2. ~clashed' => ~clashed
  BY HistoryGrows
<1>3. CASE Take(t)
  <2>1. ~clashed' => \A u \in Threads \ {t} : ~InCall(u)
    BY <1>3 DEF Take, Meets
  <2> QED BY <1>1, <2>1 DEF OneCaller
<1>4. CASE ~Take(t)
  <2>1. pc'[t] \in CallPcs => pc[t] \in CallPcs
    BY <1>4, Moves DEF ThreadStep, InitStep, CallStep, Accesses, Replies, CallPcs
  <2> QED BY <1>1, <1>2, <2>1 DEF OneCaller
<1> QED
  BY <1>3, <1>4

\* The access that a thread begins is to a tree that is not deleted, and the end of an
\* access leaves none.
LEMMA AccessTrees ==
  ASSUME TypeOK, PlacesOK, MemoryOK, ~releasedUnder, NEW t \in Threads, Accesses(t)
  PROVE  using'[t] # NULL => trees'[using'[t].tree] # "dead"
<1>1. /\ root \in Threads /\ trees[root] # "dead" /\ trees[item2] # "dead"
      /\ item = NULL \/ trees[item[2]] # "dead"
      /\ using[t] # NULL => trees[using[t].tree] # "dead"
  <2>1. pc[t] \in CallPcs
    BY Moves
  <2> QED BY <2>1 DEF MemoryOK, Active, ServingPcs, BusyPcs, CallPcs
<1>2. trees' = trees /\ using \in [Threads -> Access \cup {NULL}]
  BY Moves DEF TypeOK
<1>3. ASSUME NEW a, NEW l, Begin(t, a, l), trees[a.tree] # "dead"
      PROVE  using'[t] # NULL => trees'[using'[t].tree] # "dead"
  BY <1>2, <1>3 DEF Begin
<1>4. CASE ReplaceText(t) /\ item # NULL /\ item[1] = "inputText"
  BY <1>1, <1>3, <1>4 DEF ReplaceText
<1>5. CASE ReplaceText(t) /\ ~(item # NULL /\ item[1] = "inputText")
  BY <1>1, <1>2, <1>5 DEF ReplaceText, memory
<1>6. CASE ReplaceUser(t) \/ PrintRoot(t)
  BY <1>1, <1>3, <1>6 DEF ReplaceUser, PrintRoot
<1>7. CASE TextReplaced(t) \/ UserReplaced(t) \/ Printed(t)
  BY <1>2, <1>7 DEF TextReplaced, UserReplaced, Printed
<1> QED
  BY <1>4, <1>5, <1>6, <1>7 DEF Accesses

\* Deleting a tree that is one's own alone takes it from nobody.
LEMMA MemoryStep ==
  ASSUME TypeOK, PlacesOK, MemoryOK, NEW t \in Threads, ThreadStep(t) \/ Stall(t) \/ Leave(t)
  PROVE  MemoryOK'
<1> SUFFICES ASSUME ~releasedUnder' PROVE MemoryOK'
  BY DEF MemoryOK
<1>1. ~releasedUnder
  BY HistoryGrows
<1>2. \A u \in Threads \ {t} : pc'[u] = pc[u] /\ using'[u] = using[u]
  BY Moves
<1>3. /\ \A u \in Threads : Active(u) => root \in Threads /\ trees[root] # "dead"
      /\ \A u \in Threads : pc[u] \in {"found", "narrowed", "release"} \cup ServingPcs =>
           item = NULL \/ trees[item[2]] # "dead"
      /\ \A u \in Threads : pc[u] \in {"release"} \cup ServingPcs =>
           item2 \in Threads /\ trees[item2] # "dead"
      /\ \A u \in Threads : using[u] # NULL => trees[using[u].tree] # "dead"
  BY <1>1 DEF MemoryOK
<1>4. /\ trees \in [Threads -> {"none", "live", "dead"}]
      /\ item \in ({"perception", "inputText"} \X Threads) \cup {NULL}
      /\ using \in [Threads -> Access \cup {NULL}] /\ \A a \in Access : a.tree \in Threads
  BY DEF TypeOK, Access
<1> USE DEF Active
<1>5. CASE Parse(t)
  <2>1. /\ pc'[t] = "parsed" /\ root' = t /\ trees' = [trees EXCEPT ![t] = "live"]
        /\ UNCHANGED <<item, item2, using>>
    BY <1>5, Moves DEF Parse
  <2>2. \A x \in Threads : trees[x] # "dead" => trees'[x] # "dead"
    BY <1>4, <2>1
  <2>3. trees'[root'] # "dead" /\ root' \in Threads
    BY <1>4, <2>1
  <2>4. item = NULL \/ item[2] \in Threads
    BY <1>4
  <2>5. \A u \in Threads : pc'[u] \in {"found", "narrowed", "release"} \cup ServingPcs => pc'[u] = pc[u]
    BY <1>2, <2>1 DEF ServingPcs, BusyPcs, CallPcs
  <2> QED BY <1>3, <1>4, <2>1, <2>2, <2>3, <2>4, <2>5 DEF MemoryOK
<1>6. CASE FindPerception(t) \/ FindInputText(t) \/ FindUserInfo(t)
  <2>1. /\ UNCHANGED <<root, trees, using>> /\ Active(t)
        /\ pc'[t] \in {"found", "narrowed", "loop"}
    BY <1>6, Moves DEF FindPerception, FindInputText, FindUserInfo, memory
  <2>2. root \in Threads /\ trees[root] # "dead"
    BY <1>3, <2>1
  <2>3. CASE FindPerception(t)
    <3>1. item' = <<"perception", root>> /\ item2' = item2 /\ pc'[t] = "found"
      BY <2>3, Moves DEF FindPerception
    <3>2. item'[2] = root
      BY <3>1
    <3>3. \A u \in Threads : pc'[u] \in {"release"} \cup ServingPcs => pc'[u] = pc[u]
      BY <1>2, <3>1 DEF ServingPcs, BusyPcs, CallPcs
    <3> QED BY <1>2, <1>3, <2>1, <2>2, <3>1, <3>2, <3>3 DEF MemoryOK
  <2>4. CASE FindInputText(t)
    <3>1. /\ pc[t] = "found" /\ pc'[t] = "narrowed" /\ item2' = item2
          /\ item' = NULL \/ (item # NULL /\ item' = <<"inputText", item[2]>>)
      BY <2>4, Moves DEF FindInputText
    <3>2. item' = NULL \/ trees[item'[2]] # "dead"
      BY <1>3, <3>1
    <3>3. \A u \in Threads : pc'[u] \in {"release"} \cup ServingPcs => pc'[u] = pc[u]
      BY <1>2, <3>1 DEF ServingPcs, BusyPcs, CallPcs
    <3> QED BY <1>2, <1>3, <2>1, <2>2, <3>1, <3>2, <3>3 DEF MemoryOK
  <2>5. CASE FindUserInfo(t)
    <3>1. pc[t] = "narrowed" /\ pc'[t] = "loop" /\ item2' = root /\ item' = item
      BY <2>5, Moves DEF FindUserInfo
    <3> QED BY <1>2, <1>3, <2>1, <2>2, <3>1 DEF MemoryOK
  <2> QED BY <1>6, <2>3, <2>4, <2>5
<1>7. ASSUME UNCHANGED <<root, item, item2, trees>>, pc[t] \in {"release"} \cup ServingPcs,
             using'[t] # NULL => trees'[using'[t].tree] # "dead"
      PROVE  MemoryOK'
  <2>1. /\ root \in Threads /\ trees[root] # "dead" /\ trees[item2] # "dead" /\ item2 \in Threads
        /\ item = NULL \/ trees[item[2]] # "dead"
    BY <1>3, <1>7 DEF ServingPcs, BusyPcs, CallPcs
  <2> QED BY <1>2, <1>3, <1>7, <2>1 DEF MemoryOK
<1>8. CASE Take(t) \/ Replies(t) \/ Stall(t) \/ (Leave(t) /\ pc[t] = "loop")
  <2>1. UNCHANGED <<root, item, item2, trees, using>> /\ pc[t] \in ServingPcs
    BY <1>8 DEF Take, Replies, Answered, NotUnderstood, TransferFails, Reply, Stall, Leave,
       statics, memory, ServingPcs, BusyPcs, CallPcs
  <2> QED BY <1>3, <1>7, <2>1
<1>9. CASE Accesses(t)
  <2>1. pc[t] \in ServingPcs /\ UNCHANGED <<root, item, item2, trees>>
    BY <1>9, Moves DEF ServingPcs, BusyPcs
  <2> QED BY <1>1, <1>7, <1>9, <2>1, AccessTrees
<1>10. CASE Leave(t) /\ pc[t] = "start"
  <2>1. releasedUnder' = (releasedUnder \/ pc[t] = "start")
    BY <1>10 DEF Leave
  <2> QED BY <1>10, <2>1
<1>11. CASE Release(t)
  <2>1. releasedUnder' = (releasedUnder \/ \E u \in Threads \ {t} : Active(u))
    BY <1>11 DEF Release
  <2>2. \A u \in Threads \ {t} : ~Active(u)
    BY <2>1
  <2>3. \A u \in Threads : pc'[u] \in {"start", "ended"}
    BY <1>2, <1>11, <2>2, Moves
  <2>4. using' = using /\ pc[t] = "release"
    BY <1>11 DEF Release
  <2>5. \A u \in Threads : using'[u] = NULL
    BY <2>2, <2>4 DEF PlacesOK, AccessPcs
  <2> QED BY <2>3, <2>5 DEF MemoryOK, ServingPcs, BusyPcs, CallPcs
<1> QED
  BY <1>5, <1>6, <1>8, <1>9, <1>10, <1>11, Moves DEF ThreadStep, InitStep, CallStep, Accesses, Replies

\* NULL is neither an access nor an item.
LEMMA NoAccess == NULL \notin Access /\ NULL \notin {"perception", "inputText"} \X Threads
BY TulingAssumption DEF Access

\* A fault needs an access at the same time, or a tree deleted under another thread.
LEMMA FaultStep ==
  ASSUME TypeOK, PlacesOK, MemoryOK, OneCaller, FaultNeedsSharing,
         NEW t \in Threads, ThreadStep(t) \/ Stall(t) \/ Leave(t)
  PROVE  FaultNeedsSharing'
<1> SUFFICES ASSUME ~clashed', ~releasedUnder' PROVE ~fault'
  BY DEF FaultNeedsSharing
<1>1. ~clashed /\ ~releasedUnder
  BY HistoryGrows
<1>2. ~fault
  BY <1>1 DEF FaultNeedsSharing
<1>3. /\ Active(t) => root \in Threads /\ trees[root] # "dead"
      /\ pc[t] \in {"found", "narrowed", "release"} \cup ServingPcs =>
           item = NULL \/ trees[item[2]] # "dead"
      /\ pc[t] \in {"release"} \cup ServingPcs => trees[item2] # "dead"
      /\ using[t] # NULL => trees[using[t].tree] # "dead"
  BY <1>1 DEF MemoryOK
<1>4. InCall(t) => \A u \in Threads \ {t} : using[u] = NULL
  <2>1. InCall(t) => \A u \in Threads \ {t} : ~InCall(u)
    BY <1>1 DEF OneCaller
  <2> QED BY <2>1 DEF PlacesOK, InCall, AccessPcs, CallPcs
<1> USE DEF Active, ServingPcs, BusyPcs, CallPcs
<1>5. CASE InitStep(t)
  BY <1>2, <1>3, <1>5 DEF InitStep, Parse, FindPerception, FindInputText, FindUserInfo
<1>6. CASE Take(t) \/ Stall(t) \/ Leave(t) \/ Replies(t)
  BY <1>2, <1>6 DEF Take, Stall, Leave, Replies, Answered, NotUnderstood, TransferFails, Reply
<1>7. ASSUME NEW a, NEW l, Begin(t, a, l), InCall(t), trees[a.tree] # "dead" PROVE ~fault'
  <2>1. ~Clash(t, a)
    BY <1>4, <1>7 DEF Clash
  <2>2. fault' = Clash(t, a)
    BY <1>7 DEF Begin
  <2> QED BY <2>1, <2>2
<1>8. CASE ReplaceText(t)
  <2>1. InCall(t)
    BY <1>8 DEF ReplaceText, InCall
  <2>2. CASE item # NULL /\ item[1] = "inputText"
    BY <1>3, <1>7, <1>8, <2>1, <2>2 DEF ReplaceText, InCall
  <2>3. CASE ~(item # NULL /\ item[1] = "inputText")
    BY <1>2, <1>8, <2>3 DEF ReplaceText
  <2> QED BY <2>2, <2>3
<1>9. CASE ReplaceUser(t) \/ PrintRoot(t)
  <2>1. InCall(t) /\ Active(t) /\ pc[t] \in ServingPcs
    BY <1>9 DEF ReplaceUser, PrintRoot, InCall
  <2> QED BY <1>3, <1>7, <1>9, <2>1 DEF ReplaceUser, PrintRoot
<1>10. CASE TextReplaced(t) \/ UserReplaced(t) \/ Printed(t)
  <2>1. using[t] # NULL => ~Dead(t)
    BY <1>3 DEF Dead
  <2>2. using[t] # NULL
    <3>1. using[t] \in Access
      BY <1>10 DEF TextReplaced, UserReplaced, Printed, PlacesOK, AccessPcs
    <3> QED BY <3>1, <1>10, NoAccess
  <2>3. fault' = Dead(t)
    BY <1>10 DEF TextReplaced, UserReplaced, Printed
  <2> QED BY <2>1, <2>2, <2>3
<1>11. CASE Release(t)
  <2>1. releasedUnder' = (releasedUnder \/ \E u \in Threads \ {t} : Active(u)) /\ pc[t] = "release"
    BY <1>11 DEF Release
  <2>2. \A u \in Threads \ {t} : ~Active(u)
    BY <2>1
  <2>3. \A u \in Threads : using[u] = NULL
    BY <2>1, <2>2 DEF PlacesOK, AccessPcs
  <2>4. fault' = (root # NULL /\ (trees[root] = "dead" \/ \E u \in Threads : using[u] # NULL /\ using[u].tree = root))
    BY <1>11 DEF Release
  <2>5. trees[root] # "dead"
    BY <1>3, <2>1
  <2> QED BY <2>3, <2>4, <2>5
<1> QED
  BY <1>5, <1>6, <1>8, <1>9, <1>10, <1>11 DEF ThreadStep, CallStep, Replies

-------------------------------------------------------------------------------
(* Undisturbed questions *)

\* One initialisation after another leaves the statics pointing into one tree.
LEMMA StaticsStep ==
  ASSUME TypeOK, PlacesOK, StaticsOK, NEW t \in Threads, ThreadStep(t) \/ Stall(t) \/ Leave(t)
  PROVE  StaticsOK'
<1> SUFFICES ASSUME ~initRaced' PROVE StaticsOK'
  BY DEF StaticsOK
<1>1. ~initRaced
  BY HistoryGrows
<1>2. \A u \in Threads \ {t} : pc'[u] = pc[u]
  BY Moves
<1>3. /\ \A u, v \in Threads : InInit(u) /\ InInit(v) => u = v
      /\ \A u \in Threads : pc[u] = "found" => item = <<"perception", root>>
      /\ \A u \in Threads : pc[u] = "narrowed" => item = <<"inputText", root>>
      /\ \A u \in Threads : pc[u] \in ServingPcs =>
           \/ \E v \in Threads : InInit(v)
           \/ item = <<"inputText", root>> /\ item2 = root
  BY <1>1 DEF StaticsOK
<1> USE DEF InInit, InitPcs
<1>4. CASE Parse(t)
  <2>1. initRaced' = (initRaced \/ \E u \in Threads \ {t} : InInit(u)) /\ pc'[t] = "parsed"
    BY <1>4, Moves DEF Parse
  <2>2. \A u \in Threads \ {t} : ~InInit(u)
    BY <2>1
  <2> QED BY <1>2, <2>1, <2>2 DEF StaticsOK
<1>5. CASE FindPerception(t)
  <2>1. pc[t] = "parsed" /\ pc'[t] = "found" /\ item' = <<"perception", root>> /\ root' = root
    BY <1>5, Moves DEF FindPerception
  <2> QED BY <1>2, <1>3, <2>1 DEF StaticsOK
<1>6. CASE FindInputText(t)
  <2>1. pc[t] = "found" /\ pc'[t] = "narrowed" /\ root' = root /\ item = <<"perception", root>>
    BY <1>3, <1>6, Moves DEF FindInputText
  <2>2. root \in Threads
    BY <2>1 DEF PlacesOK
  <2>3. item # NULL
    BY <2>1, <2>2, NoAccess
  <2>4. item' = <<"inputText", root>>
    BY <1>6, <2>1, <2>3 DEF FindInputText
  <2> QED BY <1>2, <1>3, <2>1, <2>4 DEF StaticsOK
<1>7. CASE FindUserInfo(t)
  <2>1. /\ pc[t] = "narrowed" /\ pc'[t] = "loop" /\ root' = root /\ item' = item /\ item2' = root
        /\ item = <<"inputText", root>>
    BY <1>3, <1>7, Moves DEF FindUserInfo
  <2> QED BY <1>2, <1>3, <2>1 DEF StaticsOK
<1>8. ASSUME UNCHANGED <<root, item, item2>>, pc[t] \notin InitPcs, pc'[t] \notin InitPcs,
             pc'[t] \in ServingPcs => pc[t] \in ServingPcs
      PROVE  StaticsOK'
  <2>1. \A u \in Threads : InInit(u)' <=> InInit(u)
    BY <1>2, <1>8
  <2> QED BY <1>2, <1>3, <1>8, <2>1 DEF StaticsOK
<1>9. CASE Take(t) \/ Accesses(t) \/ Replies(t) \/ Stall(t) \/ Leave(t) \/ Release(t)
  <2>1. UNCHANGED <<root, item, item2>>
    BY <1>9, Moves DEF Take, Replies, Answered, NotUnderstood, TransferFails, Reply, Stall,
       Leave, Release, statics
  <2>2. /\ pc[t] \notin InitPcs /\ pc'[t] \notin InitPcs
        /\ pc'[t] \in ServingPcs => pc[t] \in ServingPcs
    BY <1>9, Moves DEF ServingPcs, BusyPcs, CallPcs
  <2> QED BY <1>8, <2>1, <2>2
<1> QED
  BY <1>4, <1>5, <1>6, <1>7, <1>9 DEF ThreadStep, InitStep, CallStep, Accesses, Replies

\* A call that meets another, or an InitTulingApi, knows.
LEMMA CallAloneStep ==
  ASSUME TypeOK, PlacesOK, CallAlone, NEW t \in Threads, ThreadStep(t) \/ Stall(t) \/ Leave(t)
  PROVE  CallAlone'
<1> SUFFICES ASSUME NEW u \in Threads, InCall(u)', (task[u].n \notin overlapped)',
                    NEW v \in Threads \ {u}
             PROVE  ~InCall(v)' /\ ~InInit(v)'
  BY DEF CallAlone, Undisturbed
<1>1. /\ \A x \in Threads \ {t} : pc'[x] = pc[x] /\ task'[x] = task[x]
      /\ task'[u].n \notin overlapped
  BY Moves, HistoryGrows
<1> USE DEF InCall, InInit
<1>2. CASE Take(t)
  <2>1. PICK q : /\ task' = [task EXCEPT ![t] = q]
                 /\ overlapped' = IF Meets(t) # {} \/ \E x \in Threads \ {t} : InInit(x)
                                  THEN overlapped \cup Meets(t) \cup {q.n} ELSE overlapped
    BY <1>2, TakeFacts
  <2>2. task'[t] = q /\ pc'[t] = "text"
    BY <1>2, <2>1, Moves DEF TypeOK
  <2>3. CASE u = t
    BY <1>1, <2>1, <2>2, <2>3 DEF Meets
  <2>4. CASE u # t
    <3>1. task[u].n \in Meets(t)
      BY <1>1, <2>4 DEF Meets
    <3> QED BY <1>1, <2>1, <2>4, <3>1
  <2> QED BY <2>3, <2>4
<1>3. CASE Parse(t)
  <2>1. overlapped' = overlapped \cup Meets(t) /\ pc'[t] = "parsed"
    BY <1>3, Moves DEF Parse
  <2>2. u # t
    BY <2>1 DEF CallPcs
  <2>3. task[u].n \in Meets(t)
    BY <1>1, <2>2 DEF Meets
  <2> QED BY <1>1, <2>1, <2>2, <2>3
<1>4. ASSUME pc'[t] \in CallPcs => pc[t] \in CallPcs /\ task'[t] = task[t],
             pc'[t] \in InitPcs => pc[t] \in InitPcs
      PROVE  ~InCall(v)' /\ ~InInit(v)'
  BY <1>1, <1>4 DEF CallAlone, Undisturbed
<1>5. CASE ~Take(t) /\ ~Parse(t)
  <2>1. pc'[t] \in CallPcs => pc[t] \in CallPcs /\ task'[t] = task[t]
    BY <1>5, Moves DEF ThreadStep, InitStep, CallStep, Accesses, Replies, CallPcs
  <2>2. pc'[t] \in InitPcs => pc[t] \in InitPcs
    BY <1>5, Moves DEF ThreadStep, InitStep, CallStep, Accesses, Replies, CallPcs, InitPcs
  <2> QED BY <1>4, <2>1, <2>2
<1> QED
  BY <1>2, <1>3, <1>5

\* A call that is alone changes and prints one tree, the one in root.
LEMMA CallOKStep ==
  ASSUME TypeOK, PlacesOK, StaticsOK, CallAlone, CallAlone', CallOK,
         NEW t \in Threads, ThreadStep(t) \/ Stall(t) \/ Leave(t)
  PROVE  CallOK'
<1> SUFFICES ASSUME ~initRaced', NEW u \in Threads, Undisturbed(u)'
             PROVE  /\ pc'[u] \in AccessPcs => using'[u].tree = root'
                    /\ pc'[u] \in {"user", "userDone", "print", "printed"} => textIn'[root'] = task'[u].n
                    /\ pc'[u] \in {"print", "printed"} => userIn'[root'] = UserId[task'[u].fd]
                    /\ pc'[u] = "perform" => post'[u] = [text |-> task'[u].n, user |-> UserId[task'[u].fd]]
  BY DEF CallOK
<1>1. ~initRaced /\ \A x \in Threads \ {t} : pc'[x] = pc[x] /\ using'[x] = using[x] /\ task'[x] = task[x]
  BY Moves, HistoryGrows
<1>2. InCall(u)' /\ task'[u].n \notin overlapped' /\ task'[u].n \notin overlapped
  BY HistoryGrows DEF Undisturbed
<1>3. Undisturbed(u) =>
        /\ pc[u] \in AccessPcs => using[u].tree = root
        /\ pc[u] \in {"user", "userDone", "print", "printed"} => textIn[root] = task[u].n
        /\ pc[u] \in {"print", "printed"} => userIn[root] = UserId[task[u].fd]
        /\ pc[u] = "perform" => post[u] = [text |-> task[u].n, user |-> UserId[task[u].fd]]
  BY <1>1 DEF CallOK
<1>4. CASE u # t
  <2>1. Undisturbed(u)
    BY <1>1, <1>2, <1>4 DEF Undisturbed, InCall
  <2>2. pc[t] \notin CallPcs \cup InitPcs /\ pc'[t] \notin CallPcs \cup InitPcs
    BY <1>4, <2>1 DEF CallAlone, InCall, InInit
  <2>3. Leave(t) \/ Release(t)
    BY <2>2, Moves DEF ThreadStep, InitStep, CallStep, Accesses, Replies, CallPcs, InitPcs
  <2>4. UNCHANGED <<root, textIn, userIn, post>>
    BY <2>3 DEF Leave, Release, statics, memory, work
  <2> QED BY <1>1, <1>3, <1>4, <2>1, <2>4
<1>5. CASE u = t /\ Take(t)
  BY <1>5, Moves DEF AccessPcs
<1>6. CASE u = t /\ ~Take(t)
  <2>1. Accesses(t)
    BY <1>2, <1>6, Moves DEF ThreadStep, InitStep, CallStep, Accesses, Replies, CallPcs, InCall
  <2>2. /\ UNCHANGED <<root, item, item2, trees, task, overlapped, initRaced>>
        /\ pc[t] \in CallPcs /\ pc'[t] \in CallPcs
    BY <2>1, Moves
  <2>3. Undisturbed(t)
    BY <1>2, <1>6, <2>2 DEF Undisturbed, InCall
  <2>4. \A x \in Threads : ~InInit(x)
    BY <2>2, <2>3 DEF CallAlone, InInit, InitPcs, CallPcs
  <2>5. item = <<"inputText", root>> /\ item2 = root /\ root \in Threads
    BY <1>1, <2>2, <2>4 DEF StaticsOK, PlacesOK, ServingPcs, BusyPcs
  <2>6. item # NULL /\ item[1] = "inputText" /\ item[2] = root
    BY <2>5, NoAccess
  <2>7. /\ pc \in [Threads -> {"start", "loop", "stalled", "release", "ended"} \cup InitPcs \cup CallPcs]
        /\ using \in [Threads -> Access \cup {NULL}]
        /\ textIn \in [Threads -> Nat] /\ userIn \in [Threads -> Users]
        /\ post \in [Threads -> [text : Nat, user : Users] \cup {NULL}]
    BY DEF TypeOK
  <2> USE DEF AccessPcs, Goto
  <2>8. CASE ReplaceText(t)
    <3>1. Begin(t, [tree |-> root, parts |-> {"text"}, write |-> TRUE], "textDone")
      BY <2>6, <2>8 DEF ReplaceText
    <3>2. using'[t].tree = root /\ pc'[t] = "textDone"
      BY <2>7, <3>1 DEF Begin
    <3> QED BY <1>6, <2>2, <3>2
  <2>9. CASE TextReplaced(t)
    <3>1. pc[t] = "textDone" /\ pc'[t] = "user" /\ textIn' = [textIn EXCEPT ![using[t].tree] = task[t].n]
      BY <2>7, <2>9 DEF TextReplaced
    <3>2. using[t].tree = root
      BY <1>3, <1>6, <2>3, <3>1
    <3> QED BY <1>6, <2>2, <2>5, <2>7, <3>1, <3>2
  <2>10. CASE ReplaceUser(t)
    <3>1. pc[t] = "user" /\ Begin(t, [tree |-> root, parts |-> {"user"}, write |-> TRUE], "userDone")
      BY <2>5, <2>10 DEF ReplaceUser
    <3>2. using'[t].tree = root /\ pc'[t] = "userDone" /\ textIn' = textIn
      BY <2>7, <3>1 DEF Begin
    <3> QED BY <1>3, <1>6, <2>2, <2>3, <3>1, <3>2
  <2>11. CASE UserReplaced(t)
    <3>1. /\ pc[t] = "userDone" /\ pc'[t] = "print" /\ textIn' = textIn
          /\ userIn' = [userIn EXCEPT ![using[t].tree] = UserId[task[t].fd]]
      BY <2>7, <2>11 DEF UserReplaced
    <3>2. using[t].tree = root /\ textIn[root] = task[t].n
      BY <1>3, <1>6, <2>3, <3>1
    <3> QED BY <1>6, <2>2, <2>5, <2>7, <3>1, <3>2
  <2>12. CASE PrintRoot(t)
    <3>1. pc[t] = "print" /\ Begin(t, [tree |-> root, parts |-> {"text", "user"}, write |-> FALSE], "printed")
      BY <2>12 DEF PrintRoot
    <3>2. using'[t].tree = root /\ pc'[t] = "printed" /\ textIn' = textIn /\ userIn' = userIn
      BY <2>7, <3>1 DEF Begin
    <3> QED BY <1>3, <1>6, <2>2, <2>3, <3>1, <3>2
  <2>13. CASE Printed(t)
    <3>1. /\ pc[t] = "printed" /\ pc'[t] = "perform"
          /\ post' = [post EXCEPT ![t] = [text |-> textIn[using[t].tree], user |-> userIn[using[t].tree]]]
      BY <2>7, <2>13 DEF Printed
    <3>2. using[t].tree = root /\ textIn[root] = task[t].n /\ userIn[root] = UserId[task[t].fd]
      BY <1>3, <1>6, <2>3, <3>1
    <3>3. post'[t] = [text |-> task[t].n, user |-> UserId[task[t].fd]]
      BY <2>7, <3>1, <3>2
    <3> QED BY <1>6, <2>2, <3>1, <3>3
  <2> QED BY <2>1, <2>8, <2>9, <2>10, <2>11, <2>12, <2>13 DEF Accesses
<1> QED
  BY <1>4, <1>5, <1>6

\* What is posted for a call that met nothing is what it put in the tree.
LEMMA PostedStep ==
  ASSUME TypeOK, PlacesOK, CallOK, PostedUndisturbed,
         NEW t \in Threads, ThreadStep(t) \/ Stall(t) \/ Leave(t)
  PROVE  PostedUndisturbed'
<1> SUFFICES ASSUME NEW p \in posted', p.n \notin overlapped', ~initRaced'
             PROVE  p.text = p.n /\ p.user = UserId[p.fd]
  BY DEF PostedUndisturbed
<1>1. p.n \notin overlapped /\ ~initRaced
  BY HistoryGrows
<1>2. CASE p \in posted
  BY <1>1, <1>2 DEF PostedUndisturbed
<1>3. CASE p \notin posted
  <2>1. Replies(t)
    BY <1>3, QuietSteps DEF ThreadStep, CallStep, Accesses, Replies, Take
  <2>2. Answered(t) \/ NotUnderstood(t)
    BY <1>3, <2>1 DEF Replies, TransferFails
  <2>3. /\ p = [n |-> task[t].n, fd |-> task[t].fd, text |-> post[t].text, user |-> post[t].user]
        /\ pc[t] = "perform"
    BY <1>3, <2>2 DEF Answered, NotUnderstood, Posted
  <2>4. Undisturbed(t)
    BY <1>1, <2>3 DEF Undisturbed, InCall, CallPcs
  <2>5. post[t] = [text |-> task[t].n, user |-> UserId[task[t].fd]]
    BY <1>1, <2>3, <2>4 DEF CallOK
  <2> QED BY <2>3, <2>5
<1> QED
  BY <1>2, <1>3

\* An answer is to what was posted for its question.
LEMMA AnswersStep ==
  ASSUME TypeOK, AnswersOK, NEW t \in Threads, ThreadStep(t) \/ Stall(t) \/ Leave(t)
  PROVE  AnswersOK'
<1> SUFFICES ASSUME NEW r \in replies', r.n \notin failed', r.answer.kind = "answer"
             PROVE  \E p \in posted' : p.n = r.n /\ p.text = r.answer.to
  BY DEF AnswersOK
<1>1. r.n \notin failed /\ posted \subseteq posted'
  BY HistoryGrows
<1>2. CASE r \in replies
  BY <1>1, <1>2 DEF AnswersOK
<1>3. CASE r \notin replies
  <2>1. Replies(t)
    BY <1>3, QuietSteps DEF ThreadStep, CallStep, Accesses, Replies, Take
  <2>2. CASE Answered(t)
    <3>1. r = [n |-> task[t].n, answer |-> [kind |-> "answer", to |-> post[t].text]]
      BY <1>3, <2>2 DEF Answered, Reply
    <3>2. [n |-> task[t].n, fd |-> task[t].fd, text |-> post[t].text, user |-> post[t].user] \in posted'
      BY <2>2 DEF Answered, Posted
    <3> QED BY <3>1, <3>2
  <2>3. CASE NotUnderstood(t)
    <3>1. r = [n |-> task[t].n, answer |-> [kind |-> "own", to |-> task[t].n]]
      BY <1>3, <2>3 DEF NotUnderstood, Reply
    <3> QED BY <3>1
  <2>4. CASE TransferFails(t)
    <3>1. \E a : r = [n |-> task[t].n, answer |-> a]
      BY <1>3, <2>4 DEF TransferFails, Reply
    <3>2. task[t].n \in failed'
      BY <2>4 DEF TransferFails
    <3> QED BY <3>1, <3>2
  <2> QED BY <2>1, <2>2, <2>3, <2>4 DEF Replies
<1> QED
  BY <1>2, <1>3

-------------------------------------------------------------------------------
(* The theorems *)

\* The initial states satisfy the invariant.
LEMMA TulingInit == Init => TulingInv
<1> SUFFICES ASSUME Init PROVE TulingInv
  OBVIOUS
<1>1. TypeOK
  BY DEF Init, TypeOK, Question, Users, DefaultText
<1>2. PlacesOK /\ OneCaller /\ CallAlone
  BY DEF Init, PlacesOK, OneCaller, CallAlone, Undisturbed, InCall, AccessPcs, BusyPcs, ServingPcs,
     CallPcs, InitPcs
<1>3. MemoryOK /\ StaticsOK /\ CallOK
  BY DEF Init, MemoryOK, StaticsOK, CallOK, Active, Undisturbed, InInit, InCall, ServingPcs, BusyPcs,
     CallPcs, InitPcs
<1>4. NumbersOK
  <2>1. Busy = {} /\ Len(inbox) = 0 /\ replies = {}
    BY DEF Init, Busy, BusyPcs, CallPcs
  <2> QED BY <2>1 DEF NumbersOK
<1>5. FaultNeedsSharing /\ PostedUndisturbed /\ AnswersOK
  BY DEF Init, FaultNeedsSharing, PostedUndisturbed, AnswersOK
<1> QED
  BY <1>1, <1>2, <1>3, <1>4, <1>5 DEF TulingInv

\* A client that asks changes what waits for the threads, and nothing else.
LEMMA AskStep ==
  ASSUME TulingInv, Ask
  PROVE  TulingInv'
<1>1. UNCHANGED <<style, pc, root, item, item2, trees, textIn, userIn, using, task, post, posted,
                  replies, fault, overlapped, clashed, initRaced, releasedUnder, failed>>
  BY DEF Ask, statics, memory, history
<1>2. TypeOK' /\ PlacesOK' /\ NumbersOK'
  BY AskTypes, NumbersStep DEF TulingInv
<1>3. OneCaller' /\ CallAlone'
  BY <1>1 DEF TulingInv, OneCaller, CallAlone, Undisturbed, InCall, InInit
<1>4. MemoryOK' /\ StaticsOK'
  BY <1>1 DEF TulingInv, MemoryOK, StaticsOK, Active, InInit
<1>5. CallOK'
  BY <1>1 DEF TulingInv, CallOK, Undisturbed, InCall
<1>6. FaultNeedsSharing' /\ PostedUndisturbed' /\ AnswersOK'
  BY <1>1 DEF TulingInv, FaultNeedsSharing, PostedUndisturbed, AnswersOK
<1> QED
  BY <1>2, <1>3, <1>4, <1>5, <1>6 DEF TulingInv

\* A step of a thread keeps the invariant.
LEMMA ThreadKeeps ==
  ASSUME TulingInv, NEW t \in Threads, ThreadStep(t) \/ Stall(t) \/ Leave(t)
  PROVE  TulingInv'
<1>1. /\ TypeOK /\ PlacesOK /\ NumbersOK /\ OneCaller /\ MemoryOK /\ StaticsOK /\ CallAlone /\ CallOK
      /\ FaultNeedsSharing /\ PostedUndisturbed /\ AnswersOK
  BY DEF TulingInv
<1>2. TypeOK' /\ PlacesOK'
  BY <1>1, InitTypes, CallTypes, EndTypes DEF ThreadStep
<1>3. NumbersOK' /\ OneCaller' /\ MemoryOK' /\ StaticsOK' /\ CallAlone'
  BY <1>1, NumbersStep, OneCallerStep, MemoryStep, StaticsStep, CallAloneStep
<1>4. CallOK'
  BY <1>1, <1>3, CallOKStep
<1>5. FaultNeedsSharing' /\ PostedUndisturbed' /\ AnswersOK'
  BY <1>1, FaultStep, PostedStep, AnswersStep
<1> QED
  BY <1>2, <1>3, <1>4, <1>5 DEF TulingInv

\* TulingInv holds in every reachable state.
THEOREM TulingInvariance == Spec => []TulingInv
<1>1. Init => TulingInv
  BY TulingInit
<1>2. TulingInv /\ [Next]_vars => TulingInv'
  <2> SUFFICES ASSUME TulingInv, [Next]_vars PROVE TulingInv'
    OBVIOUS
  <2>1. CASE Next
    BY <2>1, AskStep, ThreadKeeps DEF Next
  <2>2. CASE UNCHANGED vars
    <3>1. UNCHANGED <<style, pc, root, item, item2, trees, textIn, userIn, using, asked, inbox, task,
                      post, posted, replies>>
      BY <2>2 DEF vars, statics, memory, work
    <3>2. UNCHANGED <<fault, overlapped, clashed, initRaced, releasedUnder, failed>>
      BY <2>2 DEF vars, history
    <3>3. TypeOK' /\ PlacesOK' /\ NumbersOK'
      BY <3>1 DEF TulingInv, TypeOK, PlacesOK, NumbersOK, Busy
    <3>4. OneCaller' /\ CallAlone' /\ CallOK'
      BY <3>1, <3>2 DEF TulingInv, OneCaller, CallAlone, CallOK, Undisturbed, InCall, InInit
    <3>5. MemoryOK' /\ StaticsOK'
      BY <3>1, <3>2 DEF TulingInv, MemoryOK, StaticsOK, Active, InInit
    <3>6. FaultNeedsSharing' /\ PostedUndisturbed' /\ AnswersOK'
      BY <3>1, <3>2 DEF TulingInv, FaultNeedsSharing, PostedUndisturbed, AnswersOK
    <3> QED BY <3>3, <3>4, <3>5, <3>6 DEF TulingInv
  <2> QED BY <2>1, <2>2
<1> QED
  BY <1>1, <1>2, PTL DEF Spec

\* For any number of threads, memory is safe as long as no two calls overlap and no thread
\* releases the shared tree while another lives, or without having parsed it.
THEOREM MemorySafe == Spec => []FaultNeedsSharing
<1>1. TulingInv => FaultNeedsSharing
  BY DEF TulingInv
<1> QED
  BY <1>1, TulingInvariance, PTL

\* For any number of threads, a call that met no other call and no InitTulingApi puts its
\* own question and its own client's user id to the service, whatever the calls before it
\* left in the shared tree, unless two initialisations met.
THEOREM OwnQuestion == Spec => []PostedUndisturbed
<1>1. TulingInv => PostedUndisturbed
  BY DEF TulingInv
<1> QED
  BY <1>1, TulingInvariance, PTL

\* For any number of threads and questions, a question is replied to at most once, and an
\* answer is to what was posted for that question, unless its own transfer failed.
THEOREM OwnAnswer == Spec => []AnswerIsOwn
<1>1. TulingInv => AnswerIsOwn
  BY DEF TulingInv, NumbersOK, AnswersOK, AnswerIsOwn
<1> QED
  BY <1>1, TulingInvariance, PTL

-------------------------------------------------------------------------------
(* What the digest is computed from *)

\* Division by the length of a block.
LEMMA DivideBlocks ==
  \A n \in Nat : n \div 64 \in Nat /\ n % 64 \in 0..63 /\ n = 64 * (n \div 64) + (n % 64)
OBVIOUS

LEMMA WholeBlocks ==
  ASSUME NEW q \in Nat, NEW r \in 0..63
  PROVE  (64 * q + r) \div 64 = q /\ (64 * q + r) % 64 = r
OBVIOUS

LEMMA SmallRest ==
  ASSUME NEW r \in 0..63
  PROVE  r % 64 = r /\ (64 + r) % 64 = r
OBVIOUS

LEMMA EightBits == \A n \in Nat : 8 * n \in Nat /\ (8 * n) \div 8 = n
OBVIOUS

\* A context of bytes of the kind S, and one that has been given the bytes of m: whole blocks
\* to MD5Transform, and the rest in the buffer.
Buffers(S) == [1..64 -> S]

Contexts(S) == [count : Nat, blocks : Seq(Buffers(S)), buffer : Buffers(S)]

Fed(context, m) ==
  /\ context.count = 8 * Len(m)
  /\ Len(context.blocks) = Len(m) \div 64
  /\ \A k \in 1..Len(context.blocks) : \A j \in 1..64 : context.blocks[k][j] = m[64 * (k - 1) + j]
  /\ \A j \in 1..(Len(m) % 64) : context.buffer[j] = m[64 * (Len(m) \div 64) + j]

\* Places before a part of a buffer, and in it.
LEMMA BufferPlaces ==
  \A index, n \in Nat : index + n <= 64 =>
    /\ \A j \in 1..index : j \in 1..64 /\ j \notin (index + 1)..(index + n)
    /\ \A j \in 1..n : /\ index + j \in 1..64 /\ index + j \in (index + 1)..(index + n)
                      /\ index + j - index = j
    /\ \A j \in (index + 1)..(index + n) : j - index \in 1..n
OBVIOUS

\* A piece fits into the buffer, and filling in keeps what is before it.
Fits(S, buffer, index, s, n) ==
  /\ buffer \in Buffers(S) /\ s \in Seq(S) /\ index \in Nat
  /\ n \in Nat /\ n = Len(s) /\ index + n <= 64

Filled(S, buffer, index, s, n, filled) ==
  /\ filled \in Buffers(S)
  /\ \A j \in 1..index : filled[j] = buffer[j]
  /\ \A j \in 1..n : filled[index + j] = s[j]

LEMMA FillFact ==
  ASSUME NEW S, NEW buffer, NEW s, NEW index, NEW n, Fits(S, buffer, index, s, n)
  PROVE  Filled(S, buffer, index, s, n, Fill(buffer, index, s))
<1>0. /\ buffer \in Buffers(S) /\ s \in Seq(S) /\ index \in Nat
      /\ n \in Nat /\ n = Len(s) /\ index + n <= 64
  BY DEF Fits
<1>1. \A j \in 1..64 : j \in (index + 1)..(index + Len(s)) => s[j - index] \in S
  BY <1>0, BufferPlaces, SeqNonEmpty
<1>2. Fill(buffer, index, s) \in Buffers(S)
  BY <1>0, <1>1 DEF Fill, Buffers
<1>3. ASSUME NEW j \in 1..index PROVE Fill(buffer, index, s)[j] = buffer[j]
  <2>1. j \in 1..64 /\ j \notin (index + 1)..(index + n)
    BY <1>0, BufferPlaces
  <2> QED BY <1>0, <2>1 DEF Fill, Buffers
<1>4. ASSUME NEW j \in 1..n PROVE Fill(buffer, index, s)[index + j] = s[j]
  <2>1. index + j \in 1..64 /\ index + j \in (index + 1)..(index + n) /\ index + j - index = j
    BY <1>0, BufferPlaces
  <2> QED BY <1>0, <2>1 DEF Fill, Buffers
<1> QED
  BY <1>2, <1>3, <1>4 DEF Filled

\* A piece of a sequence, by what is before it and how long it is.
LEMMA PieceFact ==
  ASSUME NEW S, NEW s \in Seq(S), NEW a \in Nat, NEW n \in Nat, a + n <= Len(s)
  PROVE  /\ SubSeq(s, a + 1, a + n) \in Seq(S)
         /\ Len(SubSeq(s, a + 1, a + n)) = n
         /\ \A j \in 1..n : SubSeq(s, a + 1, a + n)[j] = s[a + j]
<1>1. a + 1 \in Int /\ a + n \in Int /\ (a + n) - (a + 1) + 1 = n /\ (a + 1 <= a + n \/ n = 0)
  OBVIOUS
<1>2. \A k \in (a + 1)..(a + n) : s[k] \in S
  <2> SUFFICES ASSUME NEW k \in (a + 1)..(a + n) PROVE s[k] \in S
    OBVIOUS
  <2>1. k \in 1..Len(s)
    BY SeqNonEmpty
  <2> QED BY <2>1, SeqNonEmpty
<1>3. /\ SubSeq(s, a + 1, a + n) \in Seq(S)
      /\ Len(SubSeq(s, a + 1, a + n)) = IF a + 1 <= a + n THEN (a + n) - (a + 1) + 1 ELSE 0
      /\ \A k \in 1..((a + n) - (a + 1) + 1) : SubSeq(s, a + 1, a + n)[k] = s[(a + 1) + k - 1]
  BY <1>1, <1>2, SubSeqProperties
<1>4. Len(SubSeq(s, a + 1, a + n)) = n
  BY <1>1, <1>3
<1>5. ASSUME NEW j \in 1..n PROVE SubSeq(s, a + 1, a + n)[j] = s[a + j]
  <2>1. j \in 1..((a + n) - (a + 1) + 1) /\ (a + 1) + j - 1 = a + j
    BY <1>1
  <2> QED BY <1>3, <2>1
<1> QED
  BY <1>3, <1>4, <1>5

\* Two sequences joined, by their lengths.
Joined(S, s, m, t, n, all) ==
  /\ all \in Seq(S) /\ Len(all) = m + n
  /\ \A k \in 1..m : all[k] = s[k]
  /\ \A k \in 1..n : all[m + k] = t[k]

LEMMA JoinFact ==
  ASSUME NEW S, NEW s \in Seq(S), NEW t \in Seq(S)
  PROVE  Joined(S, s, Len(s), t, Len(t), s \o t)
<1>1. Len(s) \in Nat /\ Len(t) \in Nat
  BY SeqNonEmpty
<1>2. /\ s \o t \in Seq(S) /\ Len(s \o t) = Len(s) + Len(t)
      /\ \A i \in 1..(Len(s) + Len(t)) : (s \o t)[i] = IF i <= Len(s) THEN s[i] ELSE t[i - Len(s)]
  BY ConcatProperties
<1>3. \A k \in 1..Len(s) : k \in 1..(Len(s) + Len(t)) /\ k <= Len(s)
  BY <1>1
<1>4. ASSUME NEW k \in 1..Len(t)
      PROVE  /\ Len(s) + k \in 1..(Len(s) + Len(t)) /\ ~(Len(s) + k <= Len(s))
             /\ Len(s) + k - Len(s) = k
  BY <1>1
<1>5. \A k \in 1..Len(s) : (s \o t)[k] = s[k]
  BY <1>2, <1>3
<1>6. \A k \in 1..Len(t) : (s \o t)[Len(s) + k] = t[k]
  BY <1>2, <1>4
<1> QED
  BY <1>2, <1>5, <1>6, Zenon DEF Joined

\* A place in a message, by its block.
LEMMA Places ==
  ASSUME NEW q \in Nat, NEW k \in 1..q, NEW j \in 1..64
  PROVE  64 * (k - 1) + j \in 1..(64 * q)
OBVIOUS

\* MD5Update hands every byte on once, in order: what it leaves in the buffer comes first in
\* the next block.
LEMMA UpdateFeeds ==
  ASSUME NEW S, NEW context \in Contexts(S), NEW m \in Seq(S), NEW input \in Seq(S), Fed(context, m)
  PROVE  MD5Update(context, input) \in Contexts(S) /\ Fed(MD5Update(context, input), m \o input)
<1>1. PICK L \in Nat, n \in Nat, q \in Nat, index \in Nat, part \in Nat :
        /\ L = Len(m) /\ n = Len(input) /\ q = L \div 64 /\ index = L % 64
        /\ L = 64 * q + index /\ index <= 63 /\ part = 64 - index /\ 1 <= part
  <2>1. Len(m) \in Nat /\ Len(input) \in Nat
    BY SeqNonEmpty
  <2>2. Len(m) \div 64 \in Nat /\ Len(m) % 64 \in 0..63 /\ Len(m) = 64 * (Len(m) \div 64) + (Len(m) % 64)
    BY <2>1, DivideBlocks
  <2>3. \A x \in 0..63 : x \in Nat /\ x <= 63 /\ 64 - x \in Nat /\ 1 <= 64 - x
    OBVIOUS
  <2>4. PICK x \in Nat, y \in Nat :
          /\ x = Len(m) \div 64 /\ y = Len(m) % 64 /\ Len(m) = 64 * x + y
          /\ y <= 63 /\ 64 - y \in Nat /\ 1 <= 64 - y
    BY <2>2, <2>3, Zenon
  <2>5. PICK l \in Nat, n \in Nat : l = Len(m) /\ n = Len(input)
    BY <2>1, Zenon
  <2>6. PICK p \in Nat : p = 64 - y /\ 1 <= p
    BY <2>4, Zenon
  <2> QED BY <2>4, <2>5, <2>6, Zenon
<1>0. L = 64 * q + index /\ index <= 63 /\ part = 64 - index /\ 1 <= part
  BY <1>1
<1>10. n = Len(input)
  BY <1>1
<1>2. context.count = 8 * L /\ context.count + 8 * n = 8 * (L + n) /\ context.count + 8 * n \in Nat
  <2>1. context.count = 8 * L
    BY <1>1 DEF Fed
  <2>2. 8 * (L + n) = 8 * L + 8 * n /\ 8 * (L + n) \in Nat
    OBVIOUS
  <2> QED BY <2>1, <2>2
<1>3. (context.count \div 8) % 64 = index
  BY <1>1, <1>2, EightBits
<1>4. PICK done \in Seq(Buffers(S)), old \in Buffers(S) :
        /\ done = context.blocks /\ old = context.buffer
        /\ context = [count |-> context.count, blocks |-> done, buffer |-> old]
  BY DEF Contexts
<1>5. /\ Len(done) = q
      /\ \A k \in 1..q : \A j \in 1..64 : done[k][j] = m[64 * (k - 1) + j]
      /\ \A j \in 1..index : old[j] = m[64 * q + j]
  <2>1. /\ Len(context.blocks) = Len(m) \div 64
        /\ \A k \in 1..Len(context.blocks) : \A j \in 1..64 : context.blocks[k][j] = m[64 * (k - 1) + j]
        /\ \A j \in 1..(Len(m) % 64) : context.buffer[j] = m[64 * (Len(m) \div 64) + j]
    BY Zenon DEF Fed
  <2>2. Len(m) \div 64 = q /\ Len(m) % 64 = index
    BY <1>1, Zenon
  <2>3. Len(done) = q
    BY <1>4, <2>1, <2>2, Zenon
  <2>4. \A k \in 1..q : \A j \in 1..64 : done[k][j] = m[64 * (k - 1) + j]
    <3>1. Len(context.blocks) = q
      BY <1>4, <2>3
    <3>2. \A k \in 1..q : \A j \in 1..64 : context.blocks[k][j] = m[64 * (k - 1) + j]
      BY <2>1, <3>1, Zenon
    <3> QED BY <1>4, <3>2, Zenon
  <2>5. \A j \in 1..index : old[j] = m[64 * q + j]
    BY <1>4, <2>1, <2>2, Zenon
  <2> QED BY <2>3, <2>4, <2>5
<1>6. PICK all \in Seq(S) :
        /\ all = m \o input /\ Len(all) = L + n
        /\ \A i \in 1..L : all[i] = m[i]
        /\ \A i \in 1..n : all[L + i] = input[i]
  <2>1. Joined(S, m, Len(m), input, Len(input), m \o input)
    BY JoinFact, Zenon
  <2> QED BY <1>1, <2>1, Zenon DEF Joined
<1>7. \A i \in 1..n : input[i] \in S
  BY <1>1, SeqNonEmpty
<1>8. CASE n < part
  <2>2. PICK buffer \in Buffers(S) :
          /\ buffer = Fill(old, index, input)
          /\ \A j \in 1..index : buffer[j] = old[j]
          /\ \A j \in 1..n : buffer[index + j] = input[j]
    <3>0. index + n <= 64
      BY <1>0, <1>8
    <3>1. Fits(S, old, index, input, n)
      BY <1>10, <3>0, Zenon DEF Fits
    <3>2. Filled(S, old, index, input, n, Fill(old, index, input))
      BY <3>1, FillFact, Zenon
    <3> QED BY <3>2, Zenon DEF Filled
  <2>3. PICK c \in Contexts(S) :
          /\ c = MD5Update(context, input)
          /\ c.count = 8 * (L + n) /\ c.blocks = done /\ c.buffer = buffer
    <3> DEFINE d == [count |-> context.count + 8 * n, blocks |-> done, buffer |-> buffer]
    <3>1. MD5Update(context, input) = [[context EXCEPT !.count = @ + 8 * n] EXCEPT !.buffer = buffer]
      <4>1. ~(n >= 64 - index)
        BY <1>0, <1>8
      <4>2. [context EXCEPT !.count = @ + 8 * n].buffer = old
        BY <1>4
      <4> QED BY <1>1, <1>3, <2>2, <4>1, <4>2 DEF MD5Update
    <3>2. MD5Update(context, input) = d
      BY <1>4, <3>1
    <3>3. d \in Contexts(S)
      BY <1>2, <1>4 DEF Contexts
    <3> QED BY <1>2, <3>2, <3>3
  <2>4. (L + n) \div 64 = q /\ (L + n) % 64 = index + n
    <3>1. q \in Nat /\ L + n = 64 * q + (index + n) /\ index + n \in 0..63
      BY <1>0, <1>8
    <3>2. PICK a \in 0..63 : a = index + n /\ L + n = 64 * q + a
      BY <3>1
    <3>3. (64 * q + a) \div 64 = q /\ (64 * q + a) % 64 = a
      BY WholeBlocks
    <3> QED BY <3>2, <3>3
  <2>5. ASSUME NEW k \in 1..q, NEW j \in 1..64 PROVE c.blocks[k][j] = all[64 * (k - 1) + j]
    <3>1. 64 * (k - 1) + j \in 1..L
      <4>1. q \in Nat /\ 64 * q <= L /\ L \in Nat
        BY <1>0
      <4>2. 64 * (k - 1) + j \in 1..(64 * q)
        BY <4>1, Places
      <4> QED BY <4>1, <4>2
    <3>2. all[64 * (k - 1) + j] = m[64 * (k - 1) + j]
      BY <1>6, <3>1, Zenon
    <3>3. done[k][j] = m[64 * (k - 1) + j]
      BY <1>5, Zenon
    <3> QED BY <2>3, <3>2, <3>3, Zenon
  <2>6. ASSUME NEW j \in 1..(index + n) PROVE c.buffer[j] = all[64 * q + j]
    <3>1. CASE j <= index
      <4>1. j \in 1..index /\ 64 * q + j \in 1..L
        BY <1>0, <3>1
      <4>2. all[64 * q + j] = m[64 * q + j]
        BY <1>6, <4>1, Zenon
      <4>3. c.buffer[j] = old[j] /\ old[j] = m[64 * q + j]
        BY <1>5, <2>2, <2>3, <4>1, Zenon
      <4> QED BY <4>2, <4>3, Zenon
    <3>2. CASE j > index
      <4>1. PICK i \in 1..n : j = index + i /\ 64 * q + j = L + i
        <5>1. j - index \in 1..n /\ j = index + (j - index) /\ 64 * q + j = L + (j - index)
          BY <1>0, <3>2
        <5> QED BY <5>1
      <4>2. c.buffer[index + i] = input[i]
        BY <2>2, <2>3, Zenon
      <4>3. all[L + i] = input[i]
        BY <1>6, Zenon
      <4> QED BY <4>1, <4>2, <4>3, Zenon
    <3>3. j \in Int /\ index \in Int
      BY <1>0
    <3> QED BY <3>1, <3>2, <3>3
  <2>7. Fed(c, all)
    <3>1. /\ c.count = 8 * Len(all) /\ Len(c.blocks) = q
          /\ Len(all) \div 64 = q /\ Len(all) % 64 = index + n
      BY <1>5, <1>6, <2>3, <2>4
    <3>2. \A k \in 1..Len(c.blocks) : \A j \in 1..64 : c.blocks[k][j] = all[64 * (k - 1) + j]
      BY <2>5, <3>1, Zenon
    <3>3. \A j \in 1..(Len(all) % 64) : c.buffer[j] = all[64 * (Len(all) \div 64) + j]
      BY <2>6, <3>1, Zenon
    <3> QED BY <3>1, <3>2, <3>3, Zenon DEF Fed
  <2> QED BY <1>6, <2>3, <2>7
<1>9. CASE n >= part
  <2>1. PICK b \in Nat, r \in Nat : b = (n - part) \div 64 /\ n = part + 64 * b + r /\ r <= 63
    <3>1. n - part \in Nat
      BY <1>9
    <3>2. PICK x \in Nat, y \in Nat : x = (n - part) \div 64 /\ n - part = 64 * x + y /\ y <= 63
      <4>1. /\ (n - part) \div 64 \in Nat /\ (n - part) % 64 \in 0..63
            /\ n - part = 64 * ((n - part) \div 64) + ((n - part) % 64)
        BY <3>1, DivideBlocks
      <4>2. \A z \in 0..63 : z \in Nat /\ z <= 63
        OBVIOUS
      <4> QED BY <4>1, <4>2, Zenon
    <3>3. n = part + 64 * x + y
      BY <3>2
    <3> QED BY <3>2, <3>3
  <2> DEFINE whole(i) == SubSeq(input, part + 64 * (i - 1) + 1, part + 64 * i)
  <2>0. n = part + 64 * b + r /\ r <= 63
    BY <2>1
  <2>2. PICK head \in Seq(S) :
          /\ head = SubSeq(input, 1, part) /\ Len(head) = part
          /\ \A j \in 1..part : head[j] = input[j]
    <3>1. PICK a \in Nat : a + 1 = 1 /\ a + part = part /\ \A j \in 1..part : a + j = j
      <4>1. 0 \in Nat /\ 0 + 1 = 1 /\ 0 + part = part /\ \A j \in 1..part : 0 + j = j
        BY <1>0
      <4> QED BY <4>1, Zenon
    <3>2. a \in Nat /\ part \in Nat /\ a + part <= Len(input)
      BY <1>0, <1>9, <1>10, <3>1
    <3>3. /\ SubSeq(input, a + 1, a + part) \in Seq(S) /\ Len(SubSeq(input, a + 1, a + part)) = part
          /\ \A j \in 1..part : SubSeq(input, a + 1, a + part)[j] = input[a + j]
      BY <3>2, PieceFact
    <3> QED BY <3>1, <3>3, Zenon
  <2>3. PICK first \in Buffers(S) :
          /\ first = Fill(old, index, head)
          /\ \A j \in 1..index : first[j] = old[j]
          /\ \A j \in 1..part : first[index + j] = input[j]
    <3>0. index + part <= 64
      BY <1>0
    <3>1. Fits(S, old, index, head, part)
      BY <2>2, <3>0, Zenon DEF Fits
    <3>2. Filled(S, old, index, head, part, Fill(old, index, head))
      BY <3>1, FillFact, Zenon
    <3>3. PICK f \in Buffers(S) :
            /\ f = Fill(old, index, head)
            /\ \A j \in 1..index : f[j] = old[j]
            /\ \A j \in 1..part : f[index + j] = head[j]
      BY <3>2, Zenon DEF Filled
    <3>4. \A j \in 1..part : f[index + j] = input[j]
      BY <2>2, <3>3, Zenon
    <3> QED BY <3>3, <3>4, Zenon
  <2>4. ASSUME NEW i \in 1..b
        PROVE  /\ whole(i) \in Buffers(S)
               /\ \A j \in 1..64 : whole(i)[j] = input[part + 64 * (i - 1) + j]
    <3>1. PICK a \in Nat : a = part + 64 * (i - 1) /\ a + 64 <= Len(input) /\ a + 64 = part + 64 * i
      <4>1. part + 64 * (i - 1) \in Nat /\ part + 64 * (i - 1) + 64 <= n /\ part + 64 * (i - 1) + 64 = part + 64 * i
        BY <1>0, <2>0
      <4> QED BY <1>10, <4>1
    <3>2. PICK w \in Nat : w = 64
      OBVIOUS
    <3>5. a + w <= Len(input) /\ whole(i) = SubSeq(input, a + 1, a + w)
      BY <3>1, <3>2
    <3> HIDE DEF whole
    <3>6. /\ SubSeq(input, a + 1, a + w) \in Seq(S) /\ Len(SubSeq(input, a + 1, a + w)) = w
          /\ \A j \in 1..w : SubSeq(input, a + 1, a + w)[j] = input[a + j]
      BY <3>5, PieceFact
    <3>3. whole(i) \in Seq(S) /\ Len(whole(i)) = 64 /\ \A j \in 1..64 : whole(i)[j] = input[a + j]
      BY <3>2, <3>5, <3>6, Zenon
    <3>4. whole(i) \in Buffers(S)
      <4>1. whole(i) \in [1..Len(whole(i)) -> S]
        BY <3>3, LenProperties
      <4> QED BY <3>3, <4>1 DEF Buffers
    <3> QED BY <3>1, <3>3, <3>4
  <2>5. PICK rest \in Seq(S) :
          /\ rest = SubSeq(input, part + 64 * b + 1, n) /\ Len(rest) = r
          /\ \A j \in 1..r : rest[j] = input[part + 64 * b + j]
    <3>1. PICK a \in Nat : a = part + 64 * b /\ a + r = n
      <4>1. part + 64 * b \in Nat /\ part + 64 * b + r = n
        BY <1>0, <2>0
      <4> QED BY <4>1
    <3>2. a \in Nat /\ a + r <= Len(input)
      BY <1>10, <3>1
    <3>3. /\ SubSeq(input, a + 1, a + r) \in Seq(S) /\ Len(SubSeq(input, a + 1, a + r)) = r
          /\ \A j \in 1..r : SubSeq(input, a + 1, a + r)[j] = input[a + j]
      BY <2>0, <3>2, PieceFact
    <3> QED BY <3>1, <3>3
  <2>6. PICK buffer \in Buffers(S) :
          buffer = Fill(first, 0, rest) /\ \A j \in 1..r : buffer[j] = input[part + 64 * b + j]
    <3>1. PICK o \in Nat, w \in Nat : o = 0 /\ w = r /\ w = Len(rest) /\ o + w <= 64 /\ \A j \in 1..r : o + j = j
      <4>1. 0 \in Nat /\ r \in Nat /\ 0 + r <= 64 /\ \A j \in 1..r : 0 + j = j
        BY <2>0
      <4> QED BY <2>5, <4>1, Zenon
    <3>5. Fits(S, first, o, rest, w)
      BY <3>1, Zenon DEF Fits
    <3>2. Filled(S, first, o, rest, w, Fill(first, o, rest))
      BY <3>5, FillFact, Zenon
    <3>3. Fill(first, 0, rest) \in Buffers(S) /\ \A j \in 1..r : Fill(first, 0, rest)[j] = rest[j]
      BY <3>1, <3>2, Zenon DEF Filled
    <3>4. \A j \in 1..r : Fill(first, 0, rest)[j] = input[part + 64 * b + j]
      BY <2>5, <3>3
    <3> QED BY <3>3, <3>4, Zenon
  <2>7. PICK more \in Seq(Buffers(S)) :
          more = [i \in 1..b |-> whole(i)] /\ Len(more) = b /\ \A i \in 1..b : more[i] = whole(i)
    <3>1. b \in Nat /\ \A i \in 1..b : whole(i) \in Buffers(S)
      BY <2>0, <2>4
    <3> HIDE DEF whole
    <3>2. [i \in 1..b |-> whole(i)] \in Seq(Buffers(S))
      BY <3>1
    <3>3. Len([i \in 1..b |-> whole(i)]) = b
      BY <3>1, <3>2
    <3> QED BY <3>2, <3>3
  <2>8. PICK blocks \in Seq(Buffers(S)) :
          /\ blocks = done \o <<first>> \o more /\ Len(blocks) = (q + 1) + b
          /\ \A k \in 1..q : blocks[k] = done[k]
          /\ blocks[q + 1] = first
          /\ \A i \in 1..b : blocks[(q + 1) + i] = whole(i)
    <3>0. PICK B : B = Buffers(S)
      OBVIOUS
    <3> HIDE DEF whole
    <3>1. /\ done \in Seq(B) /\ more \in Seq(B) /\ first \in B
          /\ Len(done) = q /\ Len(more) = b /\ q \in Nat /\ b \in Nat
      BY <1>0, <1>4, <1>5, <2>0, <2>3, <2>7, <3>0, Zenon
    <3>2. PICK one \in Seq(B) : one = <<first>> /\ Len(one) = 1 /\ one[1] = first
      <4>1. <<first>> \in Seq(B) /\ Len(<<first>>) = 1 /\ <<first>>[1] = first
        BY <3>1
      <4> QED BY <4>1
    <3>3. Joined(B, done, q, one, 1, done \o one)
      BY <3>1, <3>2, JoinFact, Zenon
    <3>4. PICK two \in Seq(B) :
            /\ two = done \o one /\ Len(two) = q + 1
            /\ \A k \in 1..q : two[k] = done[k]
            /\ two[q + 1] = first
      <4>1. 1 \in 1..1
        OBVIOUS
      <4> QED BY <3>2, <3>3, <4>1, Zenon DEF Joined
    <3>5. Joined(B, two, q + 1, more, b, two \o more)
      BY <3>1, <3>4, JoinFact, Zenon
    <3>6. \A k \in 1..q : k \in 1..(q + 1)
      BY <3>1
    <3>7. q + 1 \in 1..(q + 1)
      BY <3>1
    <3>8. /\ \A k \in 1..q : (two \o more)[k] = done[k]
          /\ (two \o more)[q + 1] = first
          /\ \A i \in 1..b : (two \o more)[(q + 1) + i] = whole(i)
      BY <2>7, <3>4, <3>5, <3>6, <3>7, Zenon DEF Joined
    <3> QED BY <3>0, <3>2, <3>4, <3>5, <3>8, Zenon DEF Joined
  <2>9. PICK c \in Contexts(S) :
          /\ c = MD5Update(context, input)
          /\ c.count = 8 * (L + n) /\ c.blocks = blocks /\ c.buffer = buffer
    <3> DEFINE d == [count |-> context.count + 8 * n, blocks |-> blocks, buffer |-> buffer]
               counted == [context EXCEPT !.count = @ + 8 * n]
               long(ix, pl, bs) ==
                 [[context EXCEPT !.count = @ + 8 * Len(input)] EXCEPT
                   !.blocks = @ \o <<Fill(context.buffer, ix, SubSeq(input, 1, pl))>>
                                \o [i \in 1..bs |-> SubSeq(input, pl + 64 * (i - 1) + 1, pl + 64 * i)],
                   !.buffer = Fill(Fill(context.buffer, ix, SubSeq(input, 1, pl)), 0,
                                   SubSeq(input, pl + 64 * bs + 1, Len(input)))]
               ix0 == (context.count \div 8) % 64
    <3>1. Len(input) >= 64 - ix0 /\ ix0 = index /\ 64 - index = part /\ (Len(input) - part) \div 64 = b
      BY <1>1, <1>3, <1>9, <2>1
    <3>5. MD5Update(context, input) = long(ix0, 64 - ix0, (Len(input) - (64 - ix0)) \div 64)
      BY <3>1, Zenon DEF MD5Update
    <3>6. MD5Update(context, input) = long(index, part, b)
      <4> HIDE DEF long, ix0
      <4> QED BY <3>1, <3>5, Zenon
    <3>7. long(index, part, b) = [counted EXCEPT !.blocks = @ \o <<first>> \o more, !.buffer = buffer]
      BY <1>4, <1>10, <2>2, <2>3, <2>5, <2>6, <2>7, Zenon
    <3> HIDE DEF long
    <3>2. MD5Update(context, input) = [counted EXCEPT !.blocks = @ \o <<first>> \o more, !.buffer = buffer]
      BY <3>6, <3>7
    <3>3. MD5Update(context, input) = d
      BY <1>4, <2>8, <3>2
    <3>4. d \in Contexts(S)
      BY <1>2 DEF Contexts
    <3> QED BY <1>2, <3>3, <3>4
  <2>10. (L + n) \div 64 = (q + 1) + b /\ (L + n) % 64 = r
    <3>1. L + n = 64 * ((q + 1) + b) + r /\ (q + 1) + b \in Nat /\ r \in 0..63
      BY <1>0, <2>0
    <3>2. PICK x \in Nat, y \in 0..63 : x = (q + 1) + b /\ y = r /\ L + n = 64 * x + y
      BY <3>1
    <3>3. (64 * x + y) \div 64 = x /\ (64 * x + y) % 64 = y
      BY WholeBlocks
    <3> QED BY <3>2, <3>3
  <2> HIDE DEF whole
  <2>11. ASSUME NEW k \in 1..((q + 1) + b), NEW j \in 1..64 PROVE blocks[k][j] = all[64 * (k - 1) + j]
    <3>1. CASE k <= q
      <4>1. k \in 1..q /\ 64 * q <= L
        BY <1>0, <3>1
      <4>2. 64 * (k - 1) + j \in 1..(64 * q)
        BY <1>0, <4>1, Places
      <4>3. 64 * (k - 1) + j \in 1..L
        BY <1>0, <4>1, <4>2
      <4>4. blocks[k] = done[k] /\ done[k][j] = m[64 * (k - 1) + j]
        BY <1>5, <2>8, <4>1, Zenon
      <4> QED BY <1>6, <4>3, <4>4, Zenon
    <3>2. CASE k = q + 1
      <4>1. blocks[k] = first
        BY <2>8, <3>2, Zenon
      <4>2. 64 * (k - 1) + j = 64 * q + j
        BY <1>0, <3>2
      <4>3. CASE j <= index
        <5>1. j \in 1..index /\ 64 * q + j \in 1..L
          BY <1>0, <4>3
        <5>2. first[j] = old[j] /\ old[j] = m[64 * q + j] /\ all[64 * q + j] = m[64 * q + j]
          BY <1>5, <1>6, <2>3, <5>1, Zenon
        <5> QED BY <4>1, <4>2, <5>2, Zenon
      <4>4. CASE j > index
        <5>1. PICK i \in 1..part : j = index + i /\ 64 * q + j = L + i
          <6>1. j - index \in 1..part /\ j = index + (j - index) /\ 64 * q + j = L + (j - index)
            BY <1>0, <4>4
          <6> QED BY <6>1
        <5>2. first[j] = input[i]
          BY <2>3, <5>1, Zenon
        <5>3. i \in 1..n
          BY <1>0, <1>9, <5>1
        <5>4. all[64 * q + j] = input[i]
          BY <1>6, <5>1, <5>3, Zenon
        <5> QED BY <4>1, <4>2, <5>2, <5>4, Zenon
      <4>5. index \in Int
        BY <1>0
      <4> QED BY <4>3, <4>4, <4>5
    <3>3. CASE k > q + 1
      <4>1. PICK i \in 1..b : k = (q + 1) + i
        <5>1. k - (q + 1) \in 1..b /\ k = (q + 1) + (k - (q + 1))
          BY <1>0, <2>0, <3>3
        <5> QED BY <5>1
      <4>2. blocks[k][j] = input[part + 64 * (i - 1) + j]
        <5>1. blocks[k] = whole(i)
          BY <2>8, <4>1, Zenon
        <5> QED BY <2>4, <5>1, Zenon
      <4>3. part + 64 * (i - 1) + j \in 1..n
        <5>1. 64 * (i - 1) + j \in 1..(64 * b)
          BY <2>0, <4>1, Places
        <5> QED BY <1>0, <2>0, <4>1, <5>1
      <4>4. 64 * (k - 1) + j = L + (part + 64 * (i - 1) + j)
        BY <1>0, <4>1
      <4>5. all[L + (part + 64 * (i - 1) + j)] = input[part + 64 * (i - 1) + j]
        BY <1>6, <4>3, Zenon
      <4> QED BY <4>2, <4>4, <4>5, Zenon
    <3>4. k \in Int /\ q \in Int
      BY <1>0, <2>0
    <3> QED BY <3>1, <3>2, <3>3, <3>4
  <2>12. ASSUME NEW j \in 1..r PROVE c.buffer[j] = all[64 * ((q + 1) + b) + j]
    <3>1. part + 64 * b + j \in 1..n
      BY <1>0, <2>0
    <3>2. 64 * ((q + 1) + b) + j = L + (part + 64 * b + j)
      BY <1>0, <2>0
    <3>3. c.buffer[j] = input[part + 64 * b + j] /\ all[L + (part + 64 * b + j)] = input[part + 64 * b + j]
      BY <1>6, <2>6, <2>9, <3>1, Zenon
    <3> QED BY <3>2, <3>3, Zenon
  <2>13. Fed(c, all)
    <3>1. /\ c.count = 8 * Len(all) /\ c.blocks = blocks /\ Len(c.blocks) = (q + 1) + b
          /\ Len(all) \div 64 = (q + 1) + b /\ Len(all) % 64 = r
      BY <1>6, <2>8, <2>9, <2>10
    <3>2. \A k \in 1..Len(c.blocks) : \A j \in 1..64 : c.blocks[k][j] = all[64 * (k - 1) + j]
      BY <2>11, <3>1, Zenon
    <3>3. \A j \in 1..(Len(all) % 64) : c.buffer[j] = all[64 * (Len(all) \div 64) + j]
      BY <2>12, <3>1, Zenon
    <3> QED BY <3>1, <3>2, <3>3, Zenon DEF Fed
  <2> QED BY <1>6, <2>9, <2>13
<1> QED
  BY <1>8, <1>9

\* The padding of a message brings it, with the eight bytes of its length, to whole blocks,
\* and is as short as it can be.
LEMMA PaddingFact ==
  ASSUME NEW L \in Nat
  PROVE  /\ PadLength(L % 64) \in 1..64
         /\ PadLength(L % 64) = 1 + ((119 - (L % 64)) % 64)
         /\ \E q \in Nat : (L + PadLength(L % 64)) + 8 = 64 * q + 0
<1>1. PICK q \in Nat, index \in Nat : L = 64 * q + index /\ index <= 63 /\ index = L % 64
  <2>1. L \div 64 \in Nat /\ L % 64 \in 0..63 /\ L = 64 * (L \div 64) + (L % 64)
    BY DivideBlocks
  <2>2. \A x \in 0..63 : x \in Nat /\ x <= 63
    OBVIOUS
  <2> QED BY <2>1, <2>2, Zenon
<1>2. CASE index < 56
  <2>1. PICK r \in 0..63, z \in Nat :
          119 - index = 64 + r /\ PadLength(index) = 1 + r /\ 1 + r \in 1..64 /\ (L + (1 + r)) + 8 = 64 * z + 0
    <3>1. PadLength(index) = 56 - index
      BY <1>2 DEF PadLength
    <3>2. /\ 55 - index \in 0..63 /\ q + 1 \in Nat
          /\ 119 - index = 64 + (55 - index) /\ 56 - index = 1 + (55 - index)
          /\ 1 + (55 - index) \in 1..64 /\ (L + (1 + (55 - index))) + 8 = 64 * (q + 1) + 0
      BY <1>1, <1>2
    <3>3. PadLength(index) = 1 + (55 - index)
      BY <3>1, <3>2, Zenon
    <3> QED BY <3>2, <3>3, Zenon
  <2>2. (119 - index) % 64 = r
    BY <2>1, SmallRest
  <2>3. PadLength(L % 64) = 1 + r
    BY <1>1, <2>1, Zenon
  <2>4. 1 + ((119 - (L % 64)) % 64) = 1 + r
    BY <1>1, <2>2, Zenon
  <2>5. PadLength(L % 64) \in 1..64
    BY <2>1, <2>3, Zenon
  <2>6. \E x \in Nat : (L + PadLength(L % 64)) + 8 = 64 * x + 0
    BY <2>1, <2>3, Zenon
  <2> QED BY <2>3, <2>4, <2>5, <2>6, Zenon
<1>3. CASE ~(index < 56)
  <2>1. PICK r \in 0..63, z \in Nat :
          119 - index = r /\ PadLength(index) = 1 + r /\ 1 + r \in 1..64 /\ (L + (1 + r)) + 8 = 64 * z + 0
    <3>1. PadLength(index) = 120 - index
      BY <1>3 DEF PadLength
    <3>2. /\ 119 - index \in 0..63 /\ q + 2 \in Nat
          /\ 119 - index = (119 - index) /\ 120 - index = 1 + (119 - index)
          /\ 1 + (119 - index) \in 1..64 /\ (L + (1 + (119 - index))) + 8 = 64 * (q + 2) + 0
      BY <1>1, <1>3
    <3>3. PadLength(index) = 1 + (119 - index)
      BY <3>1, <3>2, Zenon
    <3> QED BY <3>2, <3>3, Zenon
  <2>2. (119 - index) % 64 = r
    BY <2>1, SmallRest
  <2>3. PadLength(L % 64) = 1 + r
    BY <1>1, <2>1, Zenon
  <2>4. 1 + ((119 - (L % 64)) % 64) = 1 + r
    BY <1>1, <2>2, Zenon
  <2>5. PadLength(L % 64) \in 1..64
    BY <2>1, <2>3, Zenon
  <2>6. \E x \in Nat : (L + PadLength(L % 64)) + 8 = 64 * x + 0
    BY <2>1, <2>3, Zenon
  <2> QED BY <2>3, <2>4, <2>5, <2>6, Zenon
<1> QED
  BY <1>2, <1>3

\* A message as MD5Final completes it.
Padded(m) == (m \o SubSeq(PADDING, 1, 1 + ((119 - (Len(m) % 64)) % 64))) \o LengthBytes(8 * Len(m))

\* The blocks are those of a message, in order, and leave nothing of it out.
Cut(m, blocks) ==
  /\ Len(m) = 64 * Len(blocks)
  /\ \A k \in 1..Len(blocks) : \A j \in 1..64 : blocks[k][j] = m[64 * (k - 1) + j]

\* MD5Final pads what has been fed, and nothing stays in the buffer.
LEMMA FinalPads ==
  ASSUME NEW S, Nat \subseteq S, NEW context \in Contexts(S), NEW m \in Seq(S), Fed(context, m),
         LengthBytes(8 * Len(m)) \in Seq(S), Len(LengthBytes(8 * Len(m))) = 8
  PROVE  Cut(Padded(m), MD5Final(context))
<1>1. PICK L \in Nat : L = Len(m)
  BY SeqNonEmpty
<1>2. context.count = 8 * L /\ (context.count \div 8) % 64 = L % 64
  <2>1. context.count = 8 * L
    BY <1>1 DEF Fed
  <2>2. (8 * L) \div 8 = L
    BY EightBits
  <2> QED BY <2>1, <2>2
<1>3. PICK p \in Nat, q \in Nat :
        /\ p = PadLength(L % 64) /\ p = 1 + ((119 - (L % 64)) % 64)
        /\ p <= 64 /\ (L + p) + 8 = 64 * q + 0
  <2>1. \A x \in 1..64 : x \in Nat /\ x <= 64
    OBVIOUS
  <2>2. /\ PadLength(L % 64) \in 1..64
        /\ PadLength(L % 64) = 1 + ((119 - (L % 64)) % 64)
        /\ \E q \in Nat : (L + PadLength(L % 64)) + 8 = 64 * q + 0
    BY PaddingFact, Zenon
  <2> QED BY <2>1, <2>2, Zenon
<1>4. PICK pad \in Seq(S) : pad = SubSeq(PADDING, 1, p) /\ Len(pad) = p
  <2>1. PICK table \in Seq(S) : table = PADDING /\ Len(table) = 64
    <3>1. \A i \in 1..64 : (IF i = 1 THEN 128 ELSE 0) \in S
      OBVIOUS
    <3>2. PADDING \in Seq(S) /\ Len(PADDING) = 64
      BY <3>1 DEF PADDING
    <3> QED BY <3>2, Zenon
  <2>2. PICK a \in Nat : a + 1 = 1 /\ a + p = p
    <3>1. 0 \in Nat /\ 0 + 1 = 1 /\ 0 + p = p
      OBVIOUS
    <3> QED BY <3>1, Zenon
  <2>3. a + p <= Len(table)
    BY <1>3, <2>1, <2>2
  <2>4. SubSeq(table, a + 1, a + p) \in Seq(S) /\ Len(SubSeq(table, a + 1, a + p)) = p
    BY <2>3, PieceFact
  <2> QED BY <2>1, <2>2, <2>4, Zenon
<1>5. PICK length \in Seq(S) : length = LengthBytes(8 * L) /\ Len(length) = 8
  BY <1>1
<1>6. PICK d \in Contexts(S) : d = MD5Update(context, pad) /\ Fed(d, m \o pad)
  BY UpdateFeeds, Zenon
<1>7. PICK mp \in Seq(S) : mp = m \o pad /\ Len(mp) = L + p
  <2>1. Joined(S, m, Len(m), pad, Len(pad), m \o pad)
    BY JoinFact, Zenon
  <2> QED BY <1>1, <1>4, <2>1, Zenon DEF Joined
<1>8. PICK e \in Contexts(S) : e = MD5Update(d, length) /\ Fed(e, mp \o length)
  BY <1>6, <1>7, UpdateFeeds, Zenon
<1>9. Len(mp \o length) = (L + p) + 8
  <2>1. Joined(S, mp, Len(mp), length, Len(length), mp \o length)
    BY JoinFact, Zenon
  <2> QED BY <1>5, <1>7, <2>1, Zenon DEF Joined
<1>10. Padded(m) = mp \o length
  BY <1>1, <1>3, <1>4, <1>5, <1>7, Zenon DEF Padded
<1>11. MD5Final(context) = e.blocks
  BY <1>2, <1>3, <1>4, <1>5, <1>6, <1>8, Zenon DEF MD5Final
<1>12. Len(mp \o length) \div 64 = q /\ Len(mp \o length) = 64 * q
  <2>1. PICK r \in 0..63 : r = 0 /\ 64 * q + r = 64 * q
    OBVIOUS
  <2>2. (64 * q + r) \div 64 = q
    BY WholeBlocks
  <2> QED BY <1>3, <1>9, <2>1, <2>2, Zenon
<1>13. Len(e.blocks) = q
  BY <1>8, <1>12, Zenon DEF Fed
<1> QED
  <2>1. \A k \in 1..q : \A j \in 1..64 : e.blocks[k][j] = (mp \o length)[64 * (k - 1) + j]
    BY <1>8, <1>13, Zenon DEF Fed
  <2>2. Cut(mp \o length, e.blocks)
    BY <1>12, <1>13, <2>1, Zenon DEF Cut
  <2> QED BY <1>10, <1>11, <2>2, Zenon

\* The eight bytes of a length.
LEMMA LengthFact ==
  ASSUME NEW c, NEW S, Nat \cup {LengthBytes(c)[i] : i \in 1..8} \subseteq S
  PROVE  LengthBytes(c) \in Seq(S) /\ Len(LengthBytes(c)) = 8
<1> DEFINE lb == LengthBytes(c)
           w == Word(c \div 2^16, c % 2^16)
<1>1. lb = MD5Encode(<<w, {}>>)
  BY Zenon DEF LengthBytes
<1>2. \A i \in 1..8 : lb[i] \in S
  OBVIOUS
<1> HIDE DEF w, lb
<1>3. PICK n : n = 4 * Len(<<w, {}>>) /\ n = 8
  OBVIOUS
<1>4. DOMAIN lb = 1..n /\ lb = [i \in 1..n |-> lb[i]]
  BY <1>1, <1>3 DEF MD5Encode
<1>5. DOMAIN lb = 1..8 /\ lb = [i \in 1..8 |-> lb[i]]
  BY <1>3, <1>4
<1>6. lb \in Seq(S) /\ Len(lb) = 8
  <2>1. lb \in [1..8 -> S]
    BY <1>2, <1>5
  <2> QED BY <1>5, <2>1
<1> QED
  BY <1>6 DEF lb

\* For a message of any length, given to MD5Update in one piece or in two: MD5Transform gets
\* the bytes of the message, each once and in order, then the padding and the length, in
\* whole blocks.  (MD5Update, MD5Final; for less than 2^29 bytes, from where on count[1] is not 0.)
THEOREM MessageDigestedWhole ==
  ASSUME NEW s \in Seq(Nat), NEW t \in Seq(Nat)
  PROVE  /\ Cut(Padded(s), MD5Final(MD5Update(MD5Init, s)))
         /\ Cut(Padded(s \o t), MD5Final(MD5Update(MD5Update(MD5Init, s), t)))
<1>1. PICK S : S = Nat \cup {LengthBytes(8 * Len(s))[i] : i \in 1..8}
                       \cup {LengthBytes(8 * Len(s \o t))[i] : i \in 1..8}
  OBVIOUS
<1>2. /\ Nat \subseteq S
      /\ LengthBytes(8 * Len(s)) \in Seq(S) /\ Len(LengthBytes(8 * Len(s))) = 8
      /\ LengthBytes(8 * Len(s \o t)) \in Seq(S) /\ Len(LengthBytes(8 * Len(s \o t))) = 8
  <2>1. Nat \subseteq S
    BY <1>1
  <2>2. Nat \cup {LengthBytes(8 * Len(s))[i] : i \in 1..8} \subseteq S
    BY <1>1
  <2>3. Nat \cup {LengthBytes(8 * Len(s \o t))[i] : i \in 1..8} \subseteq S
    BY <1>1
  <2> QED BY <2>1, <2>2, <2>3, LengthFact, Zenon
<1>3. PICK u \in Seq(S), v \in Seq(S) : u = s /\ v = t
  <2>1. \A x \in Seq(Nat) : x \in Seq(S)
    BY <1>2
  <2> QED BY <2>1, Zenon
<1>4. MD5Init \in Contexts(S) /\ Fed(MD5Init, <<>>)
  <2>1. /\ <<>> \in Seq(Buffers(S)) /\ Len(<<>>) = 0
        /\ 0 % 64 = 0 /\ 0 \div 64 = 0 /\ 0 = 8 * 0 /\ 0 \in Nat
        /\ \A k \in 1..0 : FALSE
    OBVIOUS
  <2>2. [i \in 1..64 |-> 0] \in Buffers(S)
    BY <1>2 DEF Buffers
  <2>3. MD5Init \in Contexts(S)
    BY <2>1, <2>2 DEF MD5Init, Contexts
  <2>4. MD5Init.count = 0 /\ MD5Init.blocks = <<>>
    BY DEF MD5Init
  <2>5. Fed(MD5Init, <<>>)
    BY <2>1, <2>4, Zenon DEF Fed
  <2> QED BY <2>3, <2>5
<1>5. PICK c \in Contexts(S) : c = MD5Update(MD5Init, u) /\ Fed(c, u)
  <2>1. <<>> \in Seq(S) /\ <<>> \o u = u
    BY ConcatEmptySeq
  <2>2. PICK e \in Seq(S), i \in Contexts(S) : e = <<>> /\ i = MD5Init /\ Fed(i, e)
    BY <1>4, <2>1, Zenon
  <2>3. MD5Update(i, u) \in Contexts(S) /\ Fed(MD5Update(i, u), e \o u)
    BY <2>2, UpdateFeeds, Zenon
  <2> QED BY <2>1, <2>2, <2>3, Zenon
<1>6. PICK d \in Contexts(S) : d = MD5Update(c, v) /\ Fed(d, u \o v)
  BY <1>5, UpdateFeeds, Zenon
<1>7. PICK w \in Seq(S) : w = u \o v
  BY JoinFact, Zenon DEF Joined
<1>8. Cut(Padded(u), MD5Final(c))
  BY <1>2, <1>3, <1>5, FinalPads, Zenon
<1>9. Cut(Padded(w), MD5Final(d))
  <2>1. Fed(d, w) /\ LengthBytes(8 * Len(w)) \in Seq(S) /\ Len(LengthBytes(8 * Len(w))) = 8
    BY <1>2, <1>3, <1>6, <1>7, Zenon
  <2> QED BY <1>2, <2>1, FinalPads, Zenon
<1> QED
  BY <1>3, <1>5, <1>6, <1>7, <1>8, <1>9, Zenon

================================================================================
