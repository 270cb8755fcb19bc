------------------------------- MODULE TulingApi -------------------------------
(***************************************************************************)
(* libtulingApi/libtulingApi.c, the client of the Tuling service, and the  *)
(* two programs that call it: the workers of the queue server              *)
(* (robot-switch-fifo/tuling-server/task_work.c) and the thread per client *)
(* of robot-switch/tuling-server.  The request is one tree of JSON items   *)
(* that all threads parse, change and print through the statics root, item *)
(* and item2, without a lock.                                              *)
(*                                                                         *)
(* A tree is named by the thread that parsed it.  Its two changing parts   *)
(* are the question's text and the user; who reads or writes one of them   *)
(* holds it from the start of the JSON call to its end, and two accesses   *)
(* that overlap, one of them a write, or an access to a deleted tree, are  *)
(* undefined: the model stops there with fault.                            *)
(***************************************************************************)
EXTENDS Md5, TLC

CONSTANTS
  Threads,         \* the workers (2 in the code), or the threads of the clients
  Fds,             \* the clients' numbers
  FdOf,            \* for a thread per client: the number it was given
  MaxQuestions,    \* questions the clients ask (bound)
  NULL

ASSUME TulingAssumption ==
  /\ IsFiniteSet(Threads) /\ Fds \subseteq 1..99 /\ FdOf \in [Threads -> Fds]
  /\ MaxQuestions \in Nat
  /\ NULL \notin Threads /\ NULL \notin {"perception", "inputText"} \X Threads
  /\ NULL \notin [tree : Threads, parts : SUBSET {"text", "user"}, write : BOOLEAN]

VARIABLES
  style,           \* "queue": workers that take tasks; "client": a thread per client
  pc,
  root, item, item2,   \* the statics: a tree, <<part, tree>>, a tree; or NULL
  trees,           \* each tree: "none", "live" or "dead"
  textIn, userIn,  \* the values of its two parts
  using,           \* the access each thread is in the middle of, or NULL
  asked, inbox,    \* questions asked so far; those not taken, oldest first
  task,            \* the question each thread works on, or NULL
  post,            \* what its cJSON_Print returned: text and user
  posted, replies, \* what the service was sent, what the clients were sent
  fault,
  overlapped,      \* history: questions whose call met another call or an InitTulingApi,
  clashed,         \*   whether two calls met,
  initRaced,       \*   whether two InitTulingApi met,
  releasedUnder,   \*   whether a ReleaseTulingApi hit a tree that was not its own alone,
  failed           \*   questions whose transfer failed

statics == <<root, item, item2>>
memory == <<trees, textIn, userIn, using>>
work == <<asked, inbox, task, post, posted, replies>>
history == <<overlapped, clashed, initRaced, releasedUnder, failed>>
vars == <<style, pc, statics, memory, work, fault, history>>

DefaultText == 0

Init ==
  /\ style \in {"queue", "client"}
  /\ pc = [t \in Threads |-> "start"]
  /\ root = NULL /\ item = NULL /\ item2 = NULL
  /\ trees = [t \in Threads |-> "none"]
  /\ textIn = [t \in Threads |-> DefaultText] /\ userIn = [t \in Threads |-> NULL]
  /\ using = [t \in Threads |-> NULL]
  /\ asked = 0 /\ inbox = <<>> /\ task = [t \in Threads |-> NULL]
  /\ post = [t \in Threads |-> NULL]
  /\ posted = {} /\ replies = {}
  /\ fault = FALSE
  /\ overlapped = {} /\ clashed = FALSE /\ initRaced = FALSE /\ releasedUnder = FALSE
  /\ failed = {}

InitPcs == {"parsed", "found", "narrowed"}
CallPcs == {"text", "textDone", "user", "userDone", "print", "printed", "perform"}
InInit(t) == pc[t] \in InitPcs
InCall(t) == pc[t] \in CallPcs
\* Between its InitTulingApi and its ReleaseTulingApi.
Active(t) == pc[t] \notin {"start", "ended"}

Goto(t, l) == pc' = [pc EXCEPT ![t] = l]

\* The questions that meet what thread t begins now.
Meets(t) == {task[u].n : u \in {v \in Threads \ {t} : InCall(v)}}

-------------------------------------------------------------------------------
(* Clients *)

\* A client sends a question; a thread per client reads its own client's.
Ask ==
  /\ asked < MaxQuestions
  /\ \E f \in IF style = "queue" THEN Fds ELSE {FdOf[t] : t \in Threads} :
       inbox' = Append(inbox, [n |-> asked + 1, fd |-> f])
  /\ asked' = asked + 1
  /\ UNCHANGED <<style, pc, statics, memory, task, post, posted, replies, fault, history>>

-------------------------------------------------------------------------------
(* InitTulingApi, one step per access to a static *)

\* Mutant: the tree that was there freed.
ParseFreesOld(t) ==
  /\ pc[t] = "start"
  /\ root' = t
  /\ trees' = [x \in Threads |-> IF x = t THEN "live" ELSE IF x = root THEN "dead" ELSE trees[x]]
  /\ initRaced' = (initRaced \/ \E u \in Threads \ {t} : InInit(u))
  /\ overlapped' = overlapped \cup Meets(t)
  /\ Goto(t, "parsed")
  /\ UNCHANGED <<style, item, item2, textIn, userIn, using, work, fault, clashed,
                 releasedUnder, failed>>

\* root = cJSON_Parse(jsonStr): the tree that was there is not freed.
Parse(t) ==
  /\ pc[t] = "start"
  /\ root' = t
  /\ trees' = [trees EXCEPT ![t] = "live"]
  /\ initRaced' = (initRaced \/ \E u \in Threads \ {t} : InInit(u))
  /\ overlapped' = overlapped \cup Meets(t)
  /\ Goto(t, "parsed")
  /\ UNCHANGED <<style, item, item2, textIn, userIn, using, work, fault, clashed,
                 releasedUnder, failed>>

\* item = cJSON_GetObjectItem(root, "perception")
FindPerception(t) ==
  /\ pc[t] = "parsed"
  /\ item' = <<"perception", root>>
  /\ fault' = (trees[root] = "dead")
  /\ Goto(t, "found")
  /\ UNCHANGED <<style, root, item2, memory, work, history>>

\* item = cJSON_GetObjectItem(item, "inputText"), which an inputText does not have
FindInputText(t) ==
  /\ pc[t] = "found"
  /\ item' = IF item # NULL /\ item[1] = "perception" THEN <<"inputText", item[2]>> ELSE NULL
  /\ fault' = (item # NULL /\ trees[item[2]] = "dead")
  /\ Goto(t, "narrowed")
  /\ UNCHANGED <<style, root, item2, memory, work, history>>

\* item2 = cJSON_GetObjectItem(root, "userInfo")
FindUserInfo(t) ==
  /\ pc[t] = "narrowed"
  /\ item2' = root
  /\ fault' = (trees[root] = "dead")
  /\ Goto(t, "loop")
  /\ UNCHANGED <<style, root, item, memory, work, history>>

-------------------------------------------------------------------------------
(* The loop of a thread *)

Mine(t) == {i \in DOMAIN inbox : style = "queue" \/ inbox[i].fd = FdOf[t]}

\* task_list_get, or recv; then CallTulingApi, where root is not NULL.
Take(t) ==
  /\ pc[t] = "loop" /\ Mine(t) # {}
  /\ LET i == CHOOSE j \in Mine(t) : \A k \in Mine(t) : j <= k IN
       /\ task' = [task EXCEPT ![t] = inbox[i]]
       /\ inbox' = RemoveAt(inbox, i)
       /\ overlapped' =
            LET met == Meets(t) IN
              IF met # {} \/ \E u \in Threads \ {t} : InInit(u)
              THEN overlapped \cup met \cup {inbox[i].n} ELSE overlapped
  /\ clashed' = (clashed \/ Meets(t) # {})
  /\ Goto(t, "text")
  /\ UNCHANGED <<style, statics, memory, asked, post, posted, replies, fault, initRaced,
                 releasedUnder, failed>>

\* The access meets one of another thread, or a deleted tree.
Clash(t, a) ==
  \/ trees[a.tree] = "dead"
  \/ \E u \in Threads \ {t} :
       /\ using[u] # NULL /\ using[u].tree = a.tree
       /\ using[u].parts \cap a.parts # {} /\ (using[u].write \/ a.write)

Begin(t, a, l) ==
  /\ fault' = Clash(t, a)
  /\ using' = [using EXCEPT ![t] = a]
  /\ Goto(t, l)
  /\ UNCHANGED <<style, statics, trees, textIn, userIn, work, history>>

Dead(t) == trees[using[t].tree] = "dead"

\* cJSON_ReplaceItemInObject(item, "text", ..), which does nothing if there is none.
ReplaceText(t) ==
  /\ pc[t] = "text"
  /\ IF item # NULL /\ item[1] = "inputText"
     THEN Begin(t, [tree |-> item[2], parts |-> {"text"}, write |-> TRUE], "textDone")
     ELSE Goto(t, "user") /\ UNCHANGED <<style, statics, memory, work, fault, history>>

TextReplaced(t) ==
  /\ pc[t] = "textDone"
  /\ textIn' = [textIn EXCEPT ![using[t].tree] = task[t].n]
  /\ fault' = Dead(t)
  /\ using' = [using EXCEPT ![t] = NULL]
  /\ Goto(t, "user")
  /\ UNCHANGED <<style, statics, trees, userIn, work, history>>

\* Mutant: the request printed before the user is put in.
ReplaceUserSkipped(t) ==
  /\ pc[t] = "user"
  /\ Goto(t, "print")
  /\ UNCHANGED <<style, statics, memory, work, fault, history>>

\* cJSON_ReplaceItemInObject(item2, "userId", ..), and the same for "apiKey"
ReplaceUser(t) ==
  /\ pc[t] = "user"
  /\ Begin(t, [tree |-> item2, parts |-> {"user"}, write |-> TRUE], "userDone")

\* The MD5 digest of the socket's number.
UserId == [f \in Fds |-> Hex(Digest(Digits(f)))]

UserReplaced(t) ==
  /\ pc[t] = "userDone"
  /\ userIn' = [userIn EXCEPT ![using[t].tree] = UserId[task[t].fd]]
  /\ fault' = Dead(t)
  /\ using' = [using EXCEPT ![t] = NULL]
  /\ Goto(t, "print")
  /\ UNCHANGED <<style, statics, trees, textIn, work, history>>

\* cJSON_Print(root)
PrintRoot(t) ==
  /\ pc[t] = "print"
  /\ Begin(t, [tree |-> root, parts |-> {"text", "user"}, write |-> FALSE], "printed")

Printed(t) ==
  /\ pc[t] = "printed"
  /\ post' = [post EXCEPT ![t] = [text |-> textIn[using[t].tree], user |-> userIn[using[t].tree]]]
  /\ fault' = Dead(t)
  /\ using' = [using EXCEPT ![t] = NULL]
  /\ Goto(t, "perform")
  /\ UNCHANGED <<style, statics, trees, textIn, userIn, asked, inbox, task, posted, replies, history>>

\* send(.., buff, ..): what was put there, or the question still.
Reply(t, text) ==
  /\ replies' = replies \cup {[n |-> task[t].n, answer |-> text]}
  /\ task' = [task EXCEPT ![t] = NULL] /\ post' = [post EXCEPT ![t] = NULL]
  /\ Goto(t, "loop")
  /\ UNCHANGED <<style, statics, memory, asked, inbox, fault, overlapped, clashed, initRaced,
                 releasedUnder>>

Posted(t) == posted' = posted \cup {[n |-> task[t].n, fd |-> task[t].fd,
                                     text |-> post[t].text, user |-> post[t].user]}

\* The answer comes in one chunk; its text replaces the question in buff.
Answered(t) ==
  /\ pc[t] = "perform"
  /\ Posted(t) /\ Reply(t, [kind |-> "answer", to |-> post[t].text])
  /\ UNCHANGED failed

\* Mutant: nothing sent when there is no answer.
NotUnderstoodUnsent(t) ==
  /\ pc[t] = "perform"
  /\ Posted(t)
  /\ task' = [task EXCEPT ![t] = NULL] /\ post' = [post EXCEPT ![t] = NULL]
  /\ Goto(t, "loop")
  /\ UNCHANGED <<style, statics, memory, asked, inbox, replies, fault, history>>

\* write_data puts every chunk at the start, so of several the last stands there and does
\* not parse as a result; nor does an answer without a text.
NotUnderstood(t) ==
  /\ pc[t] = "perform"
  /\ Posted(t) /\ Reply(t, [kind |-> "own", to |-> task[t].n])
  /\ UNCHANGED failed

\* Mutant: the buffer of the transfer kept from call to call.
TransferFailsSilently(t) ==
  /\ pc[t] = "perform"
  /\ \E p \in posted : Reply(t, [kind |-> "answer", to |-> p.text])
  /\ UNCHANGED <<posted, failed>>

\* The service cannot be reached: fptr was not cleared by malloc and is parsed as it is,
\* with what was freed there before, perhaps an earlier answer.
TransferFails(t) ==
  /\ pc[t] = "perform"
  /\ \/ Reply(t, [kind |-> "own", to |-> task[t].n])
     \/ \E p \in posted : Reply(t, [kind |-> "answer", to |-> p.text])
  /\ failed' = failed \cup {task[t].n}
  /\ UNCHANGED posted

\* No time limit is set: the transfer of a stalled service does not return.
Stall(t) ==
  /\ pc[t] = "perform"
  /\ Goto(t, "stalled")
  /\ UNCHANGED <<style, statics, memory, work, fault, history>>

-------------------------------------------------------------------------------
(* The end of a client's thread *)

\* The client has gone; or setsockopt failed, before InitTulingApi.
Leave(t) ==
  /\ style = "client" /\ pc[t] \in {"start", "loop"}
  /\ Goto(t, "release")
  /\ releasedUnder' = (releasedUnder \/ pc[t] = "start")
  /\ UNCHANGED <<style, statics, memory, work, fault, overlapped, clashed, initRaced, failed>>

\* ReleaseTulingApi: the tree in root is deleted, whoever parsed it; root keeps its address.
Release(t) ==
  /\ pc[t] = "release"
  /\ fault' = (root # NULL /\ (trees[root] = "dead" \/ \E u \in Threads : using[u] # NULL /\ using[u].tree = root))
  /\ trees' = IF root = NULL THEN trees ELSE [trees EXCEPT ![root] = "dead"]
  /\ releasedUnder' = (releasedUnder \/ \E u \in Threads \ {t} : Active(u))
  /\ Goto(t, "ended")
  /\ UNCHANGED <<style, statics, textIn, userIn, using, work, overlapped, clashed, initRaced, failed>>

InitStep(t) == Parse(t) \/ FindPerception(t) \/ FindInputText(t) \/ FindUserInfo(t)

CallStep(t) ==
  \/ Take(t) \/ ReplaceText(t) \/ TextReplaced(t) \/ ReplaceUser(t) \/ UserReplaced(t)
  \/ PrintRoot(t) \/ Printed(t)
  \/ Answered(t) \/ NotUnderstood(t) \/ TransferFails(t)

ThreadStep(t) == InitStep(t) \/ CallStep(t) \/ Release(t)

Next ==
  /\ ~fault
  /\ \/ Ask
     \/ \E t \in Threads : ThreadStep(t) \/ Stall(t) \/ Leave(t)

Spec == Init /\ [][Next]_vars

\* Every thread goes on, but for one whose transfer stalls.
FairSpec == Spec /\ \A t \in Threads : WF_vars(~fault /\ ThreadStep(t))

-------------------------------------------------------------------------------
(* Properties *)

\* Memory is safe as long as no two calls overlap and no thread releases the tree while
\* another lives or without having parsed it: neither the pointer that ReleaseTulingApi
\* leaves in root nor threads that initialise one another's tree away do harm by themselves.
FaultNeedsSharing == fault => clashed \/ releasedUnder

\* The digests of "abc" and of eighty digits, and the blocks the transformation is given
\* for messages of all lengths, in two pieces: those of the padded message.
DigestsAgree ==
  LET message(n) == [i \in 1..n |-> i % 256]
      padded(n) == message(n) \o SubSeq(PADDING, 1, 1 + ((119 - (n % 64)) % 64)) \o LengthBytes(8 * n)
      split(n, k) == MD5Update(MD5Update(MD5Init, SubSeq(message(n), 1, k)), SubSeq(message(n), k + 1, n))
  IN  /\ \A n \in 0..130 : \A k \in {0, 1, n \div 2, n} \cap 0..n :
           FlattenSeq(MD5Final(split(n, k))) = padded(n)
      /\ Hex(Digest(<<97, 98, 99>>)) =
           <<9,0,0,1,5,0,9,8,3,12,13,2,4,15,11,0,13,6,9,6,3,15,7,13,2,8,14,1,7,15,7,2>>
      /\ Hex(Digest([i \in 1..80 |-> 48 + (i % 10)])) =
           <<5,7,14,13,15,4,10,2,2,11,14,3,12,9,5,5,10,12,4,9,13,10,2,14,2,1,0,7,11,6,7,10>>

\* The user id put into a request is a digest as RFC 1321 defines it: known digests come
\* out, and MD5Update and MD5Final feed every message whole, once and padded.
DigestIsMd5 == \A t \in Threads : pc[t] = "userDone" => DigestsAgree

\* A question is put to the service with its own text and its own client's user id, and is
\* not disturbed by what other threads did before: only by a call or an InitTulingApi
\* at the same time, or if the threads' initialisations met.
PostedUndisturbed ==
  \A p \in posted :
    (p.n \notin overlapped /\ ~initRaced) => p.text = p.n /\ p.user = UserId[p.fd]

\* A question is put to the service as it was asked, and the user id is the MD5 digest it
\* should be.
QuestionIsOwn == DigestIsMd5 /\ PostedUndisturbed

\* What a client gets is the answer to the question that was sent for it, or the question
\* itself, once; another answer only if its own transfer failed.
AnswerIsOwn ==
  /\ \A r, s \in replies : r.n = s.n => r = s
  /\ \A r \in replies :
       (r.n \notin failed /\ r.answer.kind = "answer") =>
         \E p \in posted : p.n = r.n /\ p.text = r.answer.to

\* Every question is answered in the end, with an answer or with itself, although another
\* thread's transfer may never return - unless that happens to its own transfer, to all
\* workers, or its client's thread has ended, or memory was corrupted.
QuestionAnswered ==
  \A n \in 1..MaxQuestions :
    (asked >= n) ~>
      \/ \E r \in replies : r.n = n
      \/ fault
      \/ \E t \in Threads : pc[t] = "stalled" /\ task[t].n = n
      \/ style = "queue" /\ \A t \in Threads : pc[t] = "stalled"
      \/ style = "client" /\ \E i \in DOMAIN inbox : inbox[i].n = n /\
           \A t \in Threads : FdOf[t] = inbox[i].fd => pc[t] \in {"stalled", "ended"}

================================================================================
