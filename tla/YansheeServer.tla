---------------------------- MODULE YansheeServer ----------------------------
(***************************************************************************)
(* robot-switch-fifo/yanshee-server/task_work.c: the one worker thread     *)
(* between the task list and the robot, and the robot's own program        *)
(* (yanshee-client-c/test.c), which connects to the worker's second        *)
(* listening port.                                                         *)
(*                                                                         *)
(* The worker takes a task, refuses it or forwards its command to the      *)
(* robot, and then waits until the robot's tokens "start" and "done" have  *)
(* come back; the robot handles one command at a time.  Both talk over a   *)
(* TCP stream, which may hand several tokens to one recv.  The epoll       *)
(* thread appears only as the one that puts tasks into the list.           *)
(***************************************************************************)
EXTENDS Naturals, Sequences, FiniteSets

CONSTANTS
  Cmds,            \* the contents a command buffer can have
  Banned,          \* those that start with the refused dance
  MaxTasks,        \* tasks that clients put in the list (bound)
  Sessions,        \* connections the robot will make, 1..n; the last one stays
  MayCoalesce,     \* one recv may return "startdone"
  AcceptMayFail,   \* the unchecked accept may return -1
  NULL

ASSUME CmdsAssumption ==
  Banned \subseteq Cmds /\ NULL \notin Cmds /\ NULL \notin [id : Nat, cmd : Cmds]
ASSUME SessionsAssumption == Sessions \subseteq Nat \ {0} /\ IsFiniteSet(Sessions)
ASSUME ChoicesAssumption ==
  MaxTasks \in Nat /\ MayCoalesce \in BOOLEAN /\ AcceptMayFail \in BOOLEAN

NoSession == 0     \* connFd is -1, or not a connection yet

VARIABLES
  puts,            \* tasks put so far; a task's id is its place in that order
  queue,           \* gpTaskList
  wpc,             \* where the worker stands
  task,            \* the task it holds, or NULL
  last,            \* last_buffer; NULL while it is all zeros
  dirty,           \* buf holds bytes that match neither token
  connFd,          \* the robot's connection the worker uses, or NoSession
  waiting,         \* robot connections in the accept queue of the robot port
  link,            \* each connection: "absent", "up" or "gone" (closed by the robot)
  toRobot,         \* commands sent and not yet received by the robot
  acting,          \* what the robot received in one recv and is performing
  toServer,        \* tokens the robot sent and the worker has not received
  executed,        \* history: the tasks whose ubtStartRobotAction has returned, in order
  failed,          \* history: those of which it returned a failure
  replies,         \* history: what was sent back for each task
  lost,            \* history: tasks whose command went to no live connection
  glued            \* history: tasks of which one recv returned both tokens

worker == <<wpc, task, last, dirty, connFd>>
robot == <<link, acting>>
wire == <<toRobot, toServer>>
history == <<executed, failed, replies, lost, glued>>
vars == <<puts, queue, worker, waiting, robot, wire, history>>

TaskIds == 1..MaxTasks
Task == [id : TaskIds, cmd : Cmds]

Init ==
  /\ puts = 0 /\ queue = <<>>
  /\ wpc = "accept" /\ task = NULL /\ last = NULL /\ dirty = FALSE
  /\ connFd = NoSession
  /\ waiting = <<>>
  /\ link = [s \in Sessions |-> "absent"]
  /\ acting = [s \in Sessions |-> <<>>]
  /\ toRobot = [s \in Sessions |-> <<>>]
  /\ toServer = [s \in Sessions |-> <<>>]
  /\ executed = <<>> /\ failed = {}
  /\ replies = [n \in TaskIds |-> <<>>]
  /\ lost = {} /\ glued = {}

-------------------------------------------------------------------------------
(* The epoll thread: in_task_woker_callback *)

PutTask(cmd) ==
  /\ puts < MaxTasks
  /\ puts' = puts + 1
  /\ queue' = Append(queue, [id |-> puts + 1, cmd |-> cmd])
  /\ UNCHANGED <<worker, waiting, robot, wire, history>>

-------------------------------------------------------------------------------
(* The worker *)

Reply(kind) == replies' = [replies EXCEPT ![task.id] = Append(@, kind)]

\* CheckSocketConnected: TCP_INFO says the connection is established.
Connected == connFd # NoSession /\ link[connFd] = "up"

\* The loop at the start: accept until it succeeds.
FirstAccept ==
  /\ wpc = "accept"
  /\ waiting # <<>>
  /\ connFd' = Head(waiting)
  /\ waiting' = Tail(waiting)
  /\ wpc' = "check"
  /\ UNCHANGED <<puts, queue, task, last, dirty, robot, wire, history>>

CheckRobot ==
  /\ wpc = "check"
  /\ wpc' = IF Connected THEN "get" ELSE "reaccept"
  /\ UNCHANGED <<puts, queue, task, last, dirty, connFd, waiting, robot, wire, history>>

\* The second accept, whose result is used unchecked.
Reaccept ==
  /\ wpc = "reaccept"
  /\ \/ /\ waiting # <<>>
        /\ connFd' = Head(waiting)
        /\ waiting' = Tail(waiting)
     \/ /\ AcceptMayFail
        /\ connFd' = NoSession
        /\ UNCHANGED waiting
  /\ wpc' = "get"
  /\ UNCHANGED <<puts, queue, task, last, dirty, robot, wire, history>>

TakeTask ==
  /\ wpc = "get"
  /\ queue # <<>>
  /\ task' = Head(queue)
  /\ queue' = Tail(queue)
  /\ wpc' = "compare"
  /\ UNCHANGED <<puts, last, dirty, connFd, waiting, robot, wire, history>>

\* The end label: the task is freed and the loop starts again.
FreeTask == task' = NULL /\ wpc' = "check"

\* memcmp(last_buffer, task->pszBuffer, MAXLINE) == 0
RefuseRepeat ==
  /\ wpc = "compare"
  /\ task.cmd = last
  /\ Reply("repeat")
  /\ dirty' = FALSE
  /\ FreeTask
  /\ UNCHANGED <<puts, queue, last, connFd, waiting, robot, wire, executed, failed, lost, glued>>

\* Mutant: a refused command is not remembered.
RefuseBannedForgets ==
  /\ wpc = "compare"
  /\ task.cmd # last
  /\ task.cmd \in Banned
  /\ Reply("banned")
  /\ FreeTask
  /\ UNCHANGED <<puts, queue, last, dirty, connFd, waiting, robot, wire, executed, failed, lost, glued>>

RefuseBanned ==
  /\ wpc = "compare"
  /\ task.cmd # last
  /\ task.cmd \in Banned
  /\ last' = task.cmd
  /\ Reply("banned")
  /\ FreeTask
  /\ UNCHANGED <<puts, queue, dirty, connFd, waiting, robot, wire, executed, failed, lost, glued>>

\* send(connFd, ...), whose result is not looked at
Forward ==
  /\ wpc = "compare"
  /\ task.cmd # last
  /\ task.cmd \notin Banned
  /\ last' = task.cmd
  /\ IF Connected
     THEN toRobot' = [toRobot EXCEPT ![connFd] = Append(@, task)] /\ UNCHANGED lost
     ELSE lost' = lost \cup {task.id} /\ UNCHANGED toRobot
  /\ dirty' = FALSE
  /\ wpc' = "recv"
  /\ UNCHANGED <<puts, queue, task, connFd, waiting, robot, toServer, executed, failed, replies, glued>>

\* One recv that returned the next token alone, into a buffer of zeros.
RecvToken(token) ==
  /\ wpc = "recv"
  /\ connFd # NoSession
  /\ toServer[connFd] # <<>>
  /\ Head(toServer[connFd]) = token
  /\ ~dirty
  /\ toServer' = [toServer EXCEPT ![connFd] = Tail(@)]

\* Mutant: break instead of continue after "start".
RecvStartBreaks ==
  /\ RecvToken("start")
  /\ Reply("start")
  /\ FreeTask
  /\ UNCHANGED <<puts, queue, last, dirty, connFd, waiting, robot, toRobot, executed, failed, lost, glued>>

\* Mutant: buf not cleared after "start", so that "done" becomes "donet".
RecvStartUncleared ==
  /\ RecvToken("start")
  /\ Reply("start")
  /\ dirty' = TRUE
  /\ UNCHANGED <<puts, queue, wpc, task, last, connFd, waiting, robot, toRobot, executed, failed, lost, glued>>

RecvStart ==
  /\ RecvToken("start")
  /\ Reply("start")
  /\ UNCHANGED <<puts, queue, worker, waiting, robot, toRobot, executed, failed, lost, glued>>

RecvDone ==
  /\ RecvToken("done")
  /\ Reply("done")
  /\ FreeTask
  /\ UNCHANGED <<puts, queue, last, dirty, connFd, waiting, robot, toRobot, executed, failed, lost, glued>>

\* A recv that returned "startdone", or wrote over bytes that were not cleared: the
\* buffer equals neither token, and stays so.
RecvUnmatched ==
  /\ wpc = "recv"
  /\ connFd # NoSession
  /\ \E k \in 1..Len(toServer[connFd]) :
       /\ dirty \/ (MayCoalesce /\ k > 1)
       /\ toServer' = [toServer EXCEPT ![connFd] = SubSeq(@, k + 1, Len(@))]
       /\ glued' = IF k > 1 THEN glued \cup {task.id} ELSE glued
  /\ dirty' = TRUE
  /\ UNCHANGED <<puts, queue, wpc, task, last, connFd, waiting, robot, toRobot,
                 executed, failed, replies, lost>>

\* Mutant: the loop goes on when recv returns 0.
RecvClosedIgnored ==
  /\ wpc = "recv"
  /\ connFd # NoSession
  /\ toServer[connFd] = <<>>
  /\ link[connFd] = "gone"
  /\ UNCHANGED vars

\* Mutant: an unfinished task is put back at the head of the list.
RecvClosedRetries ==
  /\ wpc = "recv"
  /\ connFd # NoSession
  /\ toServer[connFd] = <<>>
  /\ link[connFd] = "gone"
  /\ queue' = <<task>> \o queue
  /\ last' = NULL
  /\ FreeTask
  /\ UNCHANGED <<puts, dirty, connFd, waiting, robot, wire, history>>

\* Mutant: an unfinished task is reported as done.
RecvClosedSaysDone ==
  /\ wpc = "recv"
  /\ connFd # NoSession
  /\ toServer[connFd] = <<>>
  /\ link[connFd] = "gone"
  /\ Reply("done")
  /\ FreeTask
  /\ UNCHANGED <<puts, queue, last, dirty, connFd, waiting, robot, wire, executed, failed, lost, glued>>

\* recv returned 0: the robot closed, the loop ends without a word to the client
RecvClosed ==
  /\ wpc = "recv"
  /\ connFd # NoSession
  /\ toServer[connFd] = <<>>
  /\ link[connFd] = "gone"
  /\ FreeTask
  /\ UNCHANGED <<puts, queue, last, dirty, connFd, waiting, robot, wire, history>>

WorkerStep ==
  \/ FirstAccept \/ CheckRobot \/ Reaccept \/ TakeTask
  \/ RefuseRepeat \/ RefuseBanned \/ Forward
  \/ RecvStart \/ RecvDone \/ RecvUnmatched \/ RecvClosed

-------------------------------------------------------------------------------
(* The robot's program; each connection is one run of it *)

RobotConnect(s) ==
  /\ link[s] = "absent"
  /\ \A r \in Sessions : r < s => link[r] = "gone"
  /\ link' = [link EXCEPT ![s] = "up"]
  /\ waiting' = Append(waiting, s)
  /\ UNCHANGED <<puts, queue, worker, acting, wire, history>>

\* recv(.., MSG_WAITALL) returns all that has arrived; then send "start"
RobotTake(s) ==
  /\ link[s] = "up"
  /\ acting[s] = <<>>
  /\ toRobot[s] # <<>>
  /\ acting' = [acting EXCEPT ![s] = toRobot[s]]
  /\ toRobot' = [toRobot EXCEPT ![s] = <<>>]
  /\ toServer' = [toServer EXCEPT ![s] = Append(@, "start")]
  /\ UNCHANGED <<puts, queue, worker, waiting, link, history>>

\* ubtStartRobotAction has returned, with success or any of the failures of
\* UBTEDU_RC_T, which the program does not look at; send "done"
RobotDone(s) ==
  /\ link[s] = "up"
  /\ acting[s] # <<>>
  /\ executed' = Append(executed, acting[s][1].id)
  /\ \/ UNCHANGED failed
     \/ failed' = failed \cup {acting[s][1].id}
  /\ acting' = [acting EXCEPT ![s] = <<>>]
  /\ toServer' = [toServer EXCEPT ![s] = Append(@, "done")]
  /\ UNCHANGED <<puts, queue, worker, waiting, link, toRobot, replies, lost, glued>>

\* The program ends or its connection breaks, at any point; what it had received and
\* not performed is gone with it.
RobotLeaves(s) ==
  /\ link[s] = "up"
  /\ \E r \in Sessions : r > s
  /\ link' = [link EXCEPT ![s] = "gone"]
  /\ acting' = [acting EXCEPT ![s] = <<>>]
  /\ toRobot' = [toRobot EXCEPT ![s] = <<>>]
  /\ UNCHANGED <<puts, queue, worker, waiting, toServer, history>>

RobotStep(s) == RobotConnect(s) \/ RobotTake(s) \/ RobotDone(s)

Next ==
  \/ \E cmd \in Cmds : PutTask(cmd)
  \/ WorkerStep
  \/ \E s \in Sessions : RobotStep(s) \/ RobotLeaves(s)

Spec == Init /\ [][Next]_vars

\* The worker runs; the robot's program connects again after it left, and tries what
\* it receives.  Nothing obliges it to leave, nor a client to send.
Fairness == WF_vars(WorkerStep) /\ \A s \in Sessions : WF_vars(RobotStep(s))

FairSpec == Spec /\ Fairness

-------------------------------------------------------------------------------
(* Properties *)

\* The variables of in_task_worker_thread_start and of main in test.c hold values
\* their code can give them.
TypeOK ==
  /\ puts \in 0..MaxTasks /\ queue \in Seq(Task)
  /\ wpc \in {"accept", "check", "reaccept", "get", "compare", "recv"}
  /\ task \in Task \cup {NULL}
  /\ wpc \in {"compare", "recv"} <=> task # NULL
  /\ last \in Cmds \cup {NULL} /\ dirty \in BOOLEAN
  /\ connFd \in Sessions \cup {NoSession}
  /\ waiting \in Seq(Sessions)
  /\ link \in [Sessions -> {"absent", "up", "gone"}]
  /\ toRobot \in [Sessions -> Seq(Task)] /\ acting \in [Sessions -> Seq(Task)]
  /\ toServer \in [Sessions -> Seq({"start", "done"})]
  /\ executed \in Seq(TaskIds) /\ failed \subseteq TaskIds
  /\ lost \subseteq TaskIds /\ glued \subseteq TaskIds
  /\ replies \in [TaskIds -> Seq({"repeat", "banned", "start", "done"})]

\* The robot never has a second command before the first is answered, so that its
\* recv, which takes all bytes of two seconds, never glues two commands together:
\* what it holds is the worker's current task, and the worker waits for it.
OneCommandOnWire ==
  /\ TypeOK
  /\ \A s \in Sessions :
       LET held == toRobot[s] \o acting[s] IN
         /\ Len(held) <= 1
         /\ held # <<>> => held = <<task>> /\ wpc = "recv" /\ connFd = s

\* The robot carries commands out in the order the clients' tasks were put, none twice,
\* across failed actions, lost connections, restarts and unread answers.
ExecutedInOrder == \A i, j \in 1..Len(executed) : i < j => executed[i] < executed[j]

\* The robot's call for task n has ended, well or not.
Tried(n) == \E i \in 1..Len(executed) : executed[i] = n

\* What a client hears of its task is in the order of what happens to it: refused, or
\* started and then done, and done only once the robot's call for this very task has
\* ended.  That the action succeeded is not promised: nobody looks at failed.
AnswersFollowRobot ==
  \A n \in TaskIds :
    /\ replies[n] \in {<<>>, <<"repeat">>, <<"banned">>, <<"start">>, <<"start", "done">>}
    /\ replies[n] = <<"start", "done">> => Tried(n)

-------------------------------------------------------------------------------
(* The service the worker and the robot's program give together *)

\* The robot has sent "start" for the worker's task.
Begun == replies[task.id] # <<>> \/ \E s \in Sessions : toServer[s] # <<>>

\* What has become of the worker's task, whichever place it or its tokens are in.
Stage ==
  IF wpc = "compare" THEN "taken"
  ELSE IF wpc # "recv" THEN "none"
  ELSE IF Tried(task.id) THEN "tried"
  ELSE IF Begun THEN "started" ELSE "handed"

Service == INSTANCE RobotService
  WITH accepted <- puts, line <- queue, current <- task, stage <- Stage,
       previous <- last, tried <- executed, told <- replies

\* The worker, the robot's program and the stream between them implement RobotService:
\* one command at a time is refused or handed over, tried at most once, and its
\* client hears no more than what has happened - however the two programs interleave,
\* connections break and tokens arrive glued together or never.
Refinement == Service!Spec

Queued(n) == \E i \in 1..Len(queue) : queue[i].id = n
Settled(n) == ~Queued(n) /\ (task # NULL => task.id # n)

LastSession == CHOOSE s \in Sessions : \A r \in Sessions : r <= s

\* The two ways the worker stops for good: it waits on the descriptor -1 that the
\* unchecked accept gave it, or, on a connection that stays, for tokens that one recv
\* has already swallowed.
Wedged ==
  wpc = "recv" /\ (connFd = NoSession \/ (link[connFd] = "up" /\ task.id \in glued))

\* The worker gets past every task, also when the robot leaves in the middle of it,
\* unless it stops for good in one of those two ways: nothing else stops it.
EveryTaskSettled ==
  \A n \in TaskIds : (n <= puts ~> Settled(n)) \/ <>[]Wedged

\* Once the worker uses a connection that stays, every command in the list is tried by
\* the robot and answered, or refused, whatever earlier connections and failed actions
\* did to the worker - unless it stops for good in one of those two ways.
CommandsAnswered ==
  \A n \in TaskIds :
    \/ (connFd = LastSession /\ Queued(n))
         ~> replies[n] \in {<<"repeat">>, <<"banned">>, <<"start", "done">>}
    \/ <>[]Wedged

\* "The server forwards the command to the robot": no command is accepted and then
\* sent to a connection whose robot has left.
CommandForwarded == lost = {}

===============================================================================
