----------------------------- MODULE YansheeProofs -----------------------------
(***************************************************************************)
(* What YansheeServer guarantees for any number of tasks, contents and     *)
(* robot connections: that one command is under way at a time, that        *)
(* commands are tried in order and none twice, and that a client hears no  *)
(* more than what the robot has come to.  All follow from IInv, which says *)
(* where the current command and its two tokens can be.                    *)
(***************************************************************************)
EXTENDS YansheeServer, SequenceFacts

-------------------------------------------------------------------------------
(* The inductive invariant *)

\* How many tasks have left the list; the worker's is the last of them.
Taken == puts - Len(queue)

\* The list holds the tasks put last, in the order of their numbers.
NumbersOK ==
  /\ Len(queue) <= puts
  /\ \A i \in 1..Len(queue) : queue[i].id = Taken + i
  /\ task # NULL => task.id = Taken

\* Nothing is under way on a connection the worker does not wait for.
QuietElsewhere ==
  \A s \in Sessions : ~(wpc = "recv" /\ connFd = s) =>
    toRobot[s] = <<>> /\ acting[s] = <<>> /\ toServer[s] = <<>>

\* What the robot had not tried is gone with its connection.
OnlyLiveLinksCarry ==
  \A s \in Sessions : link[s] # "up" => toRobot[s] = <<>> /\ acting[s] = <<>>

\* Where the command stands that the worker waits for: on its way, being tried,
\* tried, or lost with the connection; each token is on its way back, answered, or
\* swallowed by a recv that returned both.
Way(s, answer) ==
  \/ toRobot[s] = <<task>> /\ acting[s] = <<>> /\ toServer[s] = <<>> /\ answer = <<>> /\ ~dirty
  \/ /\ toRobot[s] = <<>> /\ acting[s] = <<task>> /\ ~dirty
     /\ \/ toServer[s] = <<"start">> /\ answer = <<>>
        \/ toServer[s] = <<>> /\ answer = <<"start">>
  \/ /\ toRobot[s] = <<>> /\ acting[s] = <<>> /\ ~dirty
     /\ \/ toServer[s] = <<>> /\ answer = <<>>
        \/ toServer[s] = <<"start">> /\ answer = <<>>
        \/ toServer[s] = <<>> /\ answer = <<"start">>
        \/ toServer[s] = <<"start", "done">> /\ answer = <<>> /\ Tried(task.id)
        \/ toServer[s] = <<"done">> /\ answer = <<"start">> /\ Tried(task.id)
  \/ toRobot[s] = <<>> /\ acting[s] = <<>> /\ toServer[s] = <<>> /\ answer = <<>> /\ dirty

CommandUnderWay ==
  wpc = "recv" =>
    IF connFd = NoSession THEN replies[task.id] = <<>> ELSE Way(connFd, replies[task.id])

\* Tasks still in the list, and the one just taken, have had no answer.
Unanswered ==
  \A n \in TaskIds : n > Taken \/ (wpc = "compare" /\ n = task.id) => replies[n] = <<>>

\* The robot is about to try the current task, or still may.
Pending ==
  \/ wpc = "compare"
  \/ wpc = "recv" /\ connFd # NoSession /\ (toRobot[connFd] # <<>> \/ acting[connFd] # <<>>)

\* Only tasks that left the list have been tried, and not yet the pending one.
ExecutedOK ==
  \A i \in 1..Len(executed) : executed[i] <= Taken /\ (Pending => executed[i] < task.id)

IInv ==
  /\ TypeOK /\ NumbersOK /\ QuietElsewhere /\ OnlyLiveLinksCarry /\ CommandUnderWay
  /\ Unanswered /\ ExecutedOK /\ ExecutedInOrder /\ AnswersFollowRobot

-------------------------------------------------------------------------------
(* The inductive invariant holds initially and is kept by every step *)

\* The constants are what the code's pointers and descriptors are: no task is NULL, and
\* no connection is the absent one.
LEMMA Basics ==
  /\ NULL \notin Task /\ NoSession \notin Sessions
  /\ \A t \in Task : t.id \in TaskIds /\ t.cmd \in Cmds
  /\ TaskIds = 1..MaxTasks /\ MaxTasks \in Nat
<1>1. NULL \notin Task
  BY CmdsAssumption DEF Task, TaskIds
<1> QED
  BY <1>1, SessionsAssumption, ChoicesAssumption DEF Task, TaskIds, NoSession

\* What Append makes of the robot's two tokens.
LEMMA TokenSeqs ==
  /\ Append(<<>>, "start") = <<"start">> /\ Append(<<>>, "done") = <<"done">>
  /\ Append(<<"start">>, "done") = <<"start", "done">>
BY ShortSeqs

\* The numbers of tasks in the list are above that of the worker's.
LEMMA TakenFacts ==
  ASSUME TypeOK, NumbersOK
  PROVE  Taken \in Nat /\ (task # NULL => \A n \in TaskIds : n > Taken => n # task.id)
BY Basics, SeqNonEmpty, SMT DEF TypeOK, NumbersOK, Taken

\* A reply adds one answer to those of the worker's task.
Answers == {"repeat", "banned", "start", "done"}

LEMMA ReplyFacts ==
  ASSUME TypeOK, task # NULL, NEW kind \in Answers, Reply(kind)
  PROVE  /\ task.id \in TaskIds
         /\ replies[task.id] \in Seq(Answers)
         /\ replies' \in [TaskIds -> Seq(Answers)]
         /\ replies'[task.id] = Append(replies[task.id], kind)
         /\ \A n \in TaskIds : n # task.id => replies'[n] = replies[n]
<1>1. task.id \in TaskIds /\ replies \in [TaskIds -> Seq(Answers)]
  BY Basics DEF TypeOK, Answers
<1>2. Append(replies[task.id], kind) \in Seq(Answers)
  BY <1>1, AppendIndex
<1> QED
  BY <1>1, <1>2 DEF Reply

\* Nothing has been put, sent, tried or answered at the start.
LEMMA InitInv == Init => IInv
<1> SUFFICES ASSUME Init PROVE IInv
  OBVIOUS
<1> USE Basics DEF Init
<1>1. TypeOK
  <2>1. /\ <<>> \in Seq(Task) /\ <<>> \in Seq(Sessions) /\ <<>> \in Seq(TaskIds)
        /\ <<>> \in Seq({"start", "done"})
        /\ <<>> \in Seq({"repeat", "banned", "start", "done"})
    OBVIOUS
  <2>2. /\ puts \in 0..MaxTasks
        /\ wpc \in {"accept", "check", "reaccept", "get", "compare", "recv"}
        /\ wpc \in {"compare", "recv"} <=> task # NULL
    OBVIOUS
  <2> QED BY <2>1, <2>2 DEF TypeOK
<1>2. NumbersOK /\ QuietElsewhere /\ OnlyLiveLinksCarry /\ CommandUnderWay /\ Unanswered
  BY DEF NumbersOK, QuietElsewhere, OnlyLiveLinksCarry, CommandUnderWay, Unanswered
<1>3. ExecutedOK /\ ExecutedInOrder /\ AnswersFollowRobot
  BY DEF ExecutedOK, ExecutedInOrder, AnswersFollowRobot, Tried
<1> QED
  BY <1>1, <1>2, <1>3 DEF IInv

\* A new task goes behind the others; its number is the next.
LEMMA PutTaskInv ==
  ASSUME IInv, NEW cmd \in Cmds, PutTask(cmd)
  PROVE  IInv'
<1> USE Basics DEF IInv, PutTask, worker, robot, wire, history
<1> DEFINE t == [id |-> puts + 1, cmd |-> cmd]
<1>0. /\ t \in Task /\ queue' \in Seq(Task) /\ Len(queue') = Len(queue) + 1
      /\ \A i \in 1..Len(queue) : queue'[i] = queue[i]
      /\ queue'[Len(queue) + 1] = t
  <2>1. t \in Task
    BY DEF TypeOK, Task, TaskIds
  <2> QED BY <2>1, AppendIndex DEF TypeOK
<1>1. TypeOK'
  BY <1>0, SMT DEF TypeOK
<1>2. NumbersOK' /\ Taken' = Taken
  <2>1. Taken' = Taken /\ Len(queue') <= puts' /\ Len(queue) \in Nat
    BY <1>0, SeqNonEmpty DEF TypeOK, NumbersOK, Taken
  <2>2. t.id = Taken + (Len(queue) + 1)
    BY <2>1 DEF TypeOK, Taken
  <2>3. \A i \in 1..Len(queue') : queue'[i].id = Taken + i
    <3> SUFFICES ASSUME NEW i \in 1..Len(queue') PROVE queue'[i].id = Taken + i
      OBVIOUS
    <3>1. CASE i \in 1..Len(queue)
      BY <3>1, <1>0 DEF NumbersOK
    <3>2. CASE i = Len(queue) + 1
      BY <3>2, <1>0, <2>2
    <3> QED BY <1>0, <2>1, <3>1, <3>2
  <2> QED BY <2>1, <2>3 DEF NumbersOK
<1>3. QuietElsewhere'
  BY DEF TypeOK, QuietElsewhere
<1>4. CommandUnderWay'
  BY DEF TypeOK, CommandUnderWay, Way, Tried
<1>5. Unanswered'
  BY <1>2 DEF Unanswered
<1>6. ExecutedOK'
  BY <1>2 DEF ExecutedOK, Pending
<1>7. ExecutedInOrder'
  BY DEF ExecutedInOrder
<1>8. AnswersFollowRobot'
  BY DEF AnswersFollowRobot, Tried
<1>9. OnlyLiveLinksCarry'
  BY DEF TypeOK, OnlyLiveLinksCarry
<1> QED
  BY <1>1, <1>2, <1>3, <1>4, <1>5, <1>6, <1>7, <1>8, <1>9

\* The first connection: nothing has been sent over any.
LEMMA FirstAcceptInv ==
  ASSUME IInv, FirstAccept
  PROVE  IInv'
<1> USE Basics DEF IInv, FirstAccept, worker, robot, wire, history
<1>1. TypeOK'
  <2>1. waiting # <<>> => Head(waiting) \in Sessions /\ Tail(waiting) \in Seq(Sessions)
    BY TailIndex, HeadIndex DEF TypeOK
  <2> QED BY <2>1 DEF TypeOK
<1>2. NumbersOK'
  BY DEF TypeOK, NumbersOK, Taken
<1>3. QuietElsewhere'
  BY DEF TypeOK, QuietElsewhere
<1>4. CommandUnderWay'
  BY DEF TypeOK, CommandUnderWay, Way, Tried
<1>5. Unanswered'
  BY DEF TypeOK, NumbersOK, Unanswered, Taken
<1>6. ExecutedOK'
  BY DEF TypeOK, NumbersOK, ExecutedOK, Taken, Pending
<1>7. ExecutedInOrder'
  BY DEF ExecutedInOrder
<1>8. AnswersFollowRobot'
  BY DEF AnswersFollowRobot, Tried
<1>9. OnlyLiveLinksCarry'
  BY DEF TypeOK, OnlyLiveLinksCarry
<1> QED
  BY <1>1, <1>2, <1>3, <1>4, <1>5, <1>6, <1>7, <1>8, <1>9

\* The look at the connection sends nothing.
LEMMA CheckRobotInv ==
  ASSUME IInv, CheckRobot
  PROVE  IInv'
<1> USE Basics DEF IInv, CheckRobot, Connected, worker, robot, wire, history
<1>1. TypeOK'
  BY DEF TypeOK
<1>2. NumbersOK'
  BY DEF TypeOK, NumbersOK, Taken
<1>3. QuietElsewhere'
  BY DEF TypeOK, QuietElsewhere
<1>4. CommandUnderWay'
  BY DEF TypeOK, CommandUnderWay, Way, Tried
<1>5. Unanswered'
  BY DEF TypeOK, NumbersOK, Unanswered, Taken
<1>6. ExecutedOK'
  BY DEF TypeOK, NumbersOK, ExecutedOK, Taken, Pending
<1>7. ExecutedInOrder'
  BY DEF ExecutedInOrder
<1>8. AnswersFollowRobot'
  BY DEF AnswersFollowRobot, Tried
<1>9. OnlyLiveLinksCarry'
  BY DEF TypeOK, OnlyLiveLinksCarry
<1> QED
  BY <1>1, <1>2, <1>3, <1>4, <1>5, <1>6, <1>7, <1>8, <1>9

\* The second accept leaves the command for the next steps.
LEMMA ReacceptInv ==
  ASSUME IInv, Reaccept
  PROVE  IInv'
<1> USE Basics DEF IInv, Reaccept, worker, robot, wire, history
<1>1. TypeOK'
  <2>1. waiting # <<>> => Head(waiting) \in Sessions /\ Tail(waiting) \in Seq(Sessions)
    BY TailIndex, HeadIndex DEF TypeOK
  <2> QED BY <2>1 DEF TypeOK
<1>2. NumbersOK'
  BY DEF TypeOK, NumbersOK, Taken
<1>3. QuietElsewhere'
  BY DEF TypeOK, QuietElsewhere
<1>4. CommandUnderWay'
  BY DEF TypeOK, CommandUnderWay, Way, Tried
<1>5. Unanswered'
  BY DEF TypeOK, NumbersOK, Unanswered, Taken
<1>6. ExecutedOK'
  BY DEF TypeOK, NumbersOK, ExecutedOK, Taken, Pending
<1>7. ExecutedInOrder'
  BY DEF ExecutedInOrder
<1>8. AnswersFollowRobot'
  BY DEF AnswersFollowRobot, Tried
<1>9. OnlyLiveLinksCarry'
  BY DEF TypeOK, OnlyLiveLinksCarry
<1> QED
  BY <1>1, <1>2, <1>3, <1>4, <1>5, <1>6, <1>7, <1>8, <1>9

\* The worker takes the task whose number follows the last one.
LEMMA TakeTaskInv ==
  ASSUME IInv, TakeTask
  PROVE  IInv'
<1> USE Basics DEF IInv, TakeTask, worker, robot, wire, history
<1>0. /\ task' \in Task /\ task' = queue[1] /\ queue' \in Seq(Task)
      /\ Len(queue) \in Nat \ {0} /\ Len(queue') = Len(queue) - 1
      /\ \A i \in 1..(Len(queue) - 1) : queue'[i] = queue[i + 1]
  BY TailIndex, HeadIndex DEF TypeOK
<1>1. TypeOK'
  BY <1>0, SMTT(60) DEF TypeOK
<1>2. NumbersOK' /\ Taken' = Taken + 1 /\ Taken \in Nat /\ task'.id = Taken + 1
  <2>1. Taken' = Taken + 1 /\ Taken \in Nat /\ Len(queue') <= puts'
    BY <1>0 DEF TypeOK, NumbersOK, Taken
  <2>2. task'.id = Taken + 1
    BY <1>0 DEF NumbersOK
  <2>3. \A i \in 1..Len(queue') : queue'[i].id = Taken' + i
    BY <1>0, <2>1 DEF NumbersOK
  <2> QED BY <2>1, <2>2, <2>3 DEF NumbersOK
<1>3. QuietElsewhere'
  BY DEF TypeOK, QuietElsewhere
<1>4. CommandUnderWay'
  BY DEF TypeOK, CommandUnderWay, Way, Tried
<1>5. Unanswered'
  BY <1>2, SMT DEF Unanswered, TypeOK
<1>6. ExecutedOK'
  <2> SUFFICES ASSUME NEW i \in 1..Len(executed)
               PROVE  executed[i] <= Taken' /\ executed[i] < task'.id
    BY DEF ExecutedOK
  <2>1. executed[i] \in TaskIds
    BY SeqNonEmpty DEF TypeOK
  <2>2. executed[i] <= Taken
    BY DEF ExecutedOK
  <2> QED BY <1>2, <2>1, <2>2
<1>7. ExecutedInOrder'
  BY DEF ExecutedInOrder
<1>8. AnswersFollowRobot'
  BY DEF AnswersFollowRobot, Tried
<1>9. OnlyLiveLinksCarry'
  BY DEF TypeOK, OnlyLiveLinksCarry
<1> QED
  BY <1>1, <1>2, <1>3, <1>4, <1>5, <1>6, <1>7, <1>8, <1>9

\* A repeated command is answered and goes nowhere.
LEMMA RefuseRepeatInv ==
  ASSUME IInv, RefuseRepeat
  PROVE  IInv'
<1>0. /\ task # NULL /\ task.id \in TaskIds
      /\ replies' \in [TaskIds -> Seq(Answers)] /\ replies'[task.id] = <<"repeat">>
      /\ \A n \in TaskIds : n # task.id => replies'[n] = replies[n]
  <2>1. task # NULL /\ "repeat" \in Answers /\ Reply("repeat") /\ TypeOK
    BY DEF IInv, TypeOK, Answers, RefuseRepeat
  <2>2. task.id \in TaskIds /\ replies[task.id] = <<>>
    BY <2>1, Basics DEF IInv, TypeOK, Unanswered, RefuseRepeat
  <2>3. Append(<<>>, "repeat") = <<"repeat">>
    BY ShortSeqs
  <2> QED BY <2>1, <2>2, <2>3, ReplyFacts
<1> USE Basics DEF IInv, RefuseRepeat, FreeTask, worker, robot, wire, history
<1>1. TypeOK'
  BY <1>0 DEF TypeOK, Answers
<1>2. NumbersOK'
  BY DEF TypeOK, NumbersOK, Taken
<1>3. QuietElsewhere'
  BY DEF TypeOK, QuietElsewhere
<1>4. CommandUnderWay'
  BY DEF TypeOK, CommandUnderWay, Way, Tried
<1>5. Unanswered'
  <2>1. Taken' = Taken /\ \A n \in TaskIds : n > Taken => n # task.id
    BY <1>0, TakenFacts DEF Taken
  <2> QED BY <1>0, <2>1 DEF Unanswered
<1>6. ExecutedOK'
  BY DEF TypeOK, NumbersOK, ExecutedOK, Taken, Pending
<1>7. ExecutedInOrder'
  BY DEF ExecutedInOrder
<1>8. AnswersFollowRobot'
  <2>1. <<"repeat">> # <<"start", "done">>
    BY ShortSeqs
  <2> QED BY <1>0, <2>1 DEF AnswersFollowRobot, Tried
<1>9. OnlyLiveLinksCarry'
  BY DEF TypeOK, OnlyLiveLinksCarry
<1> QED
  BY <1>1, <1>2, <1>3, <1>4, <1>5, <1>6, <1>7, <1>8, <1>9

\* So is the refused dance.
LEMMA RefuseBannedInv ==
  ASSUME IInv, RefuseBanned
  PROVE  IInv'
<1>0. /\ task # NULL /\ task.id \in TaskIds
      /\ replies' \in [TaskIds -> Seq(Answers)] /\ replies'[task.id] = <<"banned">>
      /\ \A n \in TaskIds : n # task.id => replies'[n] = replies[n]
  <2>1. task # NULL /\ "banned" \in Answers /\ Reply("banned") /\ TypeOK
    BY DEF IInv, TypeOK, Answers, RefuseBanned
  <2>2. task.id \in TaskIds /\ replies[task.id] = <<>>
    BY <2>1, Basics DEF IInv, TypeOK, Unanswered, RefuseBanned
  <2>3. Append(<<>>, "banned") = <<"banned">>
    BY ShortSeqs
  <2> QED BY <2>1, <2>2, <2>3, ReplyFacts
<1> USE Basics DEF IInv, RefuseBanned, FreeTask, worker, robot, wire, history
<1>1. TypeOK'
  BY <1>0 DEF TypeOK, Answers
<1>2. NumbersOK'
  BY DEF TypeOK, NumbersOK, Taken
<1>3. QuietElsewhere'
  BY DEF TypeOK, QuietElsewhere
<1>4. CommandUnderWay'
  BY DEF TypeOK, CommandUnderWay, Way, Tried
<1>5. Unanswered'
  <2>1. Taken' = Taken /\ \A n \in TaskIds : n > Taken => n # task.id
    BY <1>0, TakenFacts DEF Taken
  <2> QED BY <1>0, <2>1 DEF Unanswered
<1>6. ExecutedOK'
  BY DEF TypeOK, NumbersOK, ExecutedOK, Taken, Pending
<1>7. ExecutedInOrder'
  BY DEF ExecutedInOrder
<1>8. AnswersFollowRobot'
  <2>1. <<"banned">> # <<"start", "done">>
    BY ShortSeqs
  <2> QED BY <1>0, <2>1 DEF AnswersFollowRobot, Tried
<1>9. OnlyLiveLinksCarry'
  BY DEF TypeOK, OnlyLiveLinksCarry
<1> QED
  BY <1>1, <1>2, <1>3, <1>4, <1>5, <1>6, <1>7, <1>8, <1>9

\* The command goes out over a connection on which nothing is under way.
LEMMA ForwardInv ==
  ASSUME IInv, Forward
  PROVE  IInv'
<1> USE Basics DEF IInv, Forward, Connected, worker, robot, wire, history
<1>0. /\ task \in Task /\ task.id \in TaskIds /\ replies[task.id] = <<>>
      /\ connFd # NoSession =>
           /\ connFd \in Sessions
           /\ toRobot[connFd] = <<>> /\ acting[connFd] = <<>> /\ toServer[connFd] = <<>>
      /\ toRobot' = IF Connected THEN [toRobot EXCEPT ![connFd] = <<task>>] ELSE toRobot
      /\ <<task>> \in Seq(Task)
  <2>1. task \in Task /\ task.id \in TaskIds /\ <<task>> \in Seq(Task)
    BY DEF TypeOK
  <2>2. replies[task.id] = <<>>
    BY <2>1 DEF Unanswered
  <2>3. connFd # NoSession =>
           /\ connFd \in Sessions
           /\ toRobot[connFd] = <<>> /\ acting[connFd] = <<>> /\ toServer[connFd] = <<>>
    BY DEF TypeOK, QuietElsewhere
  <2>4. Append(<<>>, task) = <<task>>
    BY ShortSeqs
  <2> QED BY <2>1, <2>2, <2>3, <2>4
<1>1. TypeOK'
  <2>1. toRobot' \in [Sessions -> Seq(Task)]
    BY <1>0 DEF TypeOK
  <2>2. lost' \subseteq TaskIds
    BY <1>0 DEF TypeOK
  <2>3. task # NULL /\ last' \in Cmds
    BY <1>0
  <2> QED BY <2>1, <2>2, <2>3 DEF TypeOK
<1>2. NumbersOK'
  BY DEF TypeOK, NumbersOK, Taken
<1>3. QuietElsewhere'
  BY DEF TypeOK, QuietElsewhere
<1>4. CommandUnderWay'
  BY <1>0 DEF TypeOK, CommandUnderWay, Way
<1>5. Unanswered'
  BY DEF TypeOK, NumbersOK, Unanswered, Taken
<1>6. ExecutedOK'
  BY DEF TypeOK, NumbersOK, ExecutedOK, Taken, Pending
<1>7. ExecutedInOrder'
  BY DEF ExecutedInOrder
<1>8. AnswersFollowRobot'
  BY DEF AnswersFollowRobot, Tried
<1>9. OnlyLiveLinksCarry'
  BY <1>0 DEF TypeOK, OnlyLiveLinksCarry
<1> QED
  BY <1>1, <1>2, <1>3, <1>4, <1>5, <1>6, <1>7, <1>8, <1>9

\* The token "start" becomes the first answer.
LEMMA RecvStartInv ==
  ASSUME IInv, RecvStart
  PROVE  IInv'
<1> DEFINE s == connFd
<1>0. /\ s \in Sessions /\ task # NULL /\ task.id \in TaskIds
      /\ wpc = "recv" /\ Way(s, replies[task.id])
      /\ toServer' = [toServer EXCEPT ![s] = Tail(@)]
      /\ Tail(toServer[s]) \in Seq({"start", "done"})
      /\ replies' \in [TaskIds -> Seq(Answers)]
      /\ \A n \in TaskIds : n # task.id => replies'[n] = replies[n]
      /\ replies[task.id] = <<>> /\ replies'[task.id] = <<"start">>
      /\ \/ toServer[s] = <<"start">> /\ Tail(toServer[s]) = <<>>
         \/ toServer[s] = <<"start", "done">> /\ Tail(toServer[s]) = <<"done">>
  <2>1. /\ s \in Sessions /\ wpc = "recv" /\ task # NULL /\ "start" \in Answers /\ Reply("start") /\ TypeOK
        /\ toServer' = [toServer EXCEPT ![s] = Tail(@)]
        /\ toServer[s] # <<>> /\ Head(toServer[s]) = "start" /\ ~dirty
    BY DEF IInv, TypeOK, Answers, RecvStart, RecvToken
  <2>2. Tail(toServer[s]) \in Seq({"start", "done"})
    BY <2>1, TailIndex DEF TypeOK
  <2>3. Way(s, replies[task.id])
    BY <2>1, Basics DEF IInv, CommandUnderWay, RecvStart, RecvToken
  <2>4. /\ replies[task.id] = <<>>
        /\ toServer[s] = <<"start">> \/ toServer[s] = <<"start", "done">>
    BY <2>1, <2>3, ShortSeqs DEF Way
  <2>5. /\ Append(<<>>, "start") = <<"start">> /\ Tail(<<"start">>) = <<>>
        /\ Tail(<<"start", "done">>) = <<"done">>
    BY ShortSeqs
  <2> QED BY <2>1, <2>2, <2>3, <2>4, <2>5, ReplyFacts
<1> USE Basics DEF IInv, RecvStart, worker, robot, wire, history
<1>1. TypeOK'
  BY <1>0 DEF TypeOK, Answers
<1>2. NumbersOK'
  BY DEF TypeOK, NumbersOK, Taken
<1>3. QuietElsewhere'
  BY <1>0 DEF TypeOK, QuietElsewhere
<1>4. CommandUnderWay'
  <2>1. /\ <<"start">> # <<>> /\ <<"start">> # <<"start", "done">>
        /\ <<"start", "done">> # <<>> /\ <<"done">> # <<"start", "done">>
    BY ShortSeqs
  <2>2. toRobot[s] = <<>> /\ (acting[s] = <<>> \/ acting[s] = <<task>>) /\ ~dirty
    BY <1>0, <2>1 DEF Way
  <2>3. toServer[s] = <<"start", "done">> => Tried(task.id) /\ acting[s] = <<>>
    BY <1>0, <2>1 DEF Way
  <2>4. toServer'[s] = Tail(toServer[s]) /\ Tried(task.id)' = Tried(task.id)
    BY <1>0 DEF TypeOK, Tried
  <2>5. CASE toServer[s] = <<"start">>
    BY <1>0, <2>2, <2>4, <2>5 DEF CommandUnderWay, Way
  <2>6. CASE toServer[s] = <<"start", "done">>
    BY <1>0, <2>2, <2>3, <2>4, <2>6 DEF CommandUnderWay, Way
  <2> QED BY <1>0, <2>5, <2>6
<1>5. Unanswered'
  <2>1. Taken' = Taken /\ \A n \in TaskIds : n > Taken => n # task.id
    BY <1>0, TakenFacts DEF Taken
  <2> QED BY <1>0, <2>1 DEF Unanswered
<1>6. ExecutedOK'
  BY DEF TypeOK, NumbersOK, ExecutedOK, Taken, Pending
<1>7. ExecutedInOrder'
  BY DEF ExecutedInOrder
<1>8. AnswersFollowRobot'
  <2>1. <<"start">> # <<"start", "done">>
    BY ShortSeqs
  <2> QED BY <1>0, <2>1 DEF AnswersFollowRobot, Tried
<1>9. OnlyLiveLinksCarry'
  BY DEF TypeOK, OnlyLiveLinksCarry
<1> QED
  BY <1>1, <1>2, <1>3, <1>4, <1>5, <1>6, <1>7, <1>8, <1>9

\* The token "done" comes after "start" and of a command that has been tried; nothing
\* is left under way when the worker turns to the next task.
LEMMA RecvDoneInv ==
  ASSUME IInv, RecvDone
  PROVE  IInv'
<1> DEFINE s == connFd
<1>0. /\ s \in Sessions /\ task # NULL /\ task.id \in TaskIds
      /\ toServer' = [toServer EXCEPT ![s] = <<>>]
      /\ toRobot[s] = <<>> /\ acting[s] = <<>>
      /\ replies' \in [TaskIds -> Seq(Answers)]
      /\ \A n \in TaskIds : n # task.id => replies'[n] = replies[n]
      /\ replies'[task.id] = <<"start", "done">> /\ Tried(task.id)
  <2>1. /\ s \in Sessions /\ task # NULL /\ "done" \in Answers /\ Reply("done") /\ TypeOK
        /\ toServer' = [toServer EXCEPT ![s] = Tail(@)]
        /\ toServer[s] # <<>> /\ Head(toServer[s]) = "done" /\ ~dirty
    BY DEF IInv, TypeOK, Answers, RecvDone, RecvToken
  <2>2. Way(s, replies[task.id])
    BY <2>1, Basics DEF IInv, CommandUnderWay, RecvDone, RecvToken
  <2>3. /\ toRobot[s] = <<>> /\ acting[s] = <<>> /\ Tried(task.id)
        /\ replies[task.id] = <<"start">> /\ toServer[s] = <<"done">>
    BY <2>1, <2>2, ShortSeqs DEF Way
  <2>4. Append(<<"start">>, "done") = <<"start", "done">> /\ Tail(<<"done">>) = <<>>
    BY ShortSeqs
  <2> QED BY <2>1, <2>3, <2>4, ReplyFacts
<1> USE Basics DEF IInv, RecvDone, FreeTask, worker, robot, wire, history
<1>1. TypeOK'
  <2>1. toServer' \in [Sessions -> Seq({"start", "done"})]
    BY <1>0 DEF TypeOK
  <2>2. /\ replies' \in [TaskIds -> Seq({"repeat", "banned", "start", "done"})]
        /\ wpc' \notin {"compare", "recv"}
    BY <1>0 DEF Answers
  <2> QED BY <2>1, <2>2 DEF TypeOK
<1>2. NumbersOK'
  BY DEF TypeOK, NumbersOK, Taken
<1>3. QuietElsewhere'
  BY <1>0 DEF TypeOK, QuietElsewhere
<1>4. CommandUnderWay'
  BY DEF CommandUnderWay
<1>5. Unanswered'
  <2>1. Taken' = Taken /\ \A n \in TaskIds : n > Taken => n # task.id
    BY <1>0, TakenFacts DEF Taken
  <2> QED BY <1>0, <2>1 DEF Unanswered
<1>6. ExecutedOK'
  BY DEF TypeOK, NumbersOK, ExecutedOK, Taken, Pending
<1>7. ExecutedInOrder'
  BY DEF ExecutedInOrder
<1>8. AnswersFollowRobot'
  BY <1>0 DEF AnswersFollowRobot, Tried
<1>9. OnlyLiveLinksCarry'
  BY DEF TypeOK, OnlyLiveLinksCarry
<1> QED
  BY <1>1, <1>2, <1>3, <1>4, <1>5, <1>6, <1>7, <1>8, <1>9

\* A recv that returned both tokens leaves nothing under way.
LEMMA RecvUnmatchedInv ==
  ASSUME IInv, RecvUnmatched
  PROVE  IInv'
<1> USE Basics DEF IInv, RecvUnmatched, worker, robot, wire, history
<1> DEFINE s == connFd
<1>0. /\ s \in Sessions /\ task.id \in TaskIds
      /\ toServer' = [toServer EXCEPT ![s] = <<>>]
      /\ toRobot[s] = <<>> /\ acting[s] = <<>> /\ replies[task.id] = <<>>
  <2>1. s \in Sessions /\ task \in Task
    BY DEF TypeOK
  <2>2. Way(s, replies[task.id])
    BY <2>1 DEF CommandUnderWay
  <2>3. PICK k \in 1..Len(toServer[s]) :
          /\ dirty \/ k > 1
          /\ toServer' = [toServer EXCEPT ![s] = SubSeq(@, k + 1, Len(@))]
    OBVIOUS
  <2>4. /\ Len(toServer[s]) \in Nat /\ Len(toServer[s]) > 0 /\ toServer[s] # <<>>
        /\ ~dirty => Len(toServer[s]) > 1
    BY <2>1, <2>3, SeqNonEmpty, SMT DEF TypeOK
  <2>5. /\ toRobot[s] = <<>> /\ acting[s] = <<>> /\ replies[task.id] = <<>>
        /\ toServer[s] = <<"start", "done">> /\ ~dirty
    <3>1. ~dirty
      BY <2>2, <2>4 DEF Way
    <3>2. toServer[s] \in Seq({"start", "done"}) /\ Len(toServer[s]) > 1
      BY <2>1, <2>4, <3>1, Zenon DEF TypeOK
    <3>3. toServer[s] # <<"start">> /\ toServer[s] # <<"done">>
      BY <3>2, LongerThanOne
    <3>4. toServer[s] = <<"start", "done">>
      BY <2>2, <2>4, <3>1, <3>3 DEF Way
    <3>5. toServer[s] # <<>> /\ <<"start", "done">> # <<"done">>
      BY <2>4, ShortSeqs
    <3> QED BY <2>2, <3>1, <3>3, <3>4, <3>5 DEF Way
  <2>6. k = 2 /\ Len(toServer[s]) = 2
    BY <2>3, <2>5, ShortSeqs
  <2>7. SubSeq(toServer[s], k + 1, Len(toServer[s])) = <<>>
    BY <2>6, SubSeqEmpty
  <2> QED BY <2>1, <2>3, <2>5, <2>7
<1>1. TypeOK'
  <2>1. /\ glued \subseteq TaskIds /\ toServer \in [Sessions -> Seq({"start", "done"})]
        /\ glued' \in {glued, glued \cup {task.id}}
    <3>1. glued' \in {glued, glued \cup {task.id}}
      OBVIOUS
    <3> QED BY <3>1 DEF TypeOK
  <2>2. /\ toServer' \in [Sessions -> Seq({"start", "done"})]
        /\ glued' \subseteq TaskIds
    <3> HIDE DEF IInv, RecvUnmatched, worker, robot, wire, history
    <3> QED BY <1>0, <2>1
  <2> QED BY <2>1, <2>2 DEF TypeOK
<1>2. NumbersOK'
  BY DEF TypeOK, NumbersOK, Taken
<1>3. QuietElsewhere'
  BY <1>0 DEF TypeOK, QuietElsewhere
<1>4. CommandUnderWay'
  BY <1>0 DEF TypeOK, CommandUnderWay, Way
<1>5. Unanswered'
  BY DEF TypeOK, NumbersOK, Unanswered, Taken
<1>6. ExecutedOK'
  BY <1>0 DEF TypeOK, ExecutedOK, Pending, Taken
<1>7. ExecutedInOrder'
  BY DEF ExecutedInOrder
<1>8. AnswersFollowRobot'
  BY DEF AnswersFollowRobot, Tried
<1>9. OnlyLiveLinksCarry'
  BY DEF TypeOK, OnlyLiveLinksCarry
<1> QED
  BY <1>1, <1>2, <1>3, <1>4, <1>5, <1>6, <1>7, <1>8, <1>9

\* A closed connection holds neither a command nor a token any more.
LEMMA RecvClosedInv ==
  ASSUME IInv, RecvClosed
  PROVE  IInv'
<1> USE Basics DEF IInv, RecvClosed, FreeTask, worker, robot, wire, history
<1>1. TypeOK'
  BY DEF TypeOK
<1>2. NumbersOK'
  BY DEF TypeOK, NumbersOK, Taken
<1>0. connFd \in Sessions /\ toRobot[connFd] = <<>> /\ acting[connFd] = <<>>
  BY DEF TypeOK, OnlyLiveLinksCarry
<1>3. QuietElsewhere'
  BY <1>0 DEF TypeOK, QuietElsewhere
<1>4. CommandUnderWay'
  BY DEF TypeOK, CommandUnderWay, Way, Tried
<1>5. Unanswered'
  BY DEF TypeOK, NumbersOK, Unanswered, Taken
<1>6. ExecutedOK'
  BY DEF TypeOK, NumbersOK, ExecutedOK, Taken, Pending
<1>7. ExecutedInOrder'
  BY DEF ExecutedInOrder
<1>8. AnswersFollowRobot'
  BY DEF AnswersFollowRobot, Tried
<1>9. OnlyLiveLinksCarry'
  BY DEF TypeOK, OnlyLiveLinksCarry
<1> QED
  BY <1>1, <1>2, <1>3, <1>4, <1>5, <1>6, <1>7, <1>8, <1>9

\* A new connection of the robot carries nothing yet.
LEMMA RobotConnectInv ==
  ASSUME IInv, NEW s \in Sessions, RobotConnect(s)
  PROVE  IInv'
<1> USE Basics DEF IInv, RobotConnect, worker, robot, wire, history
<1>1. TypeOK'
  BY AppendIndex, SMTT(60) DEF TypeOK
<1>2. NumbersOK'
  BY DEF TypeOK, NumbersOK, Taken
<1>3. QuietElsewhere'
  BY DEF TypeOK, QuietElsewhere
<1>4. CommandUnderWay'
  BY DEF TypeOK, CommandUnderWay, Way, Tried
<1>5. Unanswered'
  BY DEF TypeOK, NumbersOK, Unanswered, Taken
<1>6. ExecutedOK'
  BY DEF TypeOK, NumbersOK, ExecutedOK, Taken, Pending
<1>7. ExecutedInOrder'
  BY DEF ExecutedInOrder
<1>8. AnswersFollowRobot'
  BY DEF AnswersFollowRobot, Tried
<1>9. OnlyLiveLinksCarry'
  BY DEF TypeOK, OnlyLiveLinksCarry
<1> QED
  BY <1>1, <1>2, <1>3, <1>4, <1>5, <1>6, <1>7, <1>8, <1>9

\* What the robot's recv returns is the one command, the worker's.
LEMMA RobotTakeInv ==
  ASSUME IInv, NEW s \in Sessions, RobotTake(s)
  PROVE  IInv'
<1> USE Basics DEF IInv, RobotTake, worker, robot, wire, history
<1>0. /\ wpc = "recv" /\ connFd = s /\ Way(s, replies[task.id])
      /\ toRobot[s] = <<task>> /\ acting[s] = <<>> /\ toServer[s] = <<>>
      /\ replies[task.id] = <<>> /\ ~dirty /\ toServer' = [toServer EXCEPT ![s] = <<"start">>]
  <2>1. wpc = "recv" /\ connFd = s
    BY DEF QuietElsewhere
  <2>2. Way(s, replies[task.id])
    BY <2>1 DEF CommandUnderWay
  <2>3. Append(<<>>, "start") = <<"start">>
    BY ShortSeqs
  <2> QED BY <2>1, <2>2, <2>3 DEF Way
<1>1. TypeOK'
  <2>1. <<"start">> \in Seq({"start", "done"}) /\ <<>> \in Seq(Task)
    OBVIOUS
  <2>2. toServer' \in [Sessions -> Seq({"start", "done"})]
    BY <1>0, <2>1 DEF TypeOK
  <2>3. acting' \in [Sessions -> Seq(Task)] /\ toRobot' \in [Sessions -> Seq(Task)]
    BY <2>1 DEF TypeOK
  <2> QED BY <2>2, <2>3 DEF TypeOK
<1>2. NumbersOK'
  BY DEF TypeOK, NumbersOK, Taken
<1>3. QuietElsewhere'
  BY <1>0 DEF TypeOK, QuietElsewhere
<1>4. CommandUnderWay'
  BY <1>0 DEF TypeOK, CommandUnderWay, Way
<1>5. Unanswered'
  BY <1>0 DEF TypeOK, NumbersOK, Unanswered, Taken
<1>6. ExecutedOK'
  BY DEF TypeOK, NumbersOK, ExecutedOK, Taken, Pending
<1>7. ExecutedInOrder'
  BY DEF ExecutedInOrder
<1>8. AnswersFollowRobot'
  BY DEF AnswersFollowRobot, Tried
<1>9. OnlyLiveLinksCarry'
  BY <1>0 DEF TypeOK, OnlyLiveLinksCarry
<1> QED
  BY <1>1, <1>2, <1>3, <1>4, <1>5, <1>6, <1>7, <1>8, <1>9

\* The robot has tried the worker's task, well or not; its number is above those before.
LEMMA RobotDoneInv ==
  ASSUME IInv, NEW s \in Sessions, RobotDone(s)
  PROVE  IInv'
<1> USE Basics DEF IInv, RobotDone, worker, robot, wire, history
<1>0. /\ wpc = "recv" /\ connFd = s /\ task # NULL /\ task.id \in TaskIds
      /\ toRobot[s] = <<>> /\ acting[s] = <<task>> /\ ~dirty
      /\ \/ toServer[s] = <<"start">> /\ replies[task.id] = <<>>
            /\ toServer' = [toServer EXCEPT ![s] = <<"start", "done">>]
         \/ toServer[s] = <<>> /\ replies[task.id] = <<"start">>
            /\ toServer' = [toServer EXCEPT ![s] = <<"done">>]
      /\ executed' = Append(executed, task.id)
  <2>1. wpc = "recv" /\ connFd = s
    BY DEF QuietElsewhere
  <2>2. Way(s, replies[task.id]) /\ task # NULL /\ task.id \in TaskIds
    BY <2>1 DEF TypeOK, CommandUnderWay
  <2>3. Append(<<>>, "done") = <<"done">> /\ Append(<<"start">>, "done") = <<"start", "done">>
    BY TokenSeqs
  <2>5. <<task>>[1] = task
    OBVIOUS
  <2>4. /\ toRobot[s] = <<>> /\ acting[s] = <<task>> /\ ~dirty
        /\ \/ toServer[s] = <<"start">> /\ replies[task.id] = <<>>
           \/ toServer[s] = <<>> /\ replies[task.id] = <<"start">>
    BY <2>2 DEF Way
  <2> QED BY <2>1, <2>2, <2>3, <2>4, <2>5
<1>a. /\ executed' \in Seq(TaskIds) /\ Len(executed') = Len(executed) + 1
      /\ Len(executed) \in Nat /\ executed'[Len(executed) + 1] = task.id
      /\ \A i \in 1..Len(executed) : executed'[i] = executed[i] /\ executed[i] \in TaskIds
  <2>1. executed \in Seq(TaskIds) /\ task.id \in TaskIds /\ executed' = Append(executed, task.id)
    BY <1>0 DEF TypeOK
  <2> HIDE DEF RobotDone, IInv
  <2> QED BY <2>1, AppendIndex, SeqNonEmpty
<1>1. TypeOK'
  <2>1. /\ <<"start", "done">> \in Seq({"start", "done"}) /\ <<"done">> \in Seq({"start", "done"})
        /\ <<>> \in Seq(Task)
    OBVIOUS
  <2>2. toServer' \in [Sessions -> Seq({"start", "done"})]
    BY <1>0, <2>1 DEF TypeOK
  <2>3. acting' \in [Sessions -> Seq(Task)]
    BY <2>1 DEF TypeOK
  <2>4. failed' \in {failed, failed \cup {acting[s][1].id}} /\ acting[s][1].id \in TaskIds
    BY <1>0
  <2> QED BY <1>a, <2>2, <2>3, <2>4 DEF TypeOK
<1>2. NumbersOK'
  BY DEF TypeOK, NumbersOK, Taken
<1>3. QuietElsewhere'
  BY <1>0 DEF TypeOK, QuietElsewhere
<1>4. CommandUnderWay'
  <2>1. Tried(task.id)'
    BY <1>a DEF Tried
  <2>2. /\ toRobot'[s] = <<>> /\ acting'[s] = <<>>
        /\ \/ toServer'[s] = <<"start", "done">> /\ replies[task.id] = <<>>
           \/ toServer'[s] = <<"done">> /\ replies[task.id] = <<"start">>
    BY <1>0 DEF TypeOK
  <2>3. Way(s, replies[task.id])'
    BY <1>0, <2>1, <2>2 DEF Way
  <2> QED BY <1>0, <2>3 DEF CommandUnderWay
<1>5. Unanswered'
  BY DEF TypeOK, NumbersOK, Unanswered, Taken
<1>6. ExecutedOK'
  <2>1. ~Pending' /\ Taken' = Taken
    BY <1>0 DEF TypeOK, Pending, Taken
  <2>2. \A i \in 1..Len(executed') : i \in 1..Len(executed) \/ i = Len(executed) + 1
    BY <1>a
  <2>3. task.id <= Taken
    BY <1>0, TakenFacts DEF NumbersOK
  <2> QED BY <1>a, <2>1, <2>2, <2>3 DEF ExecutedOK
<1>7. ExecutedInOrder'
  <2> SUFFICES ASSUME NEW i \in 1..Len(executed'), NEW j \in 1..Len(executed'), i < j
               PROVE  executed'[i] < executed'[j]
    BY DEF ExecutedInOrder
  <2>1. i \in 1..Len(executed)
    BY <1>a
  <2>2. CASE j \in 1..Len(executed)
    BY <1>a, <2>1, <2>2 DEF ExecutedInOrder
  <2>3. CASE j = Len(executed) + 1
    <3>1. Pending /\ executed[i] < task.id
      BY <1>0, <2>1, ShortSeqs DEF Pending, ExecutedOK
    <3> QED BY <1>a, <2>1, <2>3, <3>1
  <2> QED BY <1>a, <2>2, <2>3
<1>8. AnswersFollowRobot'
  <2>1. \A n \in TaskIds : Tried(n) => Tried(n)'
    BY <1>a DEF Tried
  <2> QED BY <2>1 DEF AnswersFollowRobot, Tried
<1>9. OnlyLiveLinksCarry'
  BY DEF TypeOK, OnlyLiveLinksCarry
<1> QED
  BY <1>1, <1>2, <1>3, <1>4, <1>5, <1>6, <1>7, <1>8, <1>9

\* A connection that breaks loses the command, not the tokens already sent.
LEMMA RobotLeavesInv ==
  ASSUME IInv, NEW s \in Sessions, RobotLeaves(s)
  PROVE  IInv'
<1> USE Basics DEF IInv, RobotLeaves, worker, robot, wire, history
<1>1. TypeOK'
  <2>1. <<>> \in Seq(Task)
    OBVIOUS
  <2>2. acting' \in [Sessions -> Seq(Task)] /\ toRobot' \in [Sessions -> Seq(Task)]
    BY <2>1 DEF TypeOK
  <2> QED BY <2>2 DEF TypeOK
<1>2. NumbersOK'
  BY DEF TypeOK, NumbersOK, Taken
<1>3. QuietElsewhere'
  BY DEF TypeOK, QuietElsewhere
<1>4. CommandUnderWay'
  BY DEF TypeOK, CommandUnderWay, Way, Tried
<1>5. Unanswered'
  BY DEF TypeOK, NumbersOK, Unanswered, Taken
<1>6. ExecutedOK'
  BY DEF TypeOK, NumbersOK, ExecutedOK, Taken, Pending
<1>7. ExecutedInOrder'
  BY DEF ExecutedInOrder
<1>8. AnswersFollowRobot'
  BY DEF AnswersFollowRobot, Tried
<1>9. OnlyLiveLinksCarry'
  BY DEF TypeOK, OnlyLiveLinksCarry
<1> QED
  BY <1>1, <1>2, <1>3, <1>4, <1>5, <1>6, <1>7, <1>8, <1>9

\* A step that changes nothing keeps the invariant.
LEMMA StutterInv ==
  ASSUME IInv, UNCHANGED vars
  PROVE  IInv'
<1> USE DEF vars, worker, robot, wire, history
<1>1. TypeOK' /\ NumbersOK' /\ QuietElsewhere' /\ OnlyLiveLinksCarry'
  BY DEF IInv, TypeOK, NumbersOK, Taken, QuietElsewhere, OnlyLiveLinksCarry
<1>2. CommandUnderWay' /\ Unanswered'
  BY DEF IInv, CommandUnderWay, Way, Tried, Unanswered, Taken
<1>3. ExecutedOK' /\ ExecutedInOrder' /\ AnswersFollowRobot'
  BY DEF IInv, ExecutedOK, Pending, Taken, ExecutedInOrder, AnswersFollowRobot, Tried
<1> QED
  BY <1>1, <1>2, <1>3 DEF IInv

\* The invariant of the worker and the robot holds in every state.
THEOREM Invariance == Spec => []IInv
<1>1. IInv /\ [Next]_vars => IInv'
  <2> SUFFICES ASSUME IInv, [Next]_vars PROVE IInv'
    OBVIOUS
  <2>1. ASSUME NEW cmd \in Cmds, PutTask(cmd) PROVE IInv'
    BY <2>1, PutTaskInv
  <2>2. CASE WorkerStep
    BY <2>2, FirstAcceptInv, CheckRobotInv, ReacceptInv, TakeTaskInv, RefuseRepeatInv,
       RefuseBannedInv, ForwardInv, RecvStartInv, RecvDoneInv, RecvUnmatchedInv, RecvClosedInv
       DEF WorkerStep
  <2>3. ASSUME NEW s \in Sessions, RobotStep(s) \/ RobotLeaves(s) PROVE IInv'
    BY <2>3, RobotConnectInv, RobotTakeInv, RobotDoneInv, RobotLeavesInv DEF RobotStep
  <2>4. CASE UNCHANGED vars
    BY <2>4, StutterInv
  <2> QED
    BY <2>1, <2>2, <2>3, <2>4 DEF Next
<1> QED
  BY InitInv, <1>1, PTL DEF Spec

-------------------------------------------------------------------------------
(* What the invariant gives *)

\* The robot holds at most one command, the one the worker waits for, so that its recv
\* never returns two commands glued together; and the variables of both programs hold
\* values their code can give them.
THEOREM OneCommand == Spec => []OneCommandOnWire
<1>1. IInv => OneCommandOnWire
  <2> SUFFICES ASSUME IInv, NEW s \in Sessions
               PROVE  LET held == toRobot[s] \o acting[s] IN
                        /\ Len(held) <= 1
                        /\ held # <<>> => held = <<task>> /\ wpc = "recv" /\ connFd = s
    BY DEF OneCommandOnWire, IInv
  <2>1. CASE ~(wpc = "recv" /\ connFd = s)
    <3>1. toRobot[s] = <<>> /\ acting[s] = <<>>
      BY <2>1 DEF IInv, QuietElsewhere
    <3>2. toRobot[s] \o acting[s] = <<>>
      BY <3>1, <<>> \in Seq({}), ConcatEmptySeq
    <3> QED BY <3>2
  <2>2. CASE wpc = "recv" /\ connFd = s
    <3>1. Way(s, replies[task.id])
      BY <2>2, Basics DEF IInv, CommandUnderWay
    <3>2. /\ toRobot[s] \in {<<>>, <<task>>} /\ acting[s] \in {<<>>, <<task>>}
          /\ toRobot[s] = <<>> \/ acting[s] = <<>>
      BY <3>1 DEF Way
    <3>3. <<>> \in Seq({task}) /\ <<task>> \in Seq({task})
      OBVIOUS
    <3> DEFINE held == toRobot[s] \o acting[s]
    <3>4. held = <<>> \/ held = <<task>>
      BY <3>2, <3>3, ConcatEmptySeq
    <3>5. Len(<<>>) <= 1 /\ Len(<<task>>) <= 1
      BY ShortSeqs
    <3> HIDE DEF held
    <3>6. Len(held) <= 1 /\ (held # <<>> => held = <<task>> /\ wpc = "recv" /\ connFd = s)
      BY <2>2, <3>4, <3>5, Zenon
    <3> QED BY <3>6 DEF held
  <2> QED BY <2>1, <2>2
<1> QED
  BY Invariance, <1>1, PTL

\* The robot carries commands out in the order the tasks were put, none twice.
THEOREM InOrder == Spec => []ExecutedInOrder
<1>1. IInv => ExecutedInOrder
  BY DEF IInv
<1> QED
  BY Invariance, <1>1, PTL

\* A client is told of a refusal, or of a start and then of an end, and of an end only
\* after the robot's call for its command has ended; whether it succeeded nobody is told.
THEOREM FollowsRobot == Spec => []AnswersFollowRobot
<1>1. IInv => AnswersFollowRobot
  BY DEF IInv
<1> QED
  BY Invariance, <1>1, PTL

-------------------------------------------------------------------------------
(* The refinement of RobotService *)

\* Where the worker waits for a connection's tokens, only that one can have any.
LEMMA BegunHere ==
  ASSUME IInv, wpc = "recv", connFd \in Sessions
  PROVE  Begun <=> replies[task.id] # <<>> \/ toServer[connFd] # <<>>
BY DEF IInv, QuietElsewhere, Begun

\* Outside recv nothing has been sent back for the worker's task.
LEMMA NothingSent ==
  ASSUME IInv, wpc # "recv"
  PROVE  \A s \in Sessions : toRobot[s] = <<>> /\ acting[s] = <<>> /\ toServer[s] = <<>>
BY DEF IInv, QuietElsewhere

\* A command that may still be tried has not been.
LEMMA PendingNotTried ==
  ASSUME IInv, Pending
  PROVE  ~Tried(task.id)
<1> SUFFICES ASSUME NEW i \in 1..Len(executed), executed[i] = task.id PROVE FALSE
  BY DEF Tried
<1>1. executed[i] \in TaskIds /\ executed[i] < task.id
  BY SeqNonEmpty DEF IInv, TypeOK, ExecutedOK
<1> QED
  BY <1>1, Basics

\* The stage and the rest of the service's state depend only on what the service has
\* heard of the command.
LEMMA StageSame ==
  ASSUME wpc' = wpc, task' = task, executed' = executed, replies' = replies,
         toServer' = toServer
  PROVE  Stage' = Stage
BY DEF Stage, Tried, Begun

\* Nothing is accepted, handed over or told at the start.
LEMMA RefinementInit == Init => Service!Init
BY DEF Init, Service!Init, Stage, TaskIds

\* A step of the worker that takes up, refuses or hands over a command is one of the
\* service; accepting a connection and looking at it are not seen.
LEMMA WorkerRefines ==
  ASSUME IInv, FirstAccept \/ CheckRobot \/ Reaccept \/ TakeTask \/ RefuseRepeat
               \/ RefuseBanned \/ Forward
  PROVE  Service!Next \/ UNCHANGED Service!vars
<1>1. CASE FirstAccept
  BY <1>1 DEF FirstAccept, Stage, Service!vars, robot, wire, history
<1>2. CASE CheckRobot
  BY <1>2 DEF CheckRobot, Stage, Service!vars, robot, wire, history
<1>3. CASE Reaccept
  BY <1>3 DEF Reaccept, Stage, Service!vars, robot, wire, history
<1>4. CASE TakeTask
  <2>1. Service!TakeUp
    BY <1>4 DEF TakeTask, Stage, Service!TakeUp, robot, wire, history
  <2> QED BY <2>1 DEF Service!Next
<1>5. CASE RefuseRepeat
  <2>1. Service!Repeat
    BY <1>5 DEF RefuseRepeat, Reply, FreeTask, Stage, Service!Repeat, Service!Tell,
                Service!Finish, robot, wire, history
  <2> QED BY <2>1 DEF Service!Next
<1>6. CASE RefuseBanned
  <2>1. Service!Ban
    BY <1>6 DEF RefuseBanned, Reply, FreeTask, Stage, Service!Ban, Service!Tell,
                Service!Finish, robot, wire, history
  <2> QED BY <2>1 DEF Service!Next
<1>7. CASE Forward
  <2>1. wpc = "compare" /\ Pending /\ task # NULL
    BY <1>7 DEF Forward, Pending, IInv, TypeOK
  <2>2. ~Tried(task.id) /\ replies[task.id] = <<>>
        /\ \A s \in Sessions : toServer[s] = <<>>
    BY <2>1, PendingNotTried, NothingSent, Basics DEF IInv, TypeOK, Unanswered
  <2>3. Stage = "taken" /\ Stage' = "handed"
    BY <1>7, <2>1, <2>2 DEF Forward, Stage, Tried, Begun
  <2>4. Service!Hand
    BY <1>7, <2>3 DEF Forward, Service!Hand
  <2> QED BY <2>4 DEF Service!Next
<1> QED
  BY <1>1, <1>2, <1>3, <1>4, <1>5, <1>6, <1>7

\* The stage of a command handed to a connection, and of one that went to none.
LEMMA StageInRecv ==
  ASSUME IInv, wpc = "recv"
  PROVE  /\ Stage \in {"handed", "started", "tried"}
         /\ Tried(task.id) => Stage = "tried"
         /\ ~Tried(task.id) /\ Begun => Stage = "started"
         /\ ~Tried(task.id) /\ ~Begun => Stage = "handed"
         /\ task \in Task /\ task.id \in TaskIds
<1>1. task \in Task
  BY DEF IInv, TypeOK
<1> QED
  BY <1>1, Basics DEF Stage

\* The tokens the worker receives are told to the client; a recv that returned both, or
\* a closed connection, leaves the rest untold.
LEMMA RecvRefines ==
  ASSUME IInv, IInv', RecvStart \/ RecvDone \/ RecvUnmatched \/ RecvClosed
  PROVE  Service!Next \/ UNCHANGED Service!vars
<1> DEFINE s == connFd
<1>1. wpc = "recv" /\ s \in Sessions /\ Way(s, replies[task.id])
  BY Basics DEF IInv, TypeOK, CommandUnderWay, RecvStart, RecvDone, RecvUnmatched,
                RecvClosed, RecvToken
<1>2. Stage \in {"handed", "started", "tried"} /\ task.id \in TaskIds
  BY <1>1, StageInRecv
<1>3. CASE RecvStart
  <2>1. /\ wpc' = wpc /\ task' = task /\ executed' = executed /\ connFd' = connFd
        /\ toServer[s] # <<>> /\ Head(toServer[s]) = "start" /\ ~dirty
        /\ UNCHANGED <<puts, queue, last, failed>>
    BY <1>3 DEF RecvStart, RecvToken, worker, robot, history
  <2>2. replies[task.id] = <<>>
    BY <1>1, <2>1, ShortSeqs DEF Way
  <2>3. Begun
    BY <1>1, <2>1, BegunHere
  <2>4. replies'[task.id] # <<>>
    <3>1. "start" \in Answers /\ Reply("start") /\ TypeOK /\ task # NULL
      BY <1>1, <1>3 DEF Answers, RecvStart, IInv, TypeOK
    <3>2. replies'[task.id] = <<"start">>
      BY <2>2, <3>1, ReplyFacts, TokenSeqs
    <3> QED BY <3>2, ShortSeqs
  <2>5. Stage' = Stage /\ Stage \in {"started", "tried"}
    BY <1>1, <2>1, <2>3, <2>4 DEF Stage, Tried, Begun
  <2>6. Service!TellStart
    BY <1>3, <2>1, <2>2, <2>5 DEF Service!TellStart, Service!Tell, RecvStart, Reply
  <2> QED BY <2>6 DEF Service!Next
<1>4. CASE RecvDone
  <2>1. toServer[s] # <<>> /\ Head(toServer[s]) = "done" /\ ~dirty
    BY <1>4 DEF RecvDone, RecvToken
  <2>2. replies[task.id] = <<"start">> /\ Tried(task.id)
    BY <1>1, <2>1, ShortSeqs DEF Way
  <2>3. Stage = "tried" /\ Stage' = "none"
    BY <1>1, <1>4, <2>2 DEF Stage, RecvDone, FreeTask
  <2>4. Service!TellDone
    BY <1>4, <2>2, <2>3 DEF Service!TellDone, Service!Tell, Service!Finish, RecvDone,
                            Reply, FreeTask
  <2> QED BY <2>4 DEF Service!Next
<1>5. CASE RecvUnmatched
  <2>1. /\ wpc' = wpc /\ task' = task /\ executed' = executed /\ replies' = replies
        /\ UNCHANGED <<puts, queue, last, failed>>
    BY <1>5 DEF RecvUnmatched
  <2>2. Tried(task.id)
    <3>1. /\ toServer[s] \in Seq({"start", "done"}) /\ toServer[s] # <<>>
          /\ ~dirty => Len(toServer[s]) > 1
      BY <1>1, <1>5, SeqNonEmpty, SMT DEF RecvUnmatched, IInv, TypeOK
    <3>2. ~dirty
      BY <1>1, <3>1 DEF Way
    <3>3. toServer[s] # <<"start">> /\ toServer[s] # <<"done">>
      BY <3>1, <3>2, LongerThanOne
    <3> QED BY <1>1, <3>1, <3>2, <3>3 DEF Way
  <2>3. Stage = "tried" /\ Stage' = "tried"
    BY <1>1, <2>1, <2>2 DEF Stage, Tried
  <2> QED BY <2>1, <2>3 DEF Service!vars
<1>6. CASE RecvClosed
  <2>1. Stage' = "none"
    BY <1>6 DEF RecvClosed, FreeTask, Stage
  <2>2. Service!Abandon
    BY <1>2, <1>6, <2>1 DEF Service!Abandon, Service!Finish, RecvClosed, FreeTask, history
  <2> QED BY <2>2 DEF Service!Next
<1> QED
  BY <1>3, <1>4, <1>5, <1>6

\* What the robot's program receives it starts, and what it tries is the worker's
\* task, once; its connections are not seen.
LEMMA RobotRefines ==
  ASSUME IInv, NEW s \in Sessions, RobotStep(s) \/ RobotLeaves(s)
  PROVE  Service!Next \/ UNCHANGED Service!vars
<1>1. CASE RobotConnect(s) \/ RobotLeaves(s)
  <2>1. /\ wpc' = wpc /\ task' = task /\ executed' = executed /\ replies' = replies
        /\ toServer' = toServer /\ UNCHANGED <<puts, queue, last, failed>>
    BY <1>1 DEF RobotConnect, RobotLeaves, worker, wire, history
  <2> QED BY <2>1, StageSame DEF Service!vars
<1>2. ASSUME toRobot[s] # <<>> \/ acting[s] # <<>>
      PROVE  /\ wpc = "recv" /\ connFd = s /\ Way(s, replies[task.id]) /\ ~Tried(task.id)
             /\ s # NoSession
  <2>1. wpc = "recv" /\ connFd = s
    BY <1>2 DEF IInv, QuietElsewhere
  <2>2. Pending /\ s # NoSession
    BY <1>2, <2>1, Basics DEF Pending
  <2> QED BY <2>1, <2>2, PendingNotTried DEF IInv, CommandUnderWay
<1>3. CASE RobotTake(s)
  <2>1. /\ toRobot[s] # <<>> /\ wpc' = wpc /\ task' = task /\ executed' = executed
        /\ replies' = replies /\ toServer' = [toServer EXCEPT ![s] = Append(@, "start")]
        /\ UNCHANGED <<puts, queue, last, failed>>
    BY <1>3 DEF RobotTake, worker, history
  <2>2. toServer[s] = <<>> /\ replies[task.id] = <<>>
    BY <1>2, <2>1 DEF Way
  <2>3. ~Begun
    BY <1>2, <2>1, <2>2, BegunHere
  <2>4. toServer'[s] # <<>>
    BY <2>1, <2>2, ShortSeqs DEF IInv, TypeOK
  <2>5. Stage = "handed" /\ Stage' = "started"
    BY <1>2, <2>1, <2>3, <2>4 DEF Stage, Tried, Begun
  <2>6. Service!Start
    BY <2>1, <2>5 DEF Service!Start
  <2> QED BY <2>6 DEF Service!Next
<1>4. CASE RobotDone(s)
  <2>1. /\ acting[s] # <<>> /\ wpc' = wpc /\ task' = task /\ replies' = replies
        /\ executed' = Append(executed, acting[s][1].id)
        /\ failed' \in {failed, failed \cup {acting[s][1].id}}
        /\ UNCHANGED <<puts, queue, last>>
    BY <1>4 DEF RobotDone, worker
  <2>2. acting[s] = <<task>> /\ (replies[task.id] # <<>> \/ toServer[s] # <<>>)
    BY <1>2, <2>1, ShortSeqs DEF Way
  <2>3. Begun /\ <<task>>[1] = task
    BY <1>2, <2>1, <2>2, BegunHere
  <2>4. executed' = Append(executed, task.id) /\ failed' \in {failed, failed \cup {task.id}}
    BY <2>1, <2>2, <2>3
  <2>5. Tried(task.id)'
    <3>1. executed \in Seq(TaskIds) /\ task.id \in TaskIds
      BY <1>2, <2>1, StageInRecv DEF IInv, TypeOK
    <3>2. Len(executed) + 1 \in 1..Len(executed') /\ executed'[Len(executed) + 1] = task.id
      BY <2>4, <3>1, AppendIndex, SeqNonEmpty
    <3> QED BY <2>1, <3>2 DEF Tried
  <2>6. Stage = "started" /\ Stage' = "tried"
    BY <1>2, <2>1, <2>3, <2>5 DEF Stage
  <2>7. Service!Try
    BY <2>1, <2>4, <2>6 DEF Service!Try
  <2> QED BY <2>7 DEF Service!Next
<1> QED
  BY <1>1, <1>3, <1>4 DEF RobotStep

\* Every step of the epoll thread, the worker or the robot's program is a step of the
\* service or changes nothing that it shows.
LEMMA RefinementStep ==
  ASSUME IInv, IInv', [Next]_vars
  PROVE  [Service!Next]_(Service!vars)
<1>1. ASSUME NEW cmd \in Cmds, PutTask(cmd) PROVE Service!Next
  <2>1. /\ wpc' = wpc /\ task' = task /\ executed' = executed /\ replies' = replies
        /\ toServer' = toServer /\ UNCHANGED <<last, failed>>
    BY <1>1 DEF PutTask, worker, wire, history
  <2>2. Stage' = Stage
    BY <2>1, StageSame
  <2>3. Service!Accept(cmd)
    BY <1>1, <2>1, <2>2 DEF PutTask, Service!Accept
  <2> QED BY <2>3 DEF Service!Next
<1>2. CASE WorkerStep
  BY <1>2, WorkerRefines, RecvRefines DEF WorkerStep
<1>3. ASSUME NEW s \in Sessions, RobotStep(s) \/ RobotLeaves(s)
      PROVE  Service!Next \/ UNCHANGED Service!vars
  BY <1>3, RobotRefines
<1>4. CASE UNCHANGED vars
  BY <1>4, StageSame DEF vars, worker, wire, history, Service!vars
<1> QED
  BY <1>1, <1>2, <1>3, <1>4 DEF Next

\* The worker, the robot's program and the stream between them implement RobotService, for
\* any number of commands and connections: a command is refused or handed over in its turn,
\* tried at most once, and its end never reported before it has come.
THEOREM Implements == Spec => Refinement
<1> QED
  BY RefinementInit, Invariance, RefinementStep, PTL DEF Spec, Refinement, Service!Spec

===============================================================================
