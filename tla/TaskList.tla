------------------------------- MODULE TaskList -------------------------------
(***************************************************************************)
(* robot-switch-fifo/libtaskList: the task queue between a server's epoll  *)
(* thread and its worker threads.                                          *)
(*                                                                         *)
(* The list is a chain of malloc'd TaskListData nodes between head and     *)
(* tail, with a count Num, all guarded by struMutex; an empty list makes a *)
(* consumer sleep on struCond.  Each step below is one statement of        *)
(* task_list_put or task_list_get (or a few that no other thread can tell  *)
(* apart), so that an unlocked reader of Num, the epoll thread and every   *)
(* worker interleave as they do in the servers.  Nodes and tasks are       *)
(* blocks of the heap: a freed block may be handed out again by the next   *)
(* malloc.                                                                 *)
(***************************************************************************)
EXTENDS Naturals, Sequences, FiniteSets

CONSTANTS
  Producers,   \* threads that call task_list_put: the epoll thread
  Consumers,   \* threads that call task_list_get: the workers
  Tasks,       \* blocks that may hold a TaskInfo
  Nodes,       \* blocks that may hold a TaskListData
  NULL

Threads == Producers \cup Consumers

ASSUME ThreadsAssumption ==
  /\ Producers \cap Consumers = {}
  /\ NULL \notin Threads
  /\ IsFiniteSet(Consumers)
ASSUME BlocksAssumption == NULL \notin Tasks /\ NULL \notin Nodes

VARIABLES
  head, tail, Num,   \* struct _TaskList: the two ends and the count
  live,              \* the nodes that are malloc'd and not freed
  pData, pNext,      \* the fields of every node
  owner,             \* the thread that holds struMutex, or NULL
  waiting,           \* the consumers asleep on struCond
  pc,                \* where each thread stands in put or get
  list,              \* each thread's local variable list (a node or NULL)
  item,              \* the task each thread holds: d in put, data after get
  chain              \* history: the nodes linked and not unlinked, in order

fields == <<head, tail, Num, live, pData, pNext>>
sync == <<owner, waiting>>
vars == <<fields, sync, pc, list, item, chain>>

PutSteps == {"put_lock", "put_count", "put_first", "put_append",
             "put_signal", "put_unlock"}
GetSteps == {"get_lock", "get_test", "get_wait", "get_unlink", "get_drop",
             "get_unlock", "get_data"}

\* The steps taken while holding struMutex.
Critical == {"put_count", "put_first", "put_append", "put_signal", "put_unlock",
             "get_test", "get_unlink", "get_drop", "get_unlock"}

Goto(t, step) == pc' = [pc EXCEPT ![t] = step]

\* Blocks that malloc may not return: tasks reachable from a thread or a node.
TaskInUse(t) ==
  \/ \E th \in Threads : item[th] = t
  \/ \E n \in live : pData[n] = t

\* task_list_new, called once before any thread that uses the list exists.
Init ==
  /\ head = NULL /\ tail = NULL /\ Num = 0
  /\ live = {}
  /\ pData = [n \in Nodes |-> NULL]
  /\ pNext = [n \in Nodes |-> NULL]
  /\ owner = NULL /\ waiting = {}
  /\ pc = [t \in Threads |-> "idle"]
  /\ list = [t \in Threads |-> NULL]
  /\ item = [t \in Threads |-> NULL]
  /\ chain = <<>>

-------------------------------------------------------------------------------
(* task_list_put *)

\* A fresh task is read from a socket; put allocates its node and fills it in.
PutNew(p, t, n) ==
  /\ pc[p] = "idle"
  /\ ~TaskInUse(t)
  /\ n \notin live
  /\ live' = live \cup {n}
  /\ pData' = [pData EXCEPT ![n] = t]
  /\ pNext' = [pNext EXCEPT ![n] = NULL]
  /\ list' = [list EXCEPT ![p] = n]
  /\ item' = [item EXCEPT ![p] = t]
  /\ Goto(p, "put_lock")
  /\ UNCHANGED <<head, tail, Num, sync, chain>>

PutLock(p) ==
  /\ pc[p] = "put_lock"
  /\ owner = NULL
  /\ owner' = p
  /\ Goto(p, "put_count")
  /\ UNCHANGED <<fields, waiting, list, item, chain>>

\* if (task->Num ++ == 0)
PutCount(p) ==
  /\ pc[p] = "put_count"
  /\ Num' = Num + 1
  /\ Goto(p, IF Num = 0 THEN "put_first" ELSE "put_append")
  /\ UNCHANGED <<head, tail, live, pData, pNext, sync, list, item, chain>>

PutFirst(p) ==
  /\ pc[p] = "put_first"
  /\ head' = list[p]
  /\ tail' = list[p]
  /\ chain' = Append(chain, list[p])
  /\ Goto(p, "put_signal")
  /\ UNCHANGED <<Num, live, pData, pNext, sync, list, item>>

\* Mutant: the two assignments of the else branch swapped.
PutAppendTailFirst(p) ==
  /\ pc[p] = "put_append"
  /\ tail' = list[p]
  /\ pNext' = [pNext EXCEPT ![tail'] = list[p]]
  /\ chain' = Append(chain, list[p])
  /\ Goto(p, "put_signal")
  /\ UNCHANGED <<head, Num, live, pData, sync, list, item>>

PutAppend(p) ==
  /\ pc[p] = "put_append"
  /\ pNext' = [pNext EXCEPT ![tail] = list[p]]
  /\ tail' = list[p]
  /\ chain' = Append(chain, list[p])
  /\ Goto(p, "put_signal")
  /\ UNCHANGED <<head, Num, live, pData, sync, list, item>>

\* Mutant: signal only when the list was empty before the put.
PutSignalIfFirst(p) ==
  /\ pc[p] = "put_signal"
  /\ \/ (waiting = {} \/ Num # 1) /\ UNCHANGED waiting
     \/ Num = 1 /\ \E c \in waiting : waiting' = waiting \ {c}
  /\ Goto(p, "put_unlock")
  /\ UNCHANGED <<fields, owner, list, item, chain>>

\* Mutant: the signal forgotten.
PutSignalDropped(p) ==
  /\ pc[p] = "put_signal"
  /\ Goto(p, "put_unlock")
  /\ UNCHANGED <<fields, sync, list, item, chain>>

\* pthread_cond_signal wakes one sleeper, if there is one.
PutSignal(p) ==
  /\ pc[p] = "put_signal"
  /\ \/ waiting = {} /\ UNCHANGED waiting
     \/ \E c \in waiting : waiting' = waiting \ {c}
  /\ Goto(p, "put_unlock")
  /\ UNCHANGED <<fields, owner, list, item, chain>>

PutUnlock(p) ==
  /\ pc[p] = "put_unlock"
  /\ owner' = NULL
  /\ list' = [list EXCEPT ![p] = NULL]
  /\ item' = [item EXCEPT ![p] = NULL]
  /\ Goto(p, "idle")
  /\ UNCHANGED <<fields, waiting, chain>>

-------------------------------------------------------------------------------
(* task_list_get *)

\* A worker that has freed its last task asks for the next one.
GetCall(c) ==
  /\ pc[c] = "idle"
  /\ item[c] = NULL
  /\ Goto(c, "get_lock")
  /\ UNCHANGED <<fields, sync, list, item, chain>>

GetLock(c) ==
  /\ pc[c] = "get_lock"
  /\ owner = NULL
  /\ owner' = c
  /\ Goto(c, "get_test")
  /\ UNCHANGED <<fields, waiting, list, item, chain>>

\* while (task->Num < 1 || task->head == NULL) pthread_cond_wait(...):
\* to sleep is to join the sleepers and release the mutex in one step.
GetSleep(c) ==
  /\ pc[c] = "get_test"
  /\ Num < 1 \/ head = NULL
  /\ waiting' = waiting \cup {c}
  /\ owner' = NULL
  /\ Goto(c, "get_wait")
  /\ UNCHANGED <<fields, list, item, chain>>

GetProceed(c) ==
  /\ pc[c] = "get_test"
  /\ ~(Num < 1 \/ head = NULL)
  /\ Goto(c, "get_unlink")
  /\ UNCHANGED <<fields, sync, list, item, chain>>

\* pthread_cond_wait may return without a signal.
SpuriousWakeup(c) ==
  /\ c \in waiting
  /\ waiting' = waiting \ {c}
  /\ UNCHANGED <<fields, owner, pc, list, item, chain>>

\* A woken consumer reacquires the mutex and tests the condition again.
GetRelock(c) ==
  /\ pc[c] = "get_wait"
  /\ c \notin waiting
  /\ owner = NULL
  /\ owner' = c
  /\ Goto(c, "get_test")
  /\ UNCHANGED <<fields, waiting, list, item, chain>>

\* Mutant: the newest task is handed out instead of the oldest.
GetUnlinkNewest(c) ==
  /\ pc[c] = "get_unlink"
  /\ list' = [list EXCEPT ![c] = tail]
  /\ head' = pNext[head]
  /\ chain' = Tail(chain)
  /\ Goto(c, "get_drop")
  /\ UNCHANGED <<tail, Num, live, pData, pNext, sync, item>>

\* list = task->head; task->head = list->pNext;
GetUnlink(c) ==
  /\ pc[c] = "get_unlink"
  /\ list' = [list EXCEPT ![c] = head]
  /\ head' = pNext[head]
  /\ chain' = Tail(chain)
  /\ Goto(c, "get_drop")
  /\ UNCHANGED <<tail, Num, live, pData, pNext, sync, item>>

\* Mutant: the count tested for the last task but not decremented.
GetDropUncounted(c) ==
  /\ pc[c] = "get_drop"
  /\ tail' = IF Num = 1 THEN NULL ELSE tail
  /\ Goto(c, "get_unlock")
  /\ UNCHANGED <<head, Num, live, pData, pNext, sync, list, item, chain>>

\* if (-- task->Num == 0) task->tail = NULL;
GetDrop(c) ==
  /\ pc[c] = "get_drop"
  /\ Num' = Num - 1
  /\ tail' = IF Num' = 0 THEN NULL ELSE tail
  /\ Goto(c, "get_unlock")
  /\ UNCHANGED <<head, live, pData, pNext, sync, list, item, chain>>

GetUnlock(c) ==
  /\ pc[c] = "get_unlock"
  /\ owner' = NULL
  /\ Goto(c, "get_data")
  /\ UNCHANGED <<fields, waiting, list, item, chain>>

\* data = list->pData; free(list); return data;  -- after the unlock
GetData(c) ==
  /\ pc[c] = "get_data"
  /\ item' = [item EXCEPT ![c] = pData[list[c]]]
  /\ live' = live \ {list[c]}
  /\ list' = [list EXCEPT ![c] = NULL]
  /\ Goto(c, "idle")
  /\ UNCHANGED <<head, tail, Num, pData, pNext, sync, chain>>

\* The worker has dealt with the task and frees it.
FreeTask(c) ==
  /\ pc[c] = "idle"
  /\ item[c] # NULL
  /\ item' = [item EXCEPT ![c] = NULL]
  /\ UNCHANGED <<fields, sync, pc, list, chain>>

-------------------------------------------------------------------------------
PutStep(p) ==
  \/ PutLock(p) \/ PutCount(p) \/ PutFirst(p) \/ PutAppend(p)
  \/ PutSignal(p) \/ PutUnlock(p)

GetStep(c) ==
  \/ GetCall(c) \/ GetLock(c) \/ GetSleep(c) \/ GetProceed(c) \/ GetRelock(c)
  \/ GetUnlink(c) \/ GetDrop(c) \/ GetUnlock(c) \/ GetData(c) \/ FreeTask(c)

Next ==
  \/ \E p \in Producers, t \in Tasks, n \in Nodes : PutNew(p, t, n)
  \/ \E p \in Producers : PutStep(p)
  \/ \E c \in Consumers : GetStep(c) \/ SpuriousWakeup(c)

Spec == Init /\ [][Next]_vars

\* Every thread keeps running; nothing obliges a client to send another task
\* and nothing obliges the system to wake a sleeper without a signal.
Fairness ==
  /\ \A p \in Producers : WF_vars(PutStep(p))
  /\ \A c \in Consumers : WF_vars(GetStep(c))

FairSpec == Spec /\ Fairness

-------------------------------------------------------------------------------
(* Properties *)

\* Every field, local and program counter of libtaskList.c holds a value of its
\* C type; in particular Num, a signed int, never goes below zero.
TypeOK ==
  /\ head \in Nodes \cup {NULL}
  /\ tail \in Nodes \cup {NULL}
  /\ Num \in Nat
  /\ live \subseteq Nodes
  /\ pData \in [Nodes -> Tasks \cup {NULL}]
  /\ pNext \in [Nodes -> Nodes \cup {NULL}]
  /\ owner \in Threads \cup {NULL}
  /\ waiting \subseteq Consumers
  /\ pc \in [Threads -> {"idle"} \cup PutSteps \cup GetSteps]
  /\ list \in [Threads -> Nodes \cup {NULL}]
  /\ item \in [Threads -> Tasks \cup {NULL}]
  /\ chain \in Seq(Nodes)

\* A node that is malloc'd and belongs to one thread alone: a producer that has
\* not linked it yet, or a consumer that has unlinked it and not freed it.
Unlinked == {"put_lock", "put_count", "put_first", "put_append"}
Taken == {"get_drop", "get_unlock", "get_data"}
Private(t) == pc[t] \in Unlinked \cup Taken

\* The linked nodes are what a walk from head along pNext meets, ending at tail:
\* all of them live, none met twice, no end lost.
ChainOK ==
  /\ head = IF chain = <<>> THEN NULL ELSE chain[1]
  /\ chain # <<>> => tail = chain[Len(chain)] /\ pNext[tail] = NULL
  /\ \A i \in 1..Len(chain) : chain[i] \in live
  /\ \A i, j \in 1..Len(chain) : chain[i] = chain[j] => i = j
  /\ \A i \in 1..Len(chain) - 1 : pNext[chain[i]] = chain[i + 1]

\* What a thread reads through its local list outside the lock is its own: no
\* other thread holds that node, the list does not reach it, nobody freed it.
PrivateOK ==
  \A t \in Threads : Private(t) =>
    /\ list[t] \in live
    /\ \A i \in 1..Len(chain) : chain[i] # list[t]
    /\ \A u \in Threads \ {t} : Private(u) => list[u] # list[t]

\* task_list_put and task_list_get keep a well-formed list of live nodes and
\* touch no freed node, whichever threads interleave, and every field of the list keeps
\* its type: Num never goes below zero.
ListShape == TypeOK /\ ChainOK /\ PrivateOK

\* Some thread is inside an update: its count and its links disagree for a moment.
Adjusting == \E t \in Threads : pc[t] \in {"put_first", "put_append", "get_drop"}

\* task_list_get_num reads Num without the mutex: what it returns is never less
\* than the number of linked tasks and at most one more, during an update.
CountTracksQueue == Num = Len(chain) + (IF Adjusting THEN 1 ELSE 0)

\* The consumers on their way to a task: they hold the mutex or, woken, wait for it.
Takers ==
  {c \in Consumers \ waiting :
     pc[c] \in {"get_wait", "get_test", "get_unlink", "get_drop"}}

Signalling == \E p \in Producers : pc[p] \in {"put_first", "put_append", "put_signal"}

\* No lost wakeup: while any worker sleeps in task_list_get, each counted task has
\* an awake worker coming for it or a producer about to signal one.  A single
\* pthread_cond_signal per task suffices, with spurious wakeups and with workers
\* that arrive without sleeping.
NoLostWakeup ==
  waiting # {} => Num <= Cardinality(Takers) + (IF Signalling THEN 1 ELSE 0)

\* The list as its callers see it: a queue of tasks, each handed to one consumer
\* when its node is unlinked.
QueuedTasks == [i \in 1..Len(chain) |-> pData[chain[i]]]
HeldTasks == [c \in Consumers |-> IF pc[c] \in Taken THEN pData[list[c]] ELSE item[c]]

Fifo == INSTANCE TaskFifo WITH queue <- QueuedTasks, held <- HeldTasks

\* libtaskList implements the FIFO of TaskFifo: tasks leave in the order they were
\* put, none is lost, invented or handed to two workers.
Refinement == Fifo!Spec

\* Where the two kinds of threads may stand, and who sleeps.
PcOK ==
  /\ \A p \in Producers : pc[p] \in {"idle"} \cup PutSteps
  /\ \A c \in Consumers : pc[c] \in {"idle"} \cup GetSteps
  /\ \A c \in waiting : pc[c] = "get_wait"

\* struMutex: exactly its owner is between the lock and the unlock.
LockOK == \A t \in Threads : pc[t] \in Critical <=> owner = t

\* What put and get know of the list after their tests of Num and head.
TestOK ==
  \A t \in Threads :
    /\ pc[t] = "put_first" => chain = <<>>
    /\ pc[t] \in {"put_append", "get_unlink"} => chain # <<>>

\* A node not linked yet is complete; a worker inside get holds no task.
LocalsOK ==
  /\ \A p \in Producers : pc[p] \in Unlinked =>
       pData[list[p]] = item[p] /\ pNext[list[p]] = NULL
  /\ \A c \in Consumers : pc[c] # "idle" => item[c] = NULL

\* No task is in two nodes, or in a node and in a worker's hands.
TasksOK ==
  /\ \A m \in live : pData[m] # NULL
  /\ \A m, n \in live : pData[m] = pData[n] => m = n
  /\ \A m \in live, c \in Consumers : item[c] # pData[m]

\* The inductive invariant behind ListShape, CountTracksQueue and Refinement.
IInv ==
  /\ TypeOK /\ PcOK /\ LockOK /\ ChainOK /\ PrivateOK
  /\ CountTracksQueue /\ TestOK /\ LocalsOK /\ TasksOK

\* Every task that is put is handed to a worker: no task waits for ever while
\* workers sleep or compete for the mutex.
QueuedTaskTaken ==
  \A t \in Tasks :
    (\E i \in 1..Len(chain) : pData[chain[i]] = t) ~> (\E c \in Consumers : item[c] = t)

===============================================================================
