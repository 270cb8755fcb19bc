------------------------------- MODULE TaskFifo -------------------------------
(***************************************************************************)
(* What libtaskList promises to the servers that use it: an unbounded FIFO *)
(* of tasks.  task_list_put adds a task at the end, task_list_get hands    *)
(* the oldest task to exactly one consumer, and a consumer that finds the  *)
(* list empty does not return.  No pointer, lock or count is visible here; *)
(* TaskList implements this specification.                                 *)
(***************************************************************************)
EXTENDS Naturals, Sequences

CONSTANTS
  Consumers,   \* the worker threads that call task_list_get
  Tasks,       \* the TaskInfo blocks a producer can allocate
  NULL         \* no task

VARIABLES
  queue,       \* the tasks in the list, oldest first
  held         \* the task each consumer has been handed and has not freed

vars == <<queue, held>>

Init ==
  /\ queue = <<>>
  /\ held = [c \in Consumers |-> NULL]

\* A task is in use from the put until its consumer frees it.
InUse(t) ==
  \/ \E i \in 1..Len(queue) : queue[i] = t
  \/ \E c \in Consumers : held[c] = t

Put(t) ==
  /\ ~InUse(t)
  /\ queue' = Append(queue, t)
  /\ UNCHANGED held

Get(c) ==
  /\ queue # <<>>
  /\ held[c] = NULL
  /\ held' = [held EXCEPT ![c] = Head(queue)]
  /\ queue' = Tail(queue)

Free(c) ==
  /\ held[c] # NULL
  /\ held' = [held EXCEPT ![c] = NULL]
  /\ UNCHANGED queue

Next ==
  \/ \E t \in Tasks : Put(t)
  \/ \E c \in Consumers : Get(c) \/ Free(c)

Spec == Init /\ [][Next]_vars

===============================================================================
