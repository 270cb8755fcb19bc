---------------------------- MODULE TaskListProofs ----------------------------
(***************************************************************************)
(* What TaskList guarantees for any number of producers, consumers, tasks  *)
(* and heap blocks: the inductive invariant IInv, from which the shape of  *)
(* the list, the count and the refinement of TaskFifo follow, and the      *)
(* absence of lost wakeups, which needs a count of the awake consumers.    *)
(***************************************************************************)
EXTENDS TaskList, SequenceFacts, FiniteSetTheorems

-------------------------------------------------------------------------------
(* Sequences *)

\* Looking up the elements of a tail is the tail of looking them up.
LEMMA MapTail ==
  ASSUME NEW S, NEW s \in Seq(S), s # <<>>, NEW f, NEW T, \A x \in S : f[x] \in T
  PROVE  [i \in 1..Len(Tail(s)) |-> f[Tail(s)[i]]] = Tail([i \in 1..Len(s) |-> f[s[i]]])
<1> DEFINE q == [i \in 1..Len(s) |-> f[s[i]]]
           r == [i \in 1..Len(Tail(s)) |-> f[Tail(s)[i]]]
<1>1. /\ q \in Seq(T) /\ Len(q) = Len(s) /\ q # <<>>
  BY SeqNonEmpty
<1>2. /\ Len(Tail(q)) = Len(s) - 1 /\ Tail(q) \in Seq(T)
      /\ \A i \in 1..(Len(s) - 1) : Tail(q)[i] = f[s[i+1]]
  BY <1>1, TailIndex, SeqNonEmpty
<1>3. /\ r \in Seq(T) /\ Len(r) = Len(s) - 1
      /\ \A i \in 1..(Len(s) - 1) : r[i] = f[s[i+1]]
  BY TailIndex, SeqNonEmpty
<1> QED BY <1>2, <1>3

\* The same for Append.
LEMMA MapAppend ==
  ASSUME NEW S, NEW s \in Seq(S), NEW x \in S, NEW f, NEW T, \A y \in S : f[y] \in T
  PROVE  [i \in 1..Len(Append(s, x)) |-> f[Append(s, x)[i]]]
           = Append([i \in 1..Len(s) |-> f[s[i]]], f[x])
<1> DEFINE q == [i \in 1..Len(s) |-> f[s[i]]]
           r == [i \in 1..Len(Append(s, x)) |-> f[Append(s, x)[i]]]
<1>1. /\ q \in Seq(T) /\ Len(q) = Len(s)
  BY SeqNonEmpty
<1>2. /\ Len(Append(q, f[x])) = Len(s) + 1 /\ Append(q, f[x]) \in Seq(T)
      /\ \A i \in 1..Len(s) : Append(q, f[x])[i] = f[s[i]]
      /\ Append(q, f[x])[Len(s) + 1] = f[x]
  BY <1>1, AppendIndex, SeqNonEmpty
<1>3. /\ r \in Seq(T) /\ Len(r) = Len(s) + 1
      /\ \A i \in 1..Len(s) : r[i] = f[s[i]]
      /\ r[Len(s) + 1] = f[x]
  BY AppendIndex, SeqNonEmpty
<1> QED BY <1>2, <1>3
-------------------------------------------------------------------------------
(* The inductive invariant, one lemma per action *)

\* A fresh node is private to its producer: malloc returns neither a live node nor a
\* task in use.
LEMMA PutNewInv ==
  ASSUME IInv, NEW p \in Producers, NEW t \in Tasks, NEW n \in Nodes, PutNew(p, t, n)
  PROVE  IInv'
<1> USE ThreadsAssumption, BlocksAssumption
        DEF Threads, IInv, PutNew, Goto, fields, sync
<1>1. TypeOK'
  BY SMT DEF TypeOK, PutSteps
<1>2. PcOK' /\ LockOK'
  BY SMT DEF PcOK, LockOK, PutSteps, Critical
<1>3. ChainOK'
  BY SMT DEF ChainOK, Unlinked
<1>4. PrivateOK'
  BY SMT DEF TypeOK, ChainOK, PrivateOK, Private
<1>5. CountTracksQueue'
  BY SMT DEF CountTracksQueue, Adjusting
<1>6. TestOK'
  BY SMT DEF TestOK
<1>7. LocalsOK'
  BY SMT DEF TypeOK, LocalsOK, PrivateOK, Private
<1>8. TasksOK'
  BY SMT DEF TypeOK, TasksOK, TaskInUse
<1> QED
  BY <1>1, <1>2, <1>3, <1>4, <1>5, <1>6, <1>7, <1>8

\* Taking struMutex changes nothing that the other threads' facts speak of.
LEMMA PutLockInv ==
  ASSUME IInv, NEW p \in Producers, PutLock(p)
  PROVE  IInv'
<1> USE ThreadsAssumption, BlocksAssumption
        DEF Threads, IInv, PutLock, Goto, fields, sync
<1>1. TypeOK'
  BY SMT DEF TypeOK, PutSteps
<1>2. PcOK' /\ LockOK'
  BY SMT DEF TypeOK, PcOK, LockOK, PutSteps, Critical
<1>3. ChainOK'
  BY SMT DEF ChainOK
<1>4. PrivateOK'
  BY SMT DEF PrivateOK, Private, Unlinked
<1>5. CountTracksQueue'
  BY SMT DEF CountTracksQueue, Adjusting
<1>6. TestOK'
  BY SMT DEF TestOK
<1>7. LocalsOK'
  BY SMT DEF LocalsOK, Unlinked
<1>8. TasksOK'
  BY SMT DEF TasksOK
<1> QED
  BY <1>1, <1>2, <1>3, <1>4, <1>5, <1>6, <1>7, <1>8

\* Num ++ == 0 tells an empty list from one to append to, since no other update is
\* under way.
LEMMA PutCountInv ==
  ASSUME IInv, NEW p \in Producers, PutCount(p)
  PROVE  IInv'
<1> USE ThreadsAssumption, BlocksAssumption
        DEF Threads, IInv, PutCount, Goto, fields, sync
<1>1. TypeOK'
  BY SMT DEF TypeOK, PutSteps
<1>2. PcOK' /\ LockOK'
  BY SMT DEF PcOK, LockOK, PutSteps, Critical
<1>3. ChainOK'
  BY SMT DEF ChainOK
<1>4. PrivateOK'
  BY SMT DEF PrivateOK, Private, Unlinked
<1>5. CountTracksQueue'
  BY SMT DEF TypeOK, CountTracksQueue, Adjusting, LockOK, Critical
<1>6. TestOK'
  BY SMT DEF CountTracksQueue, Adjusting, LockOK, Critical, TestOK
<1>7. LocalsOK'
  BY SMT DEF LocalsOK, Unlinked
<1>8. TasksOK'
  BY SMT DEF TasksOK
<1> QED
  BY <1>1, <1>2, <1>3, <1>4, <1>5, <1>6, <1>7, <1>8

\* The first node becomes both ends of the list.
LEMMA PutFirstInv ==
  ASSUME IInv, NEW p \in Producers, PutFirst(p)
  PROVE  IInv'
<1> USE ThreadsAssumption, BlocksAssumption
        DEF Threads, IInv, PutFirst, Goto, fields, sync
<1>1. TypeOK'
  BY SMT DEF TypeOK, PutSteps, PrivateOK, Private, Unlinked
<1>2. PcOK' /\ LockOK'
  BY SMT DEF PcOK, LockOK, PutSteps, Critical
<1>3. ChainOK'
  BY SMT DEF ChainOK, PrivateOK, Private, Unlinked, TestOK, LocalsOK
<1>4. PrivateOK'
  BY SMT DEF TypeOK, PrivateOK, Private, Unlinked, Taken
<1>5. CountTracksQueue'
  BY SMT DEF TypeOK, CountTracksQueue, Adjusting, LockOK, Critical
<1>6. TestOK'
  BY SMT DEF TypeOK, LockOK, Critical, TestOK
<1>7. LocalsOK'
  BY SMT DEF LocalsOK, Unlinked
<1>8. TasksOK'
  BY SMT DEF TasksOK
<1> QED
  BY <1>1, <1>2, <1>3, <1>4, <1>5, <1>6, <1>7, <1>8

\* A node linked behind the tail extends the walk from head by one.
LEMMA PutAppendInv ==
  ASSUME IInv, NEW p \in Producers, PutAppend(p)
  PROVE  IInv'
<1> USE ThreadsAssumption, BlocksAssumption
        DEF Threads, IInv, PutAppend, Goto, fields, sync
<1>1. TypeOK'
  BY SMT DEF TypeOK, PutSteps, ChainOK, TestOK, PrivateOK, Private, Unlinked
<1>2. PcOK' /\ LockOK'
  BY SMT DEF PcOK, LockOK, PutSteps, Critical
<1>3. ChainOK'
  BY SMT DEF TypeOK, ChainOK, PrivateOK, Private, Unlinked, TestOK, LocalsOK
<1>4. PrivateOK'
  BY SMT DEF TypeOK, PrivateOK, Private, Unlinked, Taken
<1>5. CountTracksQueue'
  BY SMT DEF TypeOK, CountTracksQueue, Adjusting, LockOK, Critical
<1>6. TestOK'
  BY SMT DEF TestOK
<1>7. LocalsOK'
  BY SMT DEF LocalsOK, PrivateOK, Private, Unlinked, ChainOK, TestOK
<1>8. TasksOK'
  BY SMT DEF TasksOK
<1> QED
  BY <1>1, <1>2, <1>3, <1>4, <1>5, <1>6, <1>7, <1>8

\* A woken sleeper stands where a consumer reacquires the mutex.
LEMMA PutSignalInv ==
  ASSUME IInv, NEW p \in Producers, PutSignal(p)
  PROVE  IInv'
<1> USE ThreadsAssumption, BlocksAssumption
        DEF Threads, IInv, PutSignal, Goto, fields, sync
<1>1. TypeOK'
  BY SMT DEF TypeOK, PutSteps
<1>2. PcOK' /\ LockOK'
  BY SMT DEF PcOK, LockOK, PutSteps, Critical
<1>3. ChainOK'
  BY SMT DEF ChainOK
<1>4. PrivateOK'
  BY SMT DEF PrivateOK, Private, Unlinked, Taken
<1>5. CountTracksQueue'
  BY SMT DEF CountTracksQueue, Adjusting
<1>6. TestOK'
  BY SMT DEF TestOK
<1>7. LocalsOK'
  BY SMT DEF LocalsOK, Unlinked
<1>8. TasksOK'
  BY SMT DEF TasksOK
<1> QED
  BY <1>1, <1>2, <1>3, <1>4, <1>5, <1>6, <1>7, <1>8

\* After the unlock the producer keeps no node.
LEMMA PutUnlockInv ==
  ASSUME IInv, NEW p \in Producers, PutUnlock(p)
  PROVE  IInv'
<1> USE ThreadsAssumption, BlocksAssumption
        DEF Threads, IInv, PutUnlock, Goto, fields, sync
<1>1. TypeOK'
  BY SMT DEF TypeOK
<1>2. PcOK' /\ LockOK'
  BY SMT DEF TypeOK, PcOK, LockOK, Critical
<1>3. ChainOK'
  BY SMT DEF ChainOK
<1>4. PrivateOK'
  BY SMT DEF PrivateOK, Private, Unlinked, Taken
<1>5. CountTracksQueue'
  BY SMT DEF CountTracksQueue, Adjusting
<1>6. TestOK'
  BY SMT DEF TestOK
<1>7. LocalsOK'
  BY SMT DEF LocalsOK, Unlinked
<1>8. TasksOK'
  BY SMT DEF TasksOK
<1> QED
  BY <1>1, <1>2, <1>3, <1>4, <1>5, <1>6, <1>7, <1>8

\* A worker asks for a task only when it holds none.
LEMMA GetCallInv ==
  ASSUME IInv, NEW c \in Consumers, GetCall(c)
  PROVE  IInv'
<1> USE ThreadsAssumption, BlocksAssumption
        DEF Threads, IInv, GetCall, Goto, fields, sync
<1>1. TypeOK'
  BY SMT DEF TypeOK, GetSteps
<1>2. PcOK' /\ LockOK'
  BY SMT DEF PcOK, LockOK, GetSteps, Critical
<1>3. ChainOK'
  BY SMT DEF ChainOK
<1>4. PrivateOK'
  BY SMT DEF PrivateOK, Private, Unlinked, Taken
<1>5. CountTracksQueue'
  BY SMT DEF CountTracksQueue, Adjusting
<1>6. TestOK'
  BY SMT DEF TestOK
<1>7. LocalsOK'
  BY SMT DEF LocalsOK
<1>8. TasksOK'
  BY SMT DEF TasksOK
<1> QED
  BY <1>1, <1>2, <1>3, <1>4, <1>5, <1>6, <1>7, <1>8

\* A consumer takes struMutex.
LEMMA GetLockInv ==
  ASSUME IInv, NEW c \in Consumers, GetLock(c)
  PROVE  IInv'
<1> USE ThreadsAssumption, BlocksAssumption
        DEF Threads, IInv, GetLock, Goto, fields, sync
<1>1. TypeOK'
  BY SMT DEF TypeOK, GetSteps
<1>2. PcOK' /\ LockOK'
  BY SMT DEF TypeOK, PcOK, LockOK, GetSteps, Critical
<1>3. ChainOK'
  BY SMT DEF ChainOK
<1>4. PrivateOK'
  BY SMT DEF PrivateOK, Private, Unlinked, Taken
<1>5. CountTracksQueue'
  BY SMT DEF CountTracksQueue, Adjusting
<1>6. TestOK'
  BY SMT DEF TestOK
<1>7. LocalsOK'
  BY SMT DEF LocalsOK
<1>8. TasksOK'
  BY SMT DEF TasksOK
<1> QED
  BY <1>1, <1>2, <1>3, <1>4, <1>5, <1>6, <1>7, <1>8

\* pthread_cond_wait releases the mutex.
LEMMA GetSleepInv ==
  ASSUME IInv, NEW c \in Consumers, GetSleep(c)
  PROVE  IInv'
<1> USE ThreadsAssumption, BlocksAssumption
        DEF Threads, IInv, GetSleep, Goto, fields, sync
<1>1. TypeOK'
  BY SMT DEF TypeOK, GetSteps
<1>2. PcOK' /\ LockOK'
  BY SMT DEF TypeOK, PcOK, LockOK, GetSteps, Critical
<1>3. ChainOK'
  BY SMT DEF ChainOK
<1>4. PrivateOK'
  BY SMT DEF PrivateOK, Private, Unlinked, Taken
<1>5. CountTracksQueue'
  BY SMT DEF CountTracksQueue, Adjusting
<1>6. TestOK'
  BY SMT DEF TestOK
<1>7. LocalsOK'
  BY SMT DEF LocalsOK
<1>8. TasksOK'
  BY SMT DEF TasksOK
<1> QED
  BY <1>1, <1>2, <1>3, <1>4, <1>5, <1>6, <1>7, <1>8

\* Past the test of Num and head the list is not empty.
LEMMA GetProceedInv ==
  ASSUME IInv, NEW c \in Consumers, GetProceed(c)
  PROVE  IInv'
<1> USE ThreadsAssumption, BlocksAssumption
        DEF Threads, IInv, GetProceed, Goto, fields, sync
<1>1. TypeOK'
  BY SMT DEF TypeOK, GetSteps
<1>2. PcOK' /\ LockOK'
  BY SMT DEF PcOK, LockOK, GetSteps, Critical
<1>3. ChainOK'
  BY SMT DEF ChainOK
<1>4. PrivateOK'
  BY SMT DEF PrivateOK, Private, Unlinked, Taken
<1>5. CountTracksQueue'
  BY SMT DEF CountTracksQueue, Adjusting
<1>6. TestOK'
  BY SMT DEF TestOK, ChainOK
<1>7. LocalsOK'
  BY SMT DEF LocalsOK
<1>8. TasksOK'
  BY SMT DEF TasksOK
<1> QED
  BY <1>1, <1>2, <1>3, <1>4, <1>5, <1>6, <1>7, <1>8

\* A wakeup without a signal.
LEMMA SpuriousWakeupInv ==
  ASSUME IInv, NEW c \in Consumers, SpuriousWakeup(c)
  PROVE  IInv'
<1> USE ThreadsAssumption, BlocksAssumption
        DEF Threads, IInv, SpuriousWakeup, Goto, fields, sync
<1>1. TypeOK'
  BY SMT DEF TypeOK
<1>2. PcOK' /\ LockOK'
  BY SMT DEF PcOK, LockOK
<1>3. ChainOK'
  BY SMT DEF ChainOK
<1>4. PrivateOK'
  BY SMT DEF PrivateOK, Private
<1>5. CountTracksQueue'
  BY SMT DEF CountTracksQueue, Adjusting
<1>6. TestOK'
  BY SMT DEF TestOK
<1>7. LocalsOK'
  BY SMT DEF LocalsOK
<1>8. TasksOK'
  BY SMT DEF TasksOK
<1> QED
  BY <1>1, <1>2, <1>3, <1>4, <1>5, <1>6, <1>7, <1>8

\* The woken consumer has the mutex again and repeats its test.
LEMMA GetRelockInv ==
  ASSUME IInv, NEW c \in Consumers, GetRelock(c)
  PROVE  IInv'
<1> USE ThreadsAssumption, BlocksAssumption
        DEF Threads, IInv, GetRelock, Goto, fields, sync
<1>1. TypeOK'
  BY SMT DEF TypeOK, GetSteps
<1>2. PcOK' /\ LockOK'
  BY SMT DEF TypeOK, PcOK, LockOK, GetSteps, Critical
<1>3. ChainOK'
  BY SMT DEF ChainOK
<1>4. PrivateOK'
  BY SMT DEF PrivateOK, Private, Unlinked, Taken
<1>5. CountTracksQueue'
  BY SMT DEF CountTracksQueue, Adjusting
<1>6. TestOK'
  BY SMT DEF TestOK
<1>7. LocalsOK'
  BY SMT DEF LocalsOK
<1>8. TasksOK'
  BY SMT DEF TasksOK
<1> QED
  BY <1>1, <1>2, <1>3, <1>4, <1>5, <1>6, <1>7, <1>8

\* The unlinked node leaves the walk from head and becomes private to its consumer.
LEMMA GetUnlinkInv ==
  ASSUME IInv, NEW c \in Consumers, GetUnlink(c)
  PROVE  IInv'
<1> USE ThreadsAssumption, BlocksAssumption
        DEF Threads, IInv, GetUnlink, Goto, fields, sync
<1>1. TypeOK'
  BY SMT DEF TypeOK, GetSteps, ChainOK, TestOK
<1>2. PcOK' /\ LockOK'
  BY SMT DEF PcOK, LockOK, GetSteps, Critical
<1>3. ChainOK'
  BY TailIndex, SMT DEF TypeOK, ChainOK, PrivateOK, Private, Unlinked, TestOK, LocalsOK
<1>4. PrivateOK'
  BY SMT DEF TypeOK, ChainOK, PrivateOK, Private, TestOK
<1>5. CountTracksQueue'
  <2>1. ~Adjusting
    BY SMT DEF TypeOK, LockOK, Critical, Adjusting
  <2>2. Adjusting'
    BY SMT DEF TypeOK, Adjusting
  <2>3. Len(chain') = Len(chain) - 1 /\ Len(chain) \in Nat
    BY TailIndex DEF TypeOK, TestOK
  <2> QED
    BY <2>1, <2>2, <2>3 DEF CountTracksQueue, TypeOK
<1>6. TestOK'
  BY SMT DEF TypeOK, LockOK, Critical, TestOK
<1>7. LocalsOK'
  BY SMT DEF LocalsOK
<1>8. TasksOK'
  BY SMT DEF TasksOK
<1> QED
  BY <1>1, <1>2, <1>3, <1>4, <1>5, <1>6, <1>7, <1>8

\* Num and the links agree again; tail is reset exactly when the list is empty.
LEMMA GetDropInv ==
  ASSUME IInv, NEW c \in Consumers, GetDrop(c)
  PROVE  IInv'
<1> USE ThreadsAssumption, BlocksAssumption
        DEF Threads, IInv, GetDrop, Goto, fields, sync
<1>1. TypeOK'
  BY SMT DEF TypeOK, GetSteps, CountTracksQueue, Adjusting
<1>2. PcOK' /\ LockOK'
  BY SMT DEF PcOK, LockOK, GetSteps, Critical
<1>3. ChainOK'
  BY SMT DEF ChainOK, CountTracksQueue, Adjusting
<1>4. PrivateOK'
  BY SMT DEF PrivateOK, Private, Taken
<1>5. CountTracksQueue'
  BY SMT DEF TypeOK, CountTracksQueue, Adjusting, LockOK, Critical
<1>6. TestOK'
  BY SMT DEF TestOK
<1>7. LocalsOK'
  BY SMT DEF LocalsOK
<1>8. TasksOK'
  BY SMT DEF TasksOK
<1> QED
  BY <1>1, <1>2, <1>3, <1>4, <1>5, <1>6, <1>7, <1>8

\* The consumer's node stays its own after the unlock.
LEMMA GetUnlockInv ==
  ASSUME IInv, NEW c \in Consumers, GetUnlock(c)
  PROVE  IInv'
<1> USE ThreadsAssumption, BlocksAssumption
        DEF Threads, IInv, GetUnlock, Goto, fields, sync
<1>1. TypeOK'
  BY SMT DEF TypeOK, GetSteps
<1>2. PcOK' /\ LockOK'
  BY SMT DEF TypeOK, PcOK, LockOK, GetSteps, Critical
<1>3. ChainOK'
  BY SMT DEF ChainOK
<1>4. PrivateOK'
  BY SMT DEF PrivateOK, Private, Taken
<1>5. CountTracksQueue'
  BY SMT DEF CountTracksQueue, Adjusting
<1>6. TestOK'
  BY SMT DEF TestOK
<1>7. LocalsOK'
  BY SMT DEF LocalsOK
<1>8. TasksOK'
  BY SMT DEF TasksOK
<1> QED
  BY <1>1, <1>2, <1>3, <1>4, <1>5, <1>6, <1>7, <1>8

\* free(list): the freed node was reachable from nowhere else.
LEMMA GetDataInv ==
  ASSUME IInv, NEW c \in Consumers, GetData(c)
  PROVE  IInv'
<1> USE ThreadsAssumption, BlocksAssumption
        DEF Threads, IInv, GetData, Goto, fields, sync
<1>1. TypeOK'
  BY SMT DEF TypeOK, PrivateOK, Private, Taken
<1>2. PcOK' /\ LockOK'
  BY SMT DEF PcOK, LockOK, Critical
<1>3. ChainOK'
  BY SMT DEF ChainOK, PrivateOK, Private, Taken
<1>4. PrivateOK'
  BY SMT DEF TypeOK, PrivateOK, Private, Unlinked, Taken
<1>5. CountTracksQueue'
  BY SMT DEF CountTracksQueue, Adjusting
<1>6. TestOK'
  BY SMT DEF TestOK
<1>7. LocalsOK'
  BY SMT DEF TypeOK, LocalsOK
<1>8. TasksOK'
  BY SMT DEF TasksOK, PrivateOK, Private, Taken
<1> QED
  BY <1>1, <1>2, <1>3, <1>4, <1>5, <1>6, <1>7, <1>8

\* The worker's task is in no node when it is freed.
LEMMA FreeTaskInv ==
  ASSUME IInv, NEW c \in Consumers, FreeTask(c)
  PROVE  IInv'
<1> USE ThreadsAssumption, BlocksAssumption
        DEF Threads, IInv, FreeTask, Goto, fields, sync
<1>1. TypeOK'
  BY SMT DEF TypeOK
<1>2. PcOK' /\ LockOK'
  BY SMT DEF PcOK, LockOK
<1>3. ChainOK'
  BY SMT DEF ChainOK
<1>4. PrivateOK'
  BY SMT DEF PrivateOK, Private
<1>5. CountTracksQueue'
  BY SMT DEF CountTracksQueue, Adjusting
<1>6. TestOK'
  BY SMT DEF TestOK
<1>7. LocalsOK'
  BY SMT DEF LocalsOK
<1>8. TasksOK'
  BY SMT DEF TasksOK
<1> QED
  BY <1>1, <1>2, <1>3, <1>4, <1>5, <1>6, <1>7, <1>8

\* task_list_new returns a list that satisfies the invariant.
LEMMA InitInv == Init => IInv
BY ThreadsAssumption, BlocksAssumption, EmptySeq, SMT
   DEF Init, IInv, TypeOK, PcOK, LockOK, ChainOK, PrivateOK, Private, Unlinked, Taken,
       CountTracksQueue, Adjusting, TestOK, LocalsOK, TasksOK, Threads, Critical,
       PutSteps, GetSteps

\* The invariant speaks of the variables only.
LEMMA StutterInv == IInv /\ UNCHANGED vars => IInv'
BY DEF vars, fields, sync, IInv, TypeOK, PcOK, LockOK, ChainOK, PrivateOK, Private,
       CountTracksQueue, Adjusting, TestOK, LocalsOK, TasksOK

\* IInv holds in every state that task_list_put and task_list_get can reach.
THEOREM Invariance == Spec => []IInv
<1>1. IInv /\ [Next]_vars => IInv'
  <2> SUFFICES ASSUME IInv, [Next]_vars PROVE IInv'
    OBVIOUS
  <2>1. ASSUME NEW p \in Producers, NEW t \in Tasks, NEW n \in Nodes, PutNew(p, t, n)
        PROVE  IInv'
    BY <2>1, PutNewInv
  <2>2. ASSUME NEW p \in Producers, PutStep(p)
        PROVE  IInv'
    BY <2>2, PutLockInv, PutCountInv, PutFirstInv, PutAppendInv, PutSignalInv, PutUnlockInv
       DEF PutStep
  <2>3. ASSUME NEW c \in Consumers, GetStep(c)
        PROVE  IInv'
    BY <2>3, GetCallInv, GetLockInv, GetSleepInv, GetProceedInv, GetRelockInv, GetUnlinkInv, GetDropInv, GetUnlockInv, GetDataInv, FreeTaskInv
       DEF GetStep
  <2>4. ASSUME NEW c \in Consumers, SpuriousWakeup(c)
        PROVE  IInv'
    BY <2>4, SpuriousWakeupInv
  <2>5. CASE UNCHANGED vars
    BY <2>5, StutterInv
  <2> QED
    BY <2>1, <2>2, <2>3, <2>4, <2>5 DEF Next
<1> QED
  BY InitInv, <1>1, PTL DEF Spec

\* The list is well formed, ends where tail says, and no thread touches a freed node; its
\* fields keep their types, and Num never goes below zero.
THEOREM ListShapeHolds == Spec => []ListShape
<1>1. IInv => ListShape
  BY DEF IInv, ListShape
<1> QED
  BY <1>1, Invariance, PTL

\* task_list_get_num, which reads Num without the mutex, is off by at most one.
THEOREM CountHolds == Spec => []CountTracksQueue
<1>1. IInv => CountTracksQueue
  BY DEF IInv
<1> QED
  BY <1>1, Invariance, PTL

-------------------------------------------------------------------------------
(* Wakeups *)

\* There are finitely many consumers to count.
LEMMA TakersFinite ==
  /\ IsFiniteSet(Takers) /\ Cardinality(Takers) \in Nat
  /\ IsFiniteSet(Takers') /\ Cardinality(Takers') \in Nat
<1>1. Takers \subseteq Consumers /\ Takers' \subseteq Consumers
  BY DEF Takers
<1> QED
  BY <1>1, ThreadsAssumption, FS_Subset, FS_CardinalityType

\* One consumer more on the way to a task.
LEMMA TakersAdd ==
  ASSUME NEW c, c \notin Takers, Takers' = Takers \cup {c}
  PROVE  Cardinality(Takers') = Cardinality(Takers) + 1
BY TakersFinite, FS_AddElement

\* One consumer fewer.
LEMMA TakersRemove ==
  ASSUME NEW c, c \in Takers, Takers' = Takers \ {c}
  PROVE  Cardinality(Takers') = Cardinality(Takers) - 1
BY TakersFinite, FS_RemoveElement

\* What IInv says of the mutex and the sleepers, as the wakeup argument uses it.
LEMMA WakeFacts ==
  ASSUME IInv
  PROVE  /\ Num \in Nat /\ waiting \subseteq Consumers
         /\ pc \in [Threads -> {"idle"} \cup PutSteps \cup GetSteps]
         /\ \A c \in waiting : pc[c] = "get_wait"
         /\ \A t \in Threads : pc[t] \in Critical <=> owner = t
         /\ \A c \in Consumers : pc[c] \in {"idle"} \cup GetSteps
BY DEF IInv, TypeOK, PcOK, LockOK

\* NoLostWakeup is preserved: a step that raises Num is followed by a signal, and a
\* consumer sleeps only when Num is zero.
LEMMA WakeInductive ==
  ASSUME IInv, NoLostWakeup, [Next]_vars
  PROVE  NoLostWakeup'
<1> USE ThreadsAssumption, WakeFacts
        DEF Threads, Goto, fields, sync, PutSteps, GetSteps, Critical
<1>a. Cardinality(Takers) \in Nat /\ Cardinality(Takers') \in Nat
  BY TakersFinite
<1>b. ASSUME Num' = Num, waiting' \subseteq waiting, Takers' = Takers, Signalling => Signalling'
      PROVE  NoLostWakeup'
  BY <1>a, <1>b DEF NoLostWakeup
<1>1. ASSUME NEW p \in Producers, NEW t \in Tasks, NEW n \in Nodes, PutNew(p, t, n)
      PROVE  NoLostWakeup'
  <2>1. Takers' = Takers
    BY <1>1 DEF PutNew, Takers
  <2>2. Signalling => Signalling'
    BY <1>1 DEF PutNew, Signalling
  <2> QED
    BY <1>1, <1>b, <2>1, <2>2 DEF PutNew
<1>2. ASSUME NEW p \in Producers, PutStep(p)
      PROVE  NoLostWakeup'
  <2>1. CASE PutLock(p) \/ PutFirst(p) \/ PutAppend(p) \/ PutUnlock(p)
    <3>1. Takers' = Takers
      BY <2>1 DEF PutLock, PutFirst, PutAppend, PutUnlock, Takers
    <3>2. Signalling => Signalling'
      BY <2>1 DEF PutLock, PutFirst, PutAppend, PutUnlock, Signalling
    <3> QED
      BY <2>1, <1>b, <3>1, <3>2 DEF PutLock, PutFirst, PutAppend, PutUnlock
  <2>2. CASE PutCount(p)
    <3>1. Takers' = Takers
      BY <2>2 DEF PutCount, Takers
    <3>2. ~Signalling /\ Signalling'
      BY <2>2 DEF PutCount, Signalling
    <3> QED
      BY <2>2, <1>a, <3>1, <3>2 DEF PutCount, NoLostWakeup
  <2>3. CASE PutSignal(p) /\ waiting = {}
    BY <2>3 DEF PutSignal, NoLostWakeup
  <2>4. ASSUME PutSignal(p), NEW c \in waiting, waiting' = waiting \ {c}
        PROVE  NoLostWakeup'
    <3>1. c \notin Takers /\ Takers' = Takers \cup {c}
      BY <2>4 DEF PutSignal, Takers
    <3>2. Cardinality(Takers') = Cardinality(Takers) + 1
      BY <3>1, TakersAdd
    <3> QED
      BY <2>4, <1>a, <3>2 DEF PutSignal, NoLostWakeup
  <2> QED
    BY <1>2, <2>1, <2>2, <2>3, <2>4 DEF PutStep, PutSignal
<1>3. ASSUME NEW c \in Consumers, GetStep(c) \/ SpuriousWakeup(c)
      PROVE  NoLostWakeup'
  <2>1. CASE GetCall(c) \/ GetProceed(c) \/ GetRelock(c) \/ GetUnlink(c)
              \/ GetUnlock(c) \/ GetData(c) \/ FreeTask(c)
    <3>1. Takers' = Takers
      BY <2>1
         DEF GetCall, GetProceed, GetRelock, GetUnlink, GetUnlock, GetData, FreeTask, Takers
    <3>2. Signalling => Signalling'
      BY <2>1
         DEF GetCall, GetProceed, GetRelock, GetUnlink, GetUnlock, GetData, FreeTask, Signalling
    <3> QED
      BY <2>1, <1>b, <3>1, <3>2
         DEF GetCall, GetProceed, GetRelock, GetUnlink, GetUnlock, GetData, FreeTask
  <2>2. CASE GetLock(c) \/ SpuriousWakeup(c)
    <3>1. c \notin Takers /\ Takers' = Takers \cup {c}
      BY <2>2 DEF GetLock, SpuriousWakeup, Takers
    <3>2. Cardinality(Takers') = Cardinality(Takers) + 1
      BY <3>1, TakersAdd
    <3>3. Signalling => Signalling'
      BY <2>2 DEF GetLock, SpuriousWakeup, Signalling
    <3> QED
      BY <2>2, <1>a, <3>2, <3>3 DEF GetLock, SpuriousWakeup, NoLostWakeup
  <2>3. CASE GetSleep(c)
    <3>1. head = NULL => Len(chain) = 0
      BY SeqNonEmpty, BlocksAssumption DEF IInv, ChainOK, TypeOK
    <3>2. ~Adjusting
      BY <2>3 DEF GetSleep, Adjusting
    <3>3. Num = 0
      BY <2>3, <3>1, <3>2 DEF GetSleep, IInv, CountTracksQueue
    <3> QED
      BY <2>3, <1>a, <3>3 DEF GetSleep, NoLostWakeup
  <2>4. CASE GetDrop(c)
    <3>1. c \in Takers /\ Takers' = Takers \ {c}
      BY <2>4 DEF GetDrop, Takers
    <3>2. Cardinality(Takers') = Cardinality(Takers) - 1
      BY <3>1, TakersRemove
    <3>3. Signalling => Signalling'
      BY <2>4 DEF GetDrop, Signalling
    <3> QED
      BY <2>4, <1>a, <3>2, <3>3 DEF GetDrop, NoLostWakeup
  <2> QED
    BY <1>3, <2>1, <2>2, <2>3, <2>4 DEF GetStep
<1>4. CASE UNCHANGED vars
  BY <1>4 DEF vars, NoLostWakeup, Takers, Signalling
<1> QED
  BY <1>1, <1>2, <1>3, <1>4 DEF Next

\* No worker sleeps in task_list_get while a task has neither an awake worker coming
\* for it nor a signal about to be sent.
THEOREM NoLostWakeupHolds == Spec => []NoLostWakeup
<1>1. Init => NoLostWakeup
  BY DEF Init, NoLostWakeup
<1> QED
  BY <1>1, Invariance, WakeInductive, PTL DEF Spec

-------------------------------------------------------------------------------
(* The refinement of TaskFifo *)

\* The queue of tasks is as it was when the links and the linked nodes' data are.
LEMMA QueuedUnchanged ==
  ASSUME IInv, chain' = chain, \A n \in live : pData'[n] = pData[n]
  PROVE  QueuedTasks' = QueuedTasks
BY SeqNonEmpty DEF QueuedTasks, IInv, ChainOK, TypeOK

\* Linking a node appends its task.
LEMMA QueuedAppend ==
  ASSUME IInv, NEW n \in Nodes, chain' = Append(chain, n), pData' = pData
  PROVE  QueuedTasks' = Append(QueuedTasks, pData[n])
<1>1. chain \in Seq(Nodes) /\ \A m \in Nodes : pData[m] \in Tasks \cup {NULL}
  BY DEF IInv, TypeOK
<1> QED
  BY <1>1, MapAppend DEF QueuedTasks

\* Unlinking the first node removes the oldest task.
LEMMA QueuedTail ==
  ASSUME IInv, chain # <<>>, chain' = Tail(chain), pData' = pData
  PROVE  /\ QueuedTasks' = Tail(QueuedTasks)
         /\ QueuedTasks # <<>>
         /\ Head(QueuedTasks) = pData[chain[1]]
<1>1. chain \in Seq(Nodes) /\ \A m \in Nodes : pData[m] \in Tasks \cup {NULL}
  BY DEF IInv, TypeOK
<1>2. QueuedTasks' = Tail(QueuedTasks)
  BY <1>1, MapTail DEF QueuedTasks
<1>3. Len(chain) \in Nat /\ Len(chain) > 0
  BY <1>1, SeqNonEmpty
<1>4. QueuedTasks \in Seq(Tasks \cup {NULL}) /\ Len(QueuedTasks) = Len(chain)
      /\ QueuedTasks[1] = pData[chain[1]]
  BY <1>1, <1>3, SeqNonEmpty DEF QueuedTasks
<1> QED
  BY <1>2, <1>3, <1>4

\* The task a producer is about to link is nowhere in the abstract state.
LEMMA LinkedTaskIsNew ==
  ASSUME IInv, NEW p \in Producers, pc[p] \in {"put_first", "put_append"}
  PROVE  /\ item[p] \in Tasks /\ item[p] = pData[list[p]] /\ list[p] \in Nodes
         /\ ~Fifo!InUse(item[p])
<1> USE ThreadsAssumption DEF Threads
<1>1. list[p] \in live /\ list[p] \in Nodes /\ Private(p)
  BY DEF IInv, TypeOK, PrivateOK, Private, Unlinked
<1>2. item[p] = pData[list[p]] /\ item[p] \in Tasks
  BY <1>1 DEF IInv, LocalsOK, Unlinked, TasksOK, TypeOK
<1>3. ASSUME NEW i \in 1..Len(QueuedTasks), QueuedTasks[i] = item[p]
      PROVE  FALSE
  <2>1. i \in 1..Len(chain) /\ QueuedTasks[i] = pData[chain[i]]
    BY <1>3, SeqNonEmpty DEF QueuedTasks, IInv, TypeOK
  <2>2. chain[i] \in live /\ chain[i] # list[p]
    BY <1>1, <2>1 DEF IInv, ChainOK, PrivateOK
  <2> QED
    BY <1>1, <1>2, <1>3, <2>1, <2>2 DEF IInv, TasksOK
<1>4. ASSUME NEW c \in Consumers, HeldTasks[c] = item[p]
      PROVE  FALSE
  <2>1. CASE pc[c] \in Taken
    <3>1. Private(c) /\ c # p
      BY <2>1 DEF Private
    <3>2. list[c] \in live /\ list[c] # list[p]
      BY <1>1, <3>1 DEF IInv, PrivateOK
    <3> QED
      BY <1>1, <1>2, <1>4, <2>1, <3>2 DEF HeldTasks, IInv, TasksOK
  <2>2. CASE pc[c] \notin Taken
    BY <1>1, <1>2, <1>4, <2>2 DEF HeldTasks, IInv, TasksOK
  <2> QED
    BY <2>1, <2>2
<1> QED
  BY <1>1, <1>2, <1>3, <1>4 DEF Fifo!InUse

\* A new list is an empty queue.
LEMMA RefinementInit == Init => Fifo!Init
<1> SUFFICES ASSUME Init PROVE Fifo!Init
  OBVIOUS
<1>1. QueuedTasks = <<>>
  BY EmptySeq DEF Init, QueuedTasks
<1>2. HeldTasks = [c \in Consumers |-> NULL]
  BY DEF Init, HeldTasks, Taken, Threads
<1> QED
  BY <1>1, <1>2 DEF Fifo!Init

\* Every step of put and get is a step of the FIFO or changes nothing a caller sees:
\* PutFirst and PutAppend are Put, GetUnlink is Get, FreeTask is Free.
LEMMA RefinementStep ==
  ASSUME IInv, [Next]_vars
  PROVE  [Fifo!Next]_(Fifo!vars)
<1> USE ThreadsAssumption DEF Threads, Goto, fields, sync
<1>t. /\ pc \in [Threads -> {"idle"} \cup PutSteps \cup GetSteps]
      /\ list \in [Threads -> Nodes \cup {NULL}]
      /\ item \in [Threads -> Tasks \cup {NULL}]
      /\ pData \in [Nodes -> Tasks \cup {NULL}]
      /\ live \subseteq Nodes
      /\ \A c \in Consumers : pc[c] \in Taken => list[c] \in live
  BY DEF IInv, TypeOK, PrivateOK, Private
<1>s. ASSUME QueuedTasks' = QueuedTasks, HeldTasks' = HeldTasks
      PROVE  [Fifo!Next]_(Fifo!vars)
  BY <1>s DEF Fifo!vars
<1>1. ASSUME NEW p \in Producers, NEW t \in Tasks, NEW n \in Nodes, PutNew(p, t, n)
      PROVE  [Fifo!Next]_(Fifo!vars)
  <2>1. QueuedTasks' = QueuedTasks
    BY <1>1, <1>t, QueuedUnchanged DEF PutNew
  <2>2. HeldTasks' = HeldTasks
    BY <1>1, <1>t DEF PutNew, HeldTasks, Taken
  <2> QED
    BY <1>s, <2>1, <2>2
<1>2. ASSUME NEW p \in Producers, PutStep(p)
      PROVE  [Fifo!Next]_(Fifo!vars)
  <2>1. HeldTasks' = HeldTasks
    BY <1>2, <1>t DEF PutStep, PutLock, PutCount, PutFirst, PutAppend, PutSignal,
                      PutUnlock, HeldTasks, Taken
  <2>2. CASE PutLock(p) \/ PutCount(p) \/ PutSignal(p) \/ PutUnlock(p)
    <3>1. chain' = chain /\ pData' = pData
      BY <2>2 DEF PutLock, PutCount, PutSignal, PutUnlock
    <3> QED
      BY <1>s, <2>1, <3>1, QueuedUnchanged
  <2>3. CASE PutFirst(p) \/ PutAppend(p)
    <3>1. pc[p] \in {"put_first", "put_append"} /\ chain' = Append(chain, list[p])
          /\ pData' = pData
      BY <2>3 DEF PutFirst, PutAppend
    <3>2. item[p] \in Tasks /\ ~Fifo!InUse(item[p]) /\ list[p] \in Nodes
      BY <3>1, LinkedTaskIsNew
    <3>3. QueuedTasks' = Append(QueuedTasks, item[p])
      BY <3>1, LinkedTaskIsNew, QueuedAppend
    <3>4. Fifo!Put(item[p])
      BY <2>1, <3>2, <3>3 DEF Fifo!Put
    <3> QED
      BY <3>2, <3>4 DEF Fifo!Next
  <2> QED
    BY <1>2, <2>2, <2>3 DEF PutStep
<1>3. ASSUME NEW c \in Consumers, GetStep(c) \/ SpuriousWakeup(c)
      PROVE  [Fifo!Next]_(Fifo!vars)
  <2>1. CASE GetUnlink(c)
    <3>1. chain # <<>> /\ chain' = Tail(chain) /\ pData' = pData /\ item[c] = NULL
      BY <2>1 DEF GetUnlink, IInv, TestOK, LocalsOK
    <3>2. head = chain[1]
      BY <3>1 DEF IInv, ChainOK
    <3>3. HeldTasks[c] = NULL
      BY <2>1, <3>1 DEF GetUnlink, HeldTasks, Taken
    <3>4. HeldTasks' = [HeldTasks EXCEPT ![c] = pData[head]]
      BY <2>1, <1>t DEF GetUnlink, HeldTasks, Taken
    <3>5. Fifo!Get(c)
      BY <3>1, <3>2, <3>3, <3>4, QueuedTail DEF Fifo!Get
    <3> QED
      BY <3>5 DEF Fifo!Next
  <2>2. CASE GetData(c)
    <3>1. HeldTasks' = HeldTasks
      BY <2>2, <1>t DEF GetData, HeldTasks, Taken
    <3> QED
      BY <2>2, <1>s, <3>1, QueuedUnchanged DEF GetData
  <2>3. CASE FreeTask(c)
    <3>1. HeldTasks[c] # NULL /\ HeldTasks' = [HeldTasks EXCEPT ![c] = NULL]
      BY <2>3, <1>t DEF FreeTask, HeldTasks, Taken
    <3>2. Fifo!Free(c)
      BY <2>3, <3>1, QueuedUnchanged DEF FreeTask, Fifo!Free
    <3> QED
      BY <3>2 DEF Fifo!Next
  <2>4. CASE GetCall(c) \/ GetLock(c) \/ GetSleep(c) \/ GetProceed(c) \/ GetRelock(c)
              \/ GetDrop(c) \/ GetUnlock(c) \/ SpuriousWakeup(c)
    <3>1. chain' = chain /\ pData' = pData
      BY <2>4 DEF GetCall, GetLock, GetSleep, GetProceed, GetRelock, GetDrop, GetUnlock,
                  SpuriousWakeup
    <3>2. HeldTasks' = HeldTasks
      BY <2>4, <1>t DEF GetCall, GetLock, GetSleep, GetProceed, GetRelock, GetDrop,
                        GetUnlock, SpuriousWakeup, HeldTasks, Taken
    <3> QED
      BY <1>s, <3>1, <3>2, QueuedUnchanged
  <2> QED
    BY <1>3, <2>1, <2>2, <2>3, <2>4 DEF GetStep
<1>4. CASE UNCHANGED vars
  BY <1>4, <1>s DEF vars, QueuedTasks, HeldTasks
<1> QED
  BY <1>1, <1>2, <1>3, <1>4 DEF Next

\* libtaskList implements TaskFifo: tasks leave in the order they were put, each to one
\* worker, none lost or invented.
THEOREM Implements == Spec => Refinement
<1> QED
  BY RefinementInit, Invariance, RefinementStep, PTL DEF Spec, Refinement, Fifo!Spec

===============================================================================
