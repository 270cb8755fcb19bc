# A TLA+ model of robot-switch

robot-switch lets clients on the network send commands to a Yanshee robot. This
directory holds TLA+ modules that model its servers, the TLC configurations that check
them on small instances, and proofs checked by TLAPS. Source paths below are relative to
the repository root (`src/` here); `fifo/` abbreviates `robot-switch-fifo/`. The
copies of liblog, libtulingApi and libjson in `robot-switch/` are identical to those in `fifo/`.

## 1. Inventory of the system

There are two families of servers. Those in `fifo/` ("使用队列的服务程序") put an epoll
thread, a task list and worker threads in one process. Those in `robot-switch/` and
`fifo/server/` start a thread per connection. The robot runs a small client of its own.

```
 clients --TCP--> epoll thread --task_list_put--> task list --task_list_get--> workers
                  (epoll_socket.c)               (libtaskList)              (task_work.c)
                                                                                 |
      echo:    send back to the client's socket  <--------------------------------+
      tuling:  CallTulingApi (HTTP), then send   <--------------------------------+
      yanshee: forward to the robot's connection, relay its "start"/"done" <------+
                                                     robot program (yanshee-client-c/test.c)
```

| component | source | state it keeps | operations | what makes it correct |
|---|---|---|---|---|
| task list | `fifo/libtaskList/libtaskList.c` | `head`, `tail`, `Num`, mutex, condition variable, heap nodes | `task_list_new`, `_put`, `_get`, `_get_num` | a FIFO; each task to one worker; no lost wakeup; no freed node touched; every task taken |
| epoll thread | `fifo/{echo,tuling,yanshee}-server/epoll_socket.c` | listening socket, epoll set, `gpSocketArray`, `acceptCount`, batch of events | accept, refuse, read, close | table, epoll set, count and descriptors agree; no stale event handled; everything read is handed on; clients answered, hangups noticed |
| echo workers | `fifo/echo-server/task_work.c` | the task in hand | take, send back, free | each request echoed once, to its sender |
| yanshee worker | `fifo/yanshee-server/task_work.c` | `connFd`, `last_buffer`, `buf`, task | accept the robot, de-duplicate, refuse, forward, relay tokens | one command at the robot at a time, tried in order, clients told what the robot sent and in its order, no task blocks the rest |
| robot program | `yanshee-client-c/test.c`, `yanshee-client.py` | its connection | receive, "start", call the action, "done" | the partner of the above |
| tuling servers | `fifo/tuling-server/task_work.c`, `robot-switch/tuling-server` | task or client, and libtulingApi's statics | call the API, send; the thread server also releases the API | each answer belongs to its own question; every question answered |
| tuling API | `fifo/libtulingApi/libtulingApi.c`, `md5.c` | static `root`, `item`, `item2` | Init, Call, Release; the digest | the request tree is whole when printed and alive when used; the user id is an MD5 digest |
| JSON library | `fifo/libtulingApi/libjson.c` (a copy of cJSON) | nodes in linked child lists, malloc'd strings, the print buffer | create, add, detach, insert, replace, duplicate, compare, print, parse, minify | chains sound, nothing leaked or used after free, printing and parsing inverse, the buffer never left |
| logging | `fifo/liblog/liblog.c` | `thread_once`, flag, mutex, driver, `_log_fd`, the file | init, print, split, deinit, settings | one writer at a time, no line lost in a split, lines go where they were asked to and nowhere else, no call waits in vain |
| thread servers | `robot-switch/{echo,tuling}-server`, `fifo/server` | `clientFD`, one thread per client | accept loop, `DoWork` | each client has a thread of its own and gets its own bytes back |
| start-up | `main`, `init_daemon`, `epoll_Socket_Start`, `Create_Socket`; the yanshee worker's port | descriptors 0, 1, 2, ... | open the log, daemonise, start workers, listen | nothing uses a closed descriptor; a failed start keeps as little as it can |

Interactions. The epoll thread calls the callback `in_task_woker_callback`, which is
`task_list_put`; workers block in `task_list_get`. A task carries the *number* of the
client's socket, which workers use after the epoll thread may have closed it: the two
threads share the process's descriptor table. The yanshee worker is also a TCP server for
the robot.

What is hard: interleavings inside `put`/`get` and condition-variable wakeups; batches of
epoll events that outlive the descriptors they name; edge-triggered notification with one
accept and one recv per event; descriptor reuse between closing a client and answering it;
a robot that leaves between a check and its use, in the middle of a command, or after it,
or whose action fails; TCP delivering two tokens in one recv; a call failing after an earlier
one succeeded;
unlocked statics (the request tree, the log's flag and type) under several threads; one
descriptor table shared by sockets, the log's file and syslog's hidden socket; running out of
memory in the middle of building a tree.
PROJECT.json lists each hazard at its line with the properties aimed at it.

## 2. Modules

| module | models | role |
|---|---|---|
| `TaskFifo` | what the task list promises: `Put`, `Get`, `Free` on a sequence | abstract specification |
| `TaskList` | `libtaskList.c` statement by statement, its callers, mutex, condition variable, heap | refines `TaskFifo` |
| `EpollServer` | `epoll_socket.c` with the kernel's side of sockets and epoll | component |
| `EchoService` | what the echo server promises its clients: portions taken, answered, refused, dropped | abstract specification |
| `EchoServer` | extends `EpollServer` with the workers of `task_work.c` | composition, refines `EchoService` |
| `RobotService` | what the yanshee server and the robot promise: one command after the other, and what its client hears | abstract specification |
| `YansheeServer` | the yanshee worker and the robot's program | component with its environment, refines `RobotService` |
| `ThreadServer` | the accept loop and `DoWork` of the servers without a task list | component with its clients |
| `Md5` | `md5.c` | operators used by `TulingApi` |
| `TulingApi` | `libtulingApi.c` and the two servers that call it | component |
| `JsonStrings`, `JsonHeap`, `JsonText` | bytes, trees and texts of `libjson.c` | operators |
| `JsonApi` | a C caller of libjson, and texts from the network | state machine over the operators |
| `LibLog` | `liblog.c` | component |
| `Programs` | `main`, `init_daemon` and the socket start-up of all servers, the yanshee worker's included, on `LibLog` | composition |
| `MC*` | instances for TLC | |
| `TaskListProofs`, `EpollProofs`, `EchoProofs`, `YansheeProofs`, `ThreadProofs`, `TulingProofs`, `ProgramsProofs` | the inductive invariants and theorems of `TaskList`, `EpollServer`, `EchoServer`, `YansheeServer`, `ThreadServer`, `TulingApi`, and `LibLog` with `Programs` | TLAPS |
| `SequenceFacts` | what `Append`, `Head`, `Tail` and concatenation do to lengths and elements | lemmas for all of these |

The composition uses the task list as a sequence `queue` (append, take the head). That is
what `TaskList` is proved to implement, so it need not be interleaved statement by
statement again.

### TaskList

One action per statement of `task_list_put` and `task_list_get` that reads or writes shared
memory. `pc[t]` is where thread `t` stands, `list[t]` its local node, `item[t]` the
argument or result; `owner` is the mutex, `waiting` the condition variable's sleepers;
`live` is the set of malloc'd nodes. `PutNew` is `malloc` and the two assignments (94-96);
`PutCount`, `PutFirst`/`PutAppend`, `PutSignal`, `PutUnlock` follow lines 100-110;
`GetLock` to `GetData` follow lines 68-82. `GetSleep` releases the mutex and sleeps,
`PutSignal` wakes some sleeper if there is one, `SpuriousWakeup` wakes one without a
signal, `GetRelock` takes the mutex back and re-tests. A node freed by `GetData` may be
returned by the next `PutNew`. The order of lines 80-81 after the unlock is kept. The tasks
themselves are also blocks of memory: a producer puts only a task that no node and no
worker holds. `malloc` is assumed not to return NULL; `task_list_FREE` is never called and
not modelled.

### EpollServer

Actions of the thread: `EpollWait` (42-49), then for each event of the batch one of
`AcceptFails`, `AcceptRefuses`, `Accept`, `AcceptAddFails` (54-98), `CloseOnError`
(100-119), `ReadData`, `ReadEof`, `ReadNothing` (122-127 with `read_buffer`). `AddSocket`
and `CloseSocket` are `in_add_socket` and `in_close_socket` with the real search for a slot
and the growth by `MIN_SOCKET_Array_NUM`. A handler is one step because only this thread
touches the table and its sockets are non-blocking. The batch is a set: the kernel promises
no order. Environment actions: a client connects, sends a request, closes (`"fin"`) or
breaks (`"rst"`, which includes the keepalive that `set_Socket` turns on).

The kernel is modelled as far as the code depends on it: lowest free descriptor first;
level-triggered readiness is the state of the socket; edge-triggered readiness is an edge
(`edges`) raised by each arrival and by registration, and cleared when reported. Bytes are
counted in requests; one `recv` returns at most `RecvMax` of them as one task, which
records whose bytes it holds (`from`, `first`, `last`) so that properties can be stated; the
code does not read those fields.

### EchoServer

`WorkerGet` and `WorkerSend` are the two shared-state steps of the workers' loop. `Receiver`
is the connection that a descriptor number names *when the reply is sent*. A send to a
connection that is reset or closed is lost, as is one that returns `EAGAIN`
(`SendMayFail`): the code ignores the result.

`EchoService` is the same server without descriptors, events, table, list and workers. A
*portion* is what one `recv` took from a client; portions wait in a set, and each leaves it
once: echoed to its client, refused by the client's socket, dropped because the client has
gone - or echoed to a later client, which the service allows once the portion's own client is
`gone`, because the code does it. The mapping reads `pending` off the list and the workers'
hands (`Unanswered`), `gone` and `broken` off the connections. Workers may answer in any order,
so that the order of `echoes` is promised to nobody.

### YansheeServer

`wpc` follows the worker: `accept` (102-113), `check` (119), `reaccept` (122, result
unchecked), `get` (126), `compare` (128-148), `recv` (152-169). `last` is `last_buffer`,
compared and stored as the code does, also for refused and lost commands. `dirty` says that
`buf` holds bytes that match neither token: such a buffer is not cleared, so nothing matches
until the next command. The robot's program calls `ubtStartRobotAction` with what
one `recv` returned between "start" and "done". The call may fail (`failed`), and nothing
follows from it: `test.c` does not look at its result. Each of its connections is a member of `Sessions`; a session may end at
any point, with commands or tokens in flight, except the last one. A closing robot is seen
by `getsockopt(TCP_INFO)` and by `recv` at once; a robot that vanishes without a FIN would
block the worker for ever and is left out. Commands are model values: one of them stands
for all that begin with the refused dance. The all-zero buffer that `last_buffer` starts
with is not a command.

`RobotService` knows no connection, token or buffer: a command is in the line, or it is the
current one at some `stage`. The mapping (`Stage`) finds the stage from wherever the command
or its tokens are: it is "handed" from `Forward` on, even if it was sent to a dead connection,
"started" when the robot has sent the token or the client was told, "tried" when the
robot's call has ended, in success or in failure. A token that the worker never reads was sent all the same, so a stage
does not go back when the robot leaves; the command is given up when the worker notices.

### ThreadServer

`Accept` and `Create` are the two statements of the accept loop: the first writes
`clientFD`, the second starts a thread that will read it (`Start`) some time later. `Check`,
`Recv`, `SendReply`, `End` are `DoWork`. A buffer is a sequence of cells; `Recv` overwrites
the front only, `SendReply` sends up to the first NUL, and a freed buffer may come back from
`malloc` as it was (`freed`). The connection's `"pipe"` state is the one in which a further
`send` raises SIGPIPE; `NoSignal` tells the server that passes `MSG_NOSIGNAL`
(`fifo/server`) from the one that does not. History variables (`missed`, `uncreated`,
`served`) say what happened to each client's number.

### TulingApi and Md5

`style` chooses the program: `"queue"` (two workers, one list) or `"client"` (a thread per
client, which ends with `ReleaseTulingApi`). `InitTulingApi` is one action per access to a
static; a replacement or a print is a *begin* and an *end* step, and two of them on the same
part of one tree, one of them a write, or any on a deleted tree, is a memory fault, after
which nothing is claimed. A tree is named after the thread that parsed it. A question is
its number; the request carries a text and a user id. The transfer ends in an answer, an
answer that is not understood (no text, or a second chunk written over the first), a
failure (the buffer then holds whatever was freed there), or never. The user id is computed
by `Md5`, where a 32-bit word is a set of bit positions.

### JsonStrings, JsonHeap, JsonText, JsonApi

An operation takes a heap (nodes, remaining mallocs, strings in use, a flag for a use after
free) and returns the one it leaves; `JsonApi`'s actions are the public calls as a correct
C caller makes them: no cycles, no use of a node it gave away, no change to what a
reference borrows. Any call may be given a heap in which a later `malloc` fails
(`Failures`). A text is a sequence of tokens with the bytes they take in the print buffer;
strings are bytes. What a text denotes is copied, printed and compared like the caller's own
trees (`Trees`), so that larger values than the caller can build are looked at, too.
These modules use RECURSIVE operators, as the library recurses, and serve TLC only.

### LibLog and Programs

One action per step of `log_init`, `log_init_once`, `log_print` (`Send`, `Lock`, `Split`,
`Write`, `Unlock`) and `log_deinit`; all of them act on `fdtab`, the process's descriptor
table, which `Programs` shares: sockets, clients, the log's file and glibc's syslog socket
take the lowest free number. `marks` records which special cases have happened (a line
printed before the log was open, a mutex initialised while held, a rename refused, ...), so
that properties can say what they depend on. What the system can refuse it may refuse at any
time: a directory of the log's path, the file, the new name of a split file, the file again
after the split. The library prints the error and goes on: the directories end at the first
that was refused (`Makeable`), a file that cannot be opened is number 2, one that cannot be
renamed is opened again and grows.

`Programs` follows the main programs from `log_init` over
`init_daemon` (which closes every number, syslog's socket too, without glibc knowing) to
the loop that serves; `program` is the kind of server, or `"library"`, any other user of the
log. `StartWorkers` is the line that `task_worker_start` logs, `CreateWorkers` its
`pthread_create`. The workers of the echo and Tuling servers open nothing before their first
task. That of the yanshee server (`rpc`) opens, binds and listens on the robot's port while
main goes on (`RobotSocket` to `RobotListening`), ends the whole process if that fails
(`RobotFatal`, `RobotExit`), and then accepts robots (`RobotAccept`, `RobotGone`) whether or
not main's own start succeeded.

## 3. What the runs check

| run | instance | checks | result |
|---|---|---|---|
| `task_list` | 1 producer, 3 workers, 3 tasks, 2 nodes; fair | `ListShape`, `CountTracksQueue`, `NoLostWakeup`, `Refinement`, `QueuedTaskTaken` | holds |
| `epoll_safety` | 3 clients, limit 2, 3 descriptors, edge mode, failing `EPOLL_CTL_ADD` | `TableAgrees`, `BatchFresh`, `TasksFollowStream` | holds |
| `epoll_live` | 3 clients, 1 descriptor, 2 requests each, one per recv; level mode; fair | `ClientAnsweredIfRoom`, `HangupClosed`, `RequestsHandedOn` | holds |
| `epoll_edge_accept` | 2 clients, edge mode; fair | `ClientAnswered` | violated |
| `echo` | 2 clients, 2 workers, 2 requests, one recv holds them; sends may fail; edge mode; fair | `EachRequestOnce`, `MisdeliveryNeedsClose`, `RequestAnswered`, `EchoRefinement` | holds |
| `echo_reuse` | 2 clients, 1 request each | `ReplyToSender` | violated |
| `yanshee` | 4 tasks, 3 sessions, failing actions, glued tokens, failing accept; fair | `OneCommandOnWire`, `ExecutedInOrder`, `AnswersFollowRobot`, `Refinement`, `EveryTaskSettled`, `CommandsAnswered` | holds |
| `yanshee_lost` | 2 tasks, 2 sessions | `CommandForwarded` | violated |
| `threads` | 3 clients, 2 descriptors, 2 threads, buffer of 3 cells; fair | `OwnThreadUnlessRaced`, `StrangersOnlyFromFreedBuffers`, `ServedAnswered` | holds |
| `tuling` | 2 threads, 2 questions, both programs; fair | `FaultNeedsSharing`, `QuestionIsOwn`, `AnswerIsOwn`, `QuestionAnswered` | holds |
| `json` | 3 nodes (4 in a flat array), the 1st to 7th malloc failing; texts of 6 tokens, and 33 samples whole or cut off; strings of 4 pieces; nesting limit 2 | `TreesSound`, `PrintingSound`, `CompareIsEquality`, `AllOrNothing`, `ParserAcceptsJson`, `StringsKept` | holds |
| `programs` | the five kinds of server and a user of the library, 2 threads, numbers 0 to 6, 6 lines, 2 clock values, 3 log types, 3 file names | `OneWriter`, `SplittingSound`, `StraysOnlyUnopened`, `LogReachesSink`, `NobodyStuck`, `NumbersKeptApart` | holds |

Some properties are conjunctions of named parts: `ListShape` and `OneCommandOnWire` contain
their module's `TypeOK`, `TableAgrees` contains `EpollTypeOK`;
`OwnThreadUnlessRaced` is `ClientServedUnlessRaced` and `OneThreadPerClient`; `QuestionIsOwn`
is `PostedUndisturbed` and `DigestIsMd5`; `TreesSound` is `TreesLinked` and `OwnedOnce`, `PrintingSound` is
`ReadBack` and `StaysInside`, `AllOrNothing` is `CopyIsWholeOrNothing` and
`FailedParseLeavesNothing`, `StringsKept` is `EscapesRoundTrip`, `UnescapedFits` and
`MinifyKeepsLiterals`; `SplittingSound` is `LinesKept` and `FileWithinLimit`, `LogReachesSink`
is `SinkAsAsked`, `OnlyPathMade` and `LostOnlyToDirectory`, `NumbersKeptApart` is `SyslogSparesSockets`,
`ZeroNeedsSyslogGone` and `FailedStartKeepsLittle`. Each inductive invariant of
section 4 was checked by TLC on the instance of its component's run, before it was proved.

What this shows:

* The task list is correct. One `pthread_cond_signal` per task suffices
  (`NoLostWakeup`), although workers may arrive without sleeping, wake spuriously or be
  overtaken between waking and locking. Reading the node after the unlock is safe because
  the node already belongs to the worker alone.
* The epoll thread keeps its bookkeeping consistent, and its use of event batches is safe
  although descriptors are reused (`BatchFresh`): within a batch a number is closed only by
  its own event, and each number has one event.
* In level-triggered mode nothing is forgotten. In edge-triggered mode, which echo and
  tuling compile although the comments say "LT模式", one accept and one recv per event
  leave clients waiting in the accept queue (`epoll_edge_accept`). `HangupClosed` fails in
  that mode too: a FIN that arrives with the last request is never read, and the descriptor
  stays open. As long as one recv can hold what a client sends, its requests are still
  answered, unless its socket refuses the reply (`echo`).
* Echoes are never duplicated. An echo can reach another client, but only after its own
  client's connection was closed (`MisdeliveryNeedsClose`; the counterexample of
  `echo_reuse` is the shortest such case). Apart from that the server is the plain service of
  `EchoService` (`EchoRefinement`).
* The yanshee worker never lets two commands reach the robot's greedy `recv` together, and
  never repeats or reorders commands over reconnections. A client hears of a start and an end
  in the order in which the robot sent them, and of an end only after the robot's call for
  its own command has ended (`AnswersFollowRobot`). It does *not* hear whether the action was
  performed: the robot's program ignores the result of `ubtStartRobotAction` and sends "done"
  after a failure, too, and the server then reports the action as completed
  (`failed` holds such commands in the model; README.md:8 of the repository says that the robot
  performs what it receives). Together worker and robot are the serial service of `RobotService`
  (`Refinement`), in which an attempt may fail unseen and a repetition is judged by the last
  command that was not one, be it refused or lost. The worker loses the command that follows
  an unnoticed disconnection, and tells no one (`yanshee_lost`). It stops for good in exactly
  two ways (`Wedged`): when "start" and "done" arrive in one recv on a connection that stays,
  and when the unchecked `accept` returned -1; otherwise every task is settled.
* In the thread servers a client is left without a thread only if the next `accept`
  overwrote its number before its thread had read it, or no thread could be started; two
  threads serve one client only if another was missed in this way. Foreign bytes reach a
  client only out of a buffer that an ended thread had freed. A served client that stays is
  answered, unless SIGPIPE ends the process.
* libtulingApi's unlocked tree does harm only when two calls overlap, or when a thread
  releases it while another lives (or without having parsed one). A question carries its own
  text and user unless another call or an `InitTulingApi` overlapped it, or two
  initialisations did. A client gets another's answer only if its own transfer failed. One
  stalled transfer leaves the queue server's other worker answering; two stop it.
* libjson's trees stay sound under every sequence of correct calls, also when memory runs
  out in the middle, and nothing is leaked but what the API cannot report: the item or
  reference whose name could not be copied. A copy or a parse that runs out of memory after
  some of its nodes are linked frees all of them. What prints parses back to the same value.
  `cJSON_PrintPreallocated` needs one byte more than text and NUL where the header advises
  five. `cJSON_Compare` is equality, of objects whatever the order of their members. The
  parser accepts exactly the JSON that is not nested more deeply than its limit, over the
  checked alphabet, which holds no numbers (they are among the samples) and no malformed `\u`
  escape: there it is more lenient (see `UnescapedFits`: an escape with bad digits is U+0000).
  `cJSON_Minify` reads past the end of a text that ends in an open literal or comment, and only
  then, where `/*/` is to it a whole comment.
* liblog keeps one writer inside and every line in some file, except: the mutex may be
  initialised while a line is inside (the flag is set first), or destroyed under lines by
  `log_deinit`; two splits in one millisecond, and rotation, drop lines. A file stays within
  one line of its limit only as long as it can be renamed and opened again: after a refused
  rename the same file is opened to append, and grows on. A line printed
  before `log_init` has come to an end redirects the log. After `log_deinit` lines go to
  whatever has the old number by then. Opening the file makes directories of its path and
  nothing else. The log goes to stderr if the system refuses a directory or the file, and
  also, with nothing refused, for a file in the root directory, which is made a directory
  itself. If a split cannot open its file again the log falls to number 2, the next
  split closes that, and what is opened then may get the log's lines. No call waits for what
  will not come (`NobodyStuck`), although the mutex may be initialised or destroyed under it.
* `init_daemon` closes syslog's socket unseen, which is harmless if the server was started
  with 0, 1 and 2 open: the first log line restores it before anything else takes its
  number, in the yanshee server also before its worker exists. If syslogd stops, its number,
  0 in the queue servers, may go to a client or to the robot, and `CheckSocketConnected`
  takes 0 for no connection. The two servers that sleep for ever after a failed start hold
  nothing but the socket on which `listen` failed, and the yanshee server its worker's socket
  and the robots it accepts: it looks alive to the robot and to nobody else.

### Bounds, and why they are enough

* `task_list`: fewer nodes than tasks force every block to be reused while other threads are
  inside `put` or `get`; three workers are the least for one that sleeps, one that was woken
  and one that overtakes it. The proofs cover all sizes.
* `epoll_*`: one client more than the limit, and as many descriptors as clients, so that
  refusal, growth of the array by one chunk (`SlotChunk = 1`) and reuse of numbers all
  happen; in `epoll_live` a single descriptor makes `accept` fail below the limit.
  Backlog 2 lets two connections wait together. `MaxSend` bounds the requests of a client.
* `echo`, `echo_reuse`: two clients and two workers are the least that can confuse an answer and
  interleave two; each client may send two requests.
* `yanshee`, `yanshee_lost`: a repeated command, a different one and the refused one (`x`, `y`, `z`);
  three sessions let the robot leave twice, in any of the worker's states; four tasks let a
  repetition follow a lost command and be followed by another one.
* `threads`: one client more than descriptors and than threads, so that `accept` and thread
  creation fail and buffers are reused; a buffer longer than what one client sends and a
  client that leaves more than its successor sends.
* `tuling`: two threads are the least that share; two questions let one meet the other or
  follow it. `DigestIsMd5` compares with known digests, and the blocks fed to the
  transformation for all lengths up to 130 bytes (two blocks and the padding's boundaries;
  section 4 has them for every length).
* `json`: three nodes make a container with two children or two levels, the spare fourth a
  position between others. Six tokens make `[[[]]]`, one level beyond the limit of 2 (1000 in
  the code), `{"a":"a"}` and `["a","a"]` with a token missing or too many. What a text denotes is
  printed, copied and compared for texts of up to three tokens (`TreeLen`) and for the samples,
  whole and cut off at each token. The samples have values of every kind, alone, as elements
  and as members: pairs that differ in the order of the members, in a name, in one value
  below, in how many there are; every tree is compared with every sample. A tree that the caller built is printed and copied
  when it is alone or refers to another; constant names are given while there is room for
  one more node. A copy of an object
  with two strings takes seven calls of `malloc`, so that each of them fails once, most of
  them when earlier nodes are already linked. The pieces of strings are the bytes and escapes
  that the code treats apart, and both ends of a comment; four of them make a literal begin
  behind a comment that its own opening star has closed.
* `programs`: six lines take a server with a failing start, or with its worker, to where it
  serves or sleeps, and one line further; seven numbers are enough for every descriptor at
  once, and `accept` and `socket` fail when they are not. The servers log to syslog, so that
  split sizes and clock play no part in them. In the user of the library, two threads let a
  second line meet a first one; split sizes 0 and 1 and three lines make several splits; two
  values of the clock let splits fall into one millisecond or not.

Bounds appear as `MaxSend`, `MaxTasks`, `ListenQueue`, `MayLeave`, `MaxQuestions`, `MaxLive`,
`Size`, `Failures`, `Samples`, `TextLen`, `TreeLen`, `WordLen`, `MaxLines`, `MaxUserLines`, `MaxClock`,
the finite sets, and nowhere else.
Runs that state `CHECK_DEADLOCK FALSE` do so because clients owe nothing: when they have
all left, the server waits, and the model stops.

### Fairness

* `TaskList`: weak fairness of each thread's next step. The scheduler runs every runnable
  thread; a mutex is not assumed fair beyond this, and in the checked instance a task still
  cannot be passed over, because each `get` takes the oldest one.
* `EpollServer`: weak fairness of the thread as a whole. Clients have none.
* `EchoServer`: the same, and of each worker.
* `YansheeServer`: weak fairness of the worker and of the robot's program (which connects
  again after it has left and tries what it received). Nothing obliges it to leave.
* `ThreadServer`: weak fairness of the main thread and of each thread; `recv` has a timeout
  of two seconds, so it returns. Clients owe nothing.
* `TulingApi`: weak fairness of each thread, of every step but `Stall`, after which the
  thread is never scheduled: no timeout is set for the transfer.

## 4. What is proved

The theorems hold for every value of the constants that the modules' named assumptions
allow. `Spec` below is the module's specification (`EpollSpec`, `EchoSpec` for those two).

| module | theorem | statement |
|---|---|---|
| `TaskListProofs` | `Invariance` | `Spec => []IInv` |
| | `ListShapeHolds`, `CountHolds` | `ListShape` (with `TypeOK`), `CountTracksQueue` |
| | `NoLostWakeupHolds` | `NoLostWakeup` |
| | `Implements` | `Spec => Refinement` (`TaskList` implements `TaskFifo`) |
| `EpollProofs` | `EpollInvariance` | `EpollSpec => []EpollInv` |
| | `TablesAgree`, `EventsFresh`, `StreamsFollowed` | `TableAgrees`, `BatchFresh`, `TasksFollowStream` |
| | `ClosedForGood` | no step opens a closed connection again (an action property) |
| `EchoProofs` | `EchoInvariance` | `EchoSpec => []EchoInv` |
| | `EachOnce`, `NeedsClose` | `EachRequestOnce`, `MisdeliveryNeedsClose` |
| | `EchoImplements` | `EchoSpec => EchoRefinement` (`EchoServer` implements `EchoService`) |
| `YansheeProofs` | `Invariance` | `Spec => []IInv` |
| | `OneCommand`, `InOrder`, `FollowsRobot` | `OneCommandOnWire` (with `TypeOK`), `ExecutedInOrder`, `AnswersFollowRobot` |
| | `Implements` | `Spec => Refinement` (`YansheeServer` implements `RobotService`) |
| `ThreadProofs` | `ThreadInvariance` | `Spec => []ThreadInv` |
| | `OwnThread`, `StrangersGone` | `OwnThreadUnlessRaced`, `StrangersOnlyFromFreedBuffers` |
| `TulingProofs` | `TulingInvariance` | `Spec => []TulingInv` |
| | `MemorySafe`, `OwnQuestion`, `OwnAnswer` | `FaultNeedsSharing`, `PostedUndisturbed`, `AnswerIsOwn` |
| | `MessageDigestedWhole` | the blocks `MD5Final` leaves are the padded message, for a message of any length in one piece or two |
| `ProgramsProofs` | `LogInvariance`, `ProgramsInvariance` | `Spec => []LogInv`, `Spec => []ProgramsInv` |
| | `OneInside`, `Splitting` | `OneWriter`, `SplittingSound` |
| | `Sink`, `LogSink` | `SinkAsAsked`, `LogReachesSink` |
| | `NoStrays`, `NumbersApart` | `StraysOnlyUnopened`, `NumbersKeptApart` |
| | `NoneStuck` | `NobodyStuck` |

The safety properties of the passing runs are all proved in this way, except those of `json`
and one conjunct (see the end of this section).

**TaskList.** `ListShape` is not inductive: that `put` appends to a live tail needs to know
that nobody else is inside the critical section (`LockOK`), that the test of `Num` made a step
earlier still holds (`TestOK`), that the count and the chain agree (`CountTracksQueue`), that
the new node is complete and linked nowhere (`LocalsOK`, `PrivateOK`), and that no task is in
two nodes (`TasksOK`, for the refinement). `IInv` is their conjunction; the proof of its
preservation has one lemma per action. `NoLostWakeup` compares `Num` with the number of awake
workers on their way to a task, so its proof is about cardinalities: each action changes the
set of takers by at most one element, and the lemmas state by how much. It rests on `IInv`
and is inductive relative to it. `Implements` maps the chain to the abstract queue and the
nodes in workers' hands to the abstract `held`; `PutFirst`/`PutAppend` is the abstract `Put`,
`GetUnlink` the `Get`, `FreeTask` the `Free`, and every other action leaves the mapped
variables alone.

**EpollServer and EchoServer.** `EpollInv` relates the five records of a connection: its slot,
its registration, its place in the count, its descriptor, its turn in the backlog
(`SlotsOK`, `OpenOK`, `BacklogOK`). One descriptor at most may be open without a slot, and
only when the thread has ended after a failed `EPOLL_CTL_ADD`. It says nothing of the task
list, so that it also holds while workers take tasks out: `EchoInv` adds to it that all
requests in the list, in workers' hands and in replies are pairwise different
(`QueueApart`, `HeldApart`, `RepliesApart`), have been read (`AllRead`), and that a task's
number names its client unless that client's connection is closed (`Addressed`). The last is
kept over reuse because a closed connection stays closed. `TasksFollowStream` speaks of the
epoll thread alone, with nobody taking tasks, and is inductive relative to `EpollInv`.
`EchoImplements` maps `ReadData` to `Take`, every step that closes a client's connection to `Leave`
(`CloseOnError`, `ReadEof`; a client that is refused leaves, too), and `WorkerSend` to `Echo`, `Refuse` or `Drop`. That a worker removes its own portion from the set
and no other's needs `QueueApart` and `HeldApart`, and that portions are not empty (`AllRead`):
two portions of one client with no request in them could be equal. That `Echo` goes to the
portion's client or that client is gone is `Addressed`. Taking a task from the list is no step
of the service.

**YansheeServer.** `IInv` says where the current command can be (on its way, being tried,
tried, lost) together with where its two tokens are (`Way`), that no other connection
carries anything (`QuietElsewhere`, `OnlyLiveLinksCarry`), and that what was tried is
numbered below what is pending (`ExecutedOK`). The properties follow from it without another
induction. `Implements` needs the same invariant: that `RobotDone` tries the *current*
command, once, with or without success, is `Way` with `ExecutedOK`; that a step of the robot on any other connection is
a stutter, as it carries nothing, is `QuietElsewhere`; and that "done" is told only after
"start" is where `Way` allows the tokens to be. The robot's leaving is a stutter of the service -
the worker's notice of it (`RecvClosed`) is `Abandon`.

**ThreadServer.** The key is `OneReader`: as long as no client was missed, the number in
`clientFD` is for one thread at most and has not been served. `BuffersOK` follows every byte
to a client that is the thread's own or has gone.

**TulingApi.** `TulingInv` describes the statics while an initialisation is under way and after
it (`StaticsOK`), what is alive (`MemoryOK`), and what an undisturbed call has put into the
tree (`CallAlone`, `CallOK`). Each part is conditional on the history that would break it
(`releasedUnder`, `initRaced`, `overlapped`), which is how the properties are.

**Md5.** `MessageDigestedWhole` carries over to every length what TLC evaluates up to 130
bytes. `Fed` says what a context holds of the bytes given so far: all whole blocks have gone to
the transformation, in order, and the rest is at the front of the buffer. `MD5Update` keeps it,
whether or not the input fills the buffer (`UpdateFeeds`), and `MD5Final` ends with nothing in
the buffer, because the padding and the eight bytes of the length come to whole blocks
(`PaddingFact`). The model's `count` has no width: the theorem speaks of the C code for less
than 2^29 bytes, from where on `count[1]` is not 0. What the transformation makes of the
blocks is not part of the theorem.

**LibLog and Programs.** `LogInv` is enough for the mutex and the splits, and every program's
steps keep it because each is a call of the library or leaves it alone (lemma `Calls`). Its
bound on the file holds until something spoils it (`Spoiled`): the mutex initialised while
held or destroyed, a refused rename, a refused opening. `NoneStuck` needs `HolderOK`: a held
mutex is not destroyed and has somebody inside, and an initialisation that runs has a thread
in it. Where the log goes needs `SinkOK`: until a line comes too early, only main initialises, and the
driver is what was asked for. For a server, `ServerLog` adds that nothing is printed
before log_init has ended, and `FdInv` says which numbers may be in use at each place of main
and of the yanshee server's worker: that one is free when syslog's socket is opened
anew (of the calls that open another, a model's step leaves one free: `Room`), that syslog's
number is its socket's, none, or `Stale` - closed unseen by `init_daemon`, above 2, and with
too little opened since for anybody to have it - and that, while syslogd stays, 0 is not a
client's or the robot's: in a queue server it is what it was at the start or syslog's from the
first line on, which is logged before a worker exists. That a robot's number is open only once
the worker has opened it is all that `FailedStartKeepsLittle` needs of the worker.
For any other user of the log, `LibOK` says that the number kept for the file is the file's
until `log_deinit` or a refused reopening (`Spoilt`), and that nothing goes to syslog
afterwards. `LogSink` needs `DirsOK`: that
the name which log_init_once will read is one that was asked for, and that it reads it once,
with no directory made before; what a refusal leaves out of the directories
(`Makeable`) only makes them fewer. Its lemmas are about the operators: `LogName` ends in ".log"
(`NameShape`), so that it does not end in a slash, and then `CheckDir` makes the parent and
never the name itself, unless the name's one slash is its first character (`OnlyParents`).

Assumptions on constants that the proofs made explicit: finite sets of threads that
take tasks or share the library or the API, of sessions and of descriptors; `NULL` is none of
the values it stands beside (`CmdsAssumption`, `TaskAssumption`, `TulingAssumption`,
`LogAssumption`); file names are sequences of characters (`LogAssumption`); a process may have
at least six descriptors (`ProgramsAssumption`).

Only model-checked:

* All liveness: the prover does not handle fairness and ENABLED.
* Everything about libjson: the modules recurse over data (RECURSIVE operators), which the
  prover cannot follow.
* What `MD5Transform` computes, a fold over the 64 steps, hence `DigestIsMd5` (a conjunct of
  `QuestionIsOwn`): TLC evaluates known digests. The other proofs only use that a user id is a
  function of the descriptor's number.

## 5. What is not modelled

* Failure of `malloc` outside libjson; heap leaks (the `TaskInfo` of a read that returns 0
  or -1, the result strings of `CallTulingApi`).
* C strings: buffers that `recv` fills without a terminator, `snprintf` sizes.
* TCP splitting a token or a request between two recvs; requests are atomic units.
* The robot vanishing without closing; the yanshee worker and its clients sharing reused
  descriptor numbers (the same defect as in `EchoServer`). What an action is, and why one
  fails: `ubtStartRobotAction` returns success or failure, with no effect on the next call.
* The yanshee worker's failed `bind`: the code tests the result with `> 0` (task_work.c:78) and
  never notices. The model has the listening socket, not its port.
* `task_list_FREE`, which nobody calls. The Python robot program.
* libjson: the byte-order mark, the locale's decimal point, the hooks, fractions, numbers
  longer than the parser's buffer; its error pointer is the parser's end position.
* libtulingApi: a failed `curl_easy_init`, the HTTP header lines in the buffer, the content of
  the request beyond its text and user.
* liblog: levels, formatting, time stamps, the paths of other builds (no `USE_SYSLOG`, stdio);
  a `writev` that fails (the line is lost); the size `stat` reports for a directory, which
  counts as 0. `log_init` stores type and name in two unlocked assignments (1008-1009), and
  log_init_once reads them in two (938-939): each pair is one step here, so that a type is not
  seen with another call's name. On reopening, `check_dir` finds the directories it made.
* In `Programs`, `Other` stands for all threads but main and prints one line at a time; a robot's
  or client's thread is not told apart from the network thread there.
* umask, chdir, process groups and signals other than SIGPIPE.
* The robot's vendor API (a third-party header) and the makefiles.

## 6. Plan

Done: all modules of section 2, and the proofs of section 4.

Not done, and worth doing:

1. An abstract service for the thread-per-connection servers and for the Tuling servers, in
   the manner of `EchoService`; their promises are stated as invariants only.
2. The Yanshee worker behind `EpollServer` instead of behind a sequence of commands, so that
   replies to reused descriptor numbers are seen there, too.
