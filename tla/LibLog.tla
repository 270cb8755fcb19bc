-------------------------------- MODULE LibLog --------------------------------
(***************************************************************************)
(* liblog/liblog.c as it is built on Linux (USE_SYSLOG, LOG_IO_OPS): the   *)
(* one-time initialisation, printing a line under the library's mutex, the *)
(* splitting of the log file, and log_deinit.  External: pthread_once, the *)
(* mutex, the descriptor table, and glibc's syslog, which keeps a socket   *)
(* of its own and opens it anew when a send fails.                         *)
(*                                                                         *)
(* A line is a number and has size one; lines that the level suppresses    *)
(* are no calls.  A path is a sequence of characters, a file a set of      *)
(* lines.                                                                  *)
(***************************************************************************)
EXTENDS Integers, Sequences, FiniteSets, FiniteSetsExt

CONSTANTS
  Users,           \* the threads that use the library
  Nums,            \* descriptor numbers, from 0
  Idents,          \* file names given to log_init
  SplitSizes,      \* sizes given to log_set_split_size
  MaxLines,        \* lines printed (bound)
  MaxClock,        \* milliseconds that splits see (bound)
  NULL

ASSUME LogAssumption ==
  /\ IsFiniteSet(Users) /\ {0, 1, 2} \subseteq Nums /\ Nums \subseteq Nat /\ IsFiniteSet(Nums)
  /\ SplitSizes \subseteq Nat /\ SplitSizes # {} /\ IsFiniteSet(SplitSizes) /\ MaxLines \in Nat /\ MaxClock \in Nat \ {0}
  /\ NULL \notin Nums /\ NULL \notin {"stderr", "file", "rsyslog"}
  /\ Idents \subseteq Seq(STRING)   \* a name is a sequence of characters
  /\ NULL \notin {"std", "log", "syslog", "app", "client", "listen", "epoll", "robot"}

VARIABLES
  once,            \* thread_once: "new", "running" or "done"
  logType, ident,  \* _log_type, 0 for the environment's choice, and _log_ident
  isInit, driver, logSyslog, logFd, splitSize, rotate,   \* the statics
  held, dead,      \* _log_mutex: locked; destroyed
  lpc, then, line, \* each thread: where it is, where log_init returns to, its line
  fdtab,           \* what each number is: "std", "log", "syslog", "app"...; or NULL
  sysFd, syslogd,  \* glibc's socket, or NULL; whether the daemon listens
  clock, dirs, current, splits,   \* the last split's time, directories, the log and its split files
  lines,           \* lines printed so far
  limit,           \* history: the largest split size so far,
  written,         \*   the lines written to the log file,
  marks            \*   which special cases have happened, as <<what, about>>

statics == <<isInit, driver, logSyslog, logFd>>
settings == <<splitSize, rotate, limit>>
start == <<once, logType, ident>>
mutex == <<held, dead>>
calls == <<lpc, then, line, lines>>
syslogVars == <<sysFd, syslogd>>
files == <<clock, dirs, current, splits, written>>
logVars == <<start, statics, settings, mutex, calls, fdtab, syslogVars, files, marks>>

FILESIZE_LEN == Max(SplitSizes)

Mark(S) == marks' = marks \cup S
Marked(what) == \E e \in marks : e[1] = what

LogInit0 ==
  /\ once = "new" /\ logType = "env" /\ ident = <<>>
  /\ isInit = FALSE /\ driver = NULL /\ logSyslog = FALSE /\ logFd = 0
  /\ splitSize = FILESIZE_LEN /\ rotate = FALSE /\ limit = FILESIZE_LEN
  /\ held = FALSE /\ dead = FALSE
  /\ lpc = [t \in Users |-> "idle"] /\ then = [t \in Users |-> "idle"]
  /\ line = [t \in Users |-> NULL] /\ lines = 0
  /\ sysFd = NULL /\ syslogd = TRUE
  /\ clock = 1 /\ dirs = {<<>>} /\ current = {} /\ splits = [ms \in 1..MaxClock |-> {}]
  /\ written = {} /\ marks = {}

Goto(t, l) == lpc' = [lpc EXCEPT ![t] = l]

Free == {n \in Nums : fdtab[n] = NULL}
Lowest == Min(Free)

-------------------------------------------------------------------------------
(* Names and directories *)

Slashes(p) == {i \in DOMAIN p : p[i] = "/"}
Dots(p) == {i \in DOMAIN p : p[i] = "."}
DotLog == <<".", "l", "o", "g">>

\* log_filename_parse and log_init_file: the path up to the last slash if there are two,
\* then what stands before the last dot, which may be one of a directory.
LogName(p) ==
  LET from == IF Cardinality(Slashes(p)) < 2 THEN 0 ELSE Max(Slashes(p))
      to == IF Dots(p) = {} THEN Len(p) ELSE Max(Dots(p)) - 1
  IN  SubSeq(p, 1, from) \o SubSeq(p, from + 1, to) \o DotLog

\* get_dir: up to the last slash; but the first character is not looked at.
GetDir(p) ==
  IF Slashes(p) \ {1} = {} THEN p ELSE SubSeq(p, 1, Max(Slashes(p)))

\* check_dir, mkdir_r: every part of the path that ends at a slash, and what follows the last.
CheckDir(p) ==
  LET d == GetDir(p) IN
    IF Slashes(p) = {} THEN {}
    ELSE {SubSeq(d, 1, i - 1) : i \in Slashes(d) \ {1}}
           \cup (IF d[Len(d)] = "/" THEN {} ELSE {d})

Parent(p) == IF Slashes(p) = {} THEN <<>> ELSE SubSeq(p, 1, Max(Slashes(p)) - 1)

-------------------------------------------------------------------------------
(* log_init *)

\* _log_type and _log_ident: what log_init_once will read; afterwards nothing does.
Request(type, name) ==
  IF once = "done" THEN UNCHANGED <<logType, ident>> ELSE logType' = type /\ ident' = name

LogInit(t, type, name) ==
  /\ lpc[t] = "idle"
  /\ Request(type, name)
  /\ then' = [then EXCEPT ![t] = "idle"]
  /\ Goto(t, "once")
  /\ Mark(IF type \in {"stdout", "env"} \/ once # "new" THEN {} ELSE {<<"asked", type>>})
  /\ UNCHANGED <<once, statics, settings, mutex, line, lines, fdtab, syslogVars, files>>

\* pthread_once: the first caller runs log_init_once, others wait for its end.
OnceEnter(t) ==
  /\ lpc[t] = "once"
  /\ \/ once = "new" /\ once' = "running" /\ Goto(t, "configure")
     \/ once = "done" /\ Goto(t, then[t]) /\ UNCHANGED once
  /\ UNCHANGED <<logType, ident, statics, settings, mutex, then, line, lines, fdtab,
                 syslogVars, files, marks>>

\* openlog: a new socket, closed again if there is no daemon.
OpenSyslog == IF syslogd THEN Lowest ELSE NULL

InitStderr ==
  /\ logFd' = 2 /\ driver' = "stderr"
  /\ UNCHANGED <<logSyslog, fdtab, dirs, sysFd, marks>>

\* What mkdir_r makes of the path: it ends at the first mkdir that the system refuses.
Makeable(name) == {{d \in CheckDir(name) : Len(d) <= k} : k \in 0..Len(name)}

\* log_init_file: the directories, then the file.  Whatever the reason, a file that cannot
\* be opened is stderr.
InitFile ==
  LET name == LogName(ident) IN
    \E made \in Makeable(name), opens \in BOOLEAN :
      /\ driver' = "file" /\ dirs' = dirs \cup made
      /\ IF opens /\ Parent(name) \in dirs' /\ name \notin dirs'
         THEN logFd' = Lowest /\ fdtab' = [fdtab EXCEPT ![Lowest] = "log"] /\ UNCHANGED marks
         ELSE /\ logFd' = 2 /\ UNCHANGED fdtab
              /\ Mark(IF opens /\ made = CheckDir(name) THEN {} ELSE {<<"openFailed", NULL>>})
      /\ UNCHANGED <<logSyslog, sysFd>>

InitSyslog ==
  /\ logSyslog' = TRUE /\ driver' = "rsyslog"
  /\ sysFd' = OpenSyslog
  /\ fdtab' = IF syslogd THEN [fdtab EXCEPT ![Lowest] = "syslog"] ELSE fdtab
  /\ UNCHANGED <<logFd, dirs, marks>>

\* Mutant: the type asked for only used if the environment's is not supported.
ConfigureEnvFirst(t) ==
  /\ lpc[t] = "configure"
  /\ logFd' = 2 /\ driver' = "stderr" /\ isInit' = TRUE
  /\ Goto(t, "mutex")
  /\ UNCHANGED <<start, logSyslog, settings, mutex, then, line, lines, fdtab,
                 syslogVars, files, marks>>

\* log_init_once up to the flag: the output is the environment's if no type was given,
\* "stderr" where it says nothing.  A type without a driver leaves the library without one,
\* for good.
Configure(t) ==
  /\ lpc[t] = "configure"
  /\ LET type == IF logType = "env" THEN "stderr" ELSE logType IN
       \/ type = "stderr" /\ InitStderr
       \/ type = "file" /\ InitFile
       \/ type = "rsyslog" /\ InitSyslog
       \/ type = "stdout" /\ UNCHANGED <<logFd, driver, logSyslog, fdtab, dirs, sysFd, marks>>
  /\ isInit' = (driver' # NULL)
  /\ once' = IF driver' = NULL THEN "done" ELSE once
  /\ Goto(t, IF driver' = NULL THEN then[t] ELSE "mutex")
  /\ UNCHANGED <<logType, ident, settings, mutex, then, line, lines, syslogd,
                 clock, current, splits, written>>

\* pthread_mutex_init comes after the flag: the mutex may be in use.
MutexInit(t) ==
  /\ lpc[t] = "mutex"
  /\ held' = FALSE /\ dead' = FALSE /\ once' = "done"
  /\ Mark(IF held THEN {<<"reset", NULL>>} ELSE {})
  /\ Goto(t, then[t])
  /\ UNCHANGED <<logType, ident, statics, settings, then, line, lines, fdtab, syslogVars, files>>

-------------------------------------------------------------------------------
(* log_print *)

\* The call: without initialisation, it does log_init(0, NULL) first.
LogPrint(t) ==
  /\ lpc[t] = "idle" /\ lines < MaxLines
  /\ lines' = lines + 1
  /\ line' = [line EXCEPT ![t] = lines + 1]
  /\ IF isInit
     THEN Goto(t, "send") /\ UNCHANGED <<logType, ident, then, marks>>
     ELSE /\ Request("env", <<>>)
          /\ then' = [then EXCEPT ![t] = "send"]
          /\ Goto(t, "once")
          /\ Mark({<<"early", NULL>>})
  /\ UNCHANGED <<once, statics, settings, mutex, fdtab, syslogVars, files>>

\* syslog(): a send that fails closes the number and opens a socket anew, once.
Syslog ==
  LET hit == IF sysFd = NULL THEN NULL ELSE fdtab[sysFd]
      table == IF sysFd = NULL THEN fdtab ELSE [fdtab EXCEPT ![sysFd] = NULL]
      low == Min({n \in Nums : table[n] = NULL})
  IN  IF hit = "client" \/ (hit = "syslog" /\ syslogd)
      THEN /\ Mark(IF hit = "client" THEN {<<"syslog", hit>>} ELSE {})
           /\ UNCHANGED <<fdtab, sysFd>>
      ELSE /\ fdtab' = IF syslogd THEN [table EXCEPT ![low] = "syslog"] ELSE table
           /\ sysFd' = IF syslogd THEN low ELSE NULL
           /\ Mark(IF hit = NULL \/ hit = "syslog" THEN {} ELSE {<<"syslog", hit>>})

\* syslog() first, if that is where the log goes.
Send(t) ==
  /\ lpc[t] = "send"
  /\ Goto(t, "lock")
  /\ IF logSyslog THEN Syslog ELSE UNCHANGED <<fdtab, sysFd, marks>>
  /\ UNCHANGED <<start, statics, settings, mutex, then, line, lines, syslogd, files>>

\* Mutant: the mutex taken although it is held.
LockAnyway(t) ==
  /\ lpc[t] = "lock"
  /\ held' = (held \/ ~dead)
  /\ Goto(t, "locked")
  /\ UNCHANGED <<start, statics, settings, dead, then, line, lines, fdtab, syslogVars, files, marks>>

\* pthread_mutex_lock, which returns at once for a destroyed mutex.
Lock(t) ==
  /\ lpc[t] = "lock" /\ (dead \/ ~held)
  /\ held' = (held \/ ~dead)
  /\ Goto(t, "locked")
  /\ UNCHANGED <<start, statics, settings, dead, then, line, lines, fdtab, syslogVars, files, marks>>

\* Mutant: the file begun anew without being renamed.
SplitTruncates(t) ==
  /\ lpc[t] = "locked"
  /\ Goto(t, IF logSyslog THEN "unlock" ELSE "write")
  /\ current' = IF ~logSyslog /\ Cardinality(current) > splitSize THEN {} ELSE current
  /\ UNCHANGED <<start, statics, settings, mutex, then, line, lines, fdtab, syslogVars, clock,
                 dirs, splits, written, marks>>

\* Mutant: the file that was closed is not opened again.
SplitLeavesClosed(t) ==
  /\ lpc[t] = "locked"
  /\ Goto(t, IF logSyslog THEN "unlock" ELSE "write")
  /\ IF ~logSyslog /\ Cardinality(current) > splitSize
     THEN fdtab' = [fdtab EXCEPT ![logFd] = NULL] /\ current' = {}
     ELSE UNCHANGED <<fdtab, current>>
  /\ UNCHANGED <<start, statics, settings, mutex, then, line, lines, syslogVars,
                 clock, dirs, splits, written, marks>>

\* _log_write, first half: a file over the limit is closed, then begun anew or renamed to
\* the time in milliseconds (any time since the last split), and opened again.  When the
\* system refuses to rename it, the same file is opened again and grows on; when it refuses
\* to open it, the log goes to number 2, and the next split will close that.
Split(t) ==
  /\ lpc[t] = "locked"
  /\ Goto(t, IF logSyslog THEN "unlock" ELSE "write")
  /\ IF ~logSyslog /\ Cardinality(current) > splitSize
     THEN LET closed == [fdtab EXCEPT ![logFd] = NULL]
              low == Min({n \in Nums : closed[n] = NULL})
          IN  \E opened \in BOOLEAN, renamed \in IF rotate THEN {FALSE} ELSE BOOLEAN :
                /\ fdtab' = IF opened THEN [closed EXCEPT ![low] = "log"] ELSE closed
                /\ logFd' = IF opened THEN low ELSE 2
                /\ current' = IF renamed \/ (rotate /\ opened) THEN {} ELSE current
                /\ clock' \in IF renamed THEN clock..MaxClock ELSE {clock}
                /\ splits' = IF renamed THEN [splits EXCEPT ![clock'] = current] ELSE splits
                /\ Mark((IF opened THEN {} ELSE {<<"reopenFailed", NULL>>})
                          \cup (IF rotate \/ renamed THEN {} ELSE {<<"renameFailed", NULL>>})
                          \cup (IF rotate /\ opened THEN {<<"rotated", NULL>>} ELSE {})
                          \cup (IF renamed /\ splits[clock'] # {} THEN {<<"samems", NULL>>} ELSE {}))
     ELSE UNCHANGED <<fdtab, logFd, clock, current, splits, marks>>
  /\ UNCHANGED <<start, isInit, driver, logSyslog, settings, mutex, then, line, lines, syslogVars,
                 dirs, written>>

\* Mutant: an error of writev returned with the mutex locked.
WriteReturns(t) ==
  /\ lpc[t] = "write"
  /\ Goto(t, IF fdtab[logFd] = NULL THEN "idle" ELSE "unlock")
  /\ UNCHANGED <<start, statics, settings, mutex, then, line, lines, fdtab, syslogVars, files, marks>>

\* writev(_log_fd, ..)
Write(t) ==
  /\ lpc[t] = "write"
  /\ IF fdtab[logFd] = "log"
     THEN /\ current' = current \cup {line[t]} /\ written' = written \cup {line[t]}
          /\ UNCHANGED marks
     ELSE /\ Mark(IF fdtab[logFd] = NULL THEN {} ELSE {<<"write", fdtab[logFd]>>})
          /\ UNCHANGED <<current, written>>
  /\ Goto(t, "unlock")
  /\ UNCHANGED <<start, statics, settings, mutex, then, line, lines, fdtab, syslogVars, clock,
                 dirs, splits>>

\* pthread_mutex_unlock, and the end of the call
Unlock(t) ==
  /\ lpc[t] = "unlock"
  /\ held' = (held /\ dead)
  /\ line' = [line EXCEPT ![t] = NULL]
  /\ Goto(t, "idle")
  /\ UNCHANGED <<start, statics, settings, dead, then, lines, fdtab, syslogVars, files, marks>>

-------------------------------------------------------------------------------
(* log_deinit, and the settings *)

\* The driver's part: the number is closed, whatever it is by now, and stays in _log_fd.
LogDeinit(t) ==
  /\ lpc[t] = "idle" /\ isInit
  /\ fdtab' = CASE driver = "file" -> [fdtab EXCEPT ![logFd] = NULL]
                [] driver = "rsyslog" /\ sysFd # NULL -> [fdtab EXCEPT ![sysFd] = NULL]
                [] OTHER -> fdtab
  /\ sysFd' = IF driver = "rsyslog" THEN NULL ELSE sysFd
  /\ logSyslog' = FALSE /\ driver' = NULL
  /\ Mark({<<"deinit", NULL>>})
  /\ Goto(t, "deinit")
  /\ UNCHANGED <<start, isInit, logFd, settings, mutex, then, line, lines, syslogd, files>>

\* The flag, and pthread_mutex_destroy, which refuses a locked mutex.
DeinitDone(t) ==
  /\ lpc[t] = "deinit"
  /\ isInit' = FALSE
  /\ dead' = (dead \/ ~held)
  /\ Goto(t, "idle")
  /\ UNCHANGED <<start, driver, logSyslog, logFd, settings, held, then, line, lines, fdtab,
                 syslogVars, files, marks>>

SetSplitSize(t, n) ==
  /\ lpc[t] = "idle" /\ splitSize # n
  /\ splitSize' = n
  /\ limit' = IF n > limit THEN n ELSE limit
  /\ UNCHANGED <<start, statics, rotate, mutex, calls, fdtab, syslogVars, files, marks>>

SetRotate(t) ==
  /\ lpc[t] = "idle"
  /\ rotate' = ~rotate
  /\ UNCHANGED <<start, statics, splitSize, limit, mutex, calls, fdtab, syslogVars, files, marks>>

LogStep(t) ==
  \/ OnceEnter(t) \/ Configure(t) \/ MutexInit(t)
  \/ Send(t) \/ Lock(t) \/ Split(t) \/ Write(t) \/ Unlock(t)
  \/ DeinitDone(t)

-------------------------------------------------------------------------------
(* Properties *)

Inside == {t \in Users : lpc[t] \in {"locked", "write", "unlock"}}

\* Only one thread at a time is between lock and unlock, unless log_init_once initialised
\* the mutex while the flag it had set before had already let a line in, or log_deinit
\* has destroyed it under the lines that are still printed.
OneWriter == Cardinality(Inside) <= 1 \/ (Marked("reset") \/ Marked("deinit"))

\* No line written to the log file disappears when it is split: only rotation drops lines,
\* or a second split in the same millisecond, which takes the first one's name.
LinesKept ==
  written \subseteq current \cup UNION {splits[ms] : ms \in DOMAIN splits}
    \/ (Marked("rotated") \/ Marked("samems"))

\* The log file never grows further than one line over the limit, as long as one thread
\* at a time is inside and the system lets the file be renamed and opened again: a file that
\* cannot be renamed grows on.
FileWithinLimit ==
  Cardinality(current) <= limit + 1
    \/ (Marked("reset") \/ Marked("deinit"))
    \/ (Marked("renameFailed") \/ Marked("reopenFailed"))

\* Splitting a file neither drops a line nor lets a file outgrow its limit.
SplittingSound == LinesKept /\ FileWithinLimit

\* What is not the library's own is written to by log_print only after log_deinit - the
\* number in _log_fd is kept, and a second log_init does nothing -, if the type given to
\* log_init has no driver, or when a split could not open its file again: the number 2 it
\* falls back to is closed by the next split, and may then be anything's.
StraysOnlyUnopened ==
  (\E kind \in {"app", "client", "listen", "epoll", "robot"} : <<"write", kind>> \in marks) =>
    Marked("deinit") \/ Marked("reopenFailed") \/ (once = "done" /\ driver = NULL)

\* The log goes where log_init was first told to, unless a line was printed before that
\* log_init had come to an end: the line's own log_init(0, NULL) overwrites the type.
SinkAsAsked ==
  (once = "done" /\ \E type \in {"file", "rsyslog"} : <<"asked", type>> \in marks)
    => \/ <<"asked", driver>> \in marks
       \/ (Marked("early") \/ Marked("deinit"))

\* Opening the log makes directories of its path and nothing else: the file's own name is
\* made a directory only if its one slash is its first character.
MadeFor(name) ==
  {SubSeq(name, 1, i - 1) : i \in Slashes(name) \ {1}} \cup (IF Slashes(name) = {1} THEN {name} ELSE {})

OnlyPathMade == \A d \in dirs \ {<<>>} : \E p \in Idents : d \in MadeFor(LogName(p))

\* And only then, or when the system refused a directory or the file, is the log lost to
\* stderr.
LostOnlyToDirectory ==
  (driver = "file" /\ logFd = 2) =>
    \/ \E p \in Idents : Slashes(LogName(p)) = {1} /\ LogName(p) \in dirs
    \/ Marked("openFailed") \/ Marked("reopenFailed")

\* The log goes where it was asked to, and what keeps it from the file is a directory of the
\* file's name, made by the library itself, or a refusal of the system's.
LogReachesSink == SinkAsAsked /\ OnlyPathMade /\ LostOnlyToDirectory

\* The threads in log_init_once.
Runners == {t \in Users : lpc[t] \in {"configure", "mutex"}}

\* No call of the library waits for what will not come: whoever waits for the mutex waits for
\* a thread that is inside and will unlock it, and whoever waits for the initialisation for
\* one that carries it out - although the mutex may be initialised while it is held, is
\* destroyed under the lines that are being printed, and is left on every error of a write
\* or a split.
NobodyStuck ==
  /\ (\E t \in Users : lpc[t] = "lock") /\ held /\ ~dead => Inside # {}
  /\ (\E t \in Users : lpc[t] = "once") /\ once = "running" => Runners # {}

===============================================================================
