---------------------------- MODULE ProgramsProofs ----------------------------
(***************************************************************************)
(* For any number of descriptors, lines, file names and split sizes: what  *)
(* liblog guarantees to every program that uses it (one writer at a time,  *)
(* lines that survive a split, the output that was asked for), and that    *)
(* syslog's socket, the listening socket, the clients and the robot keep   *)
(* out of one another's numbers in every program, from log_init on.        *)
(***************************************************************************)
EXTENDS Programs, SequenceFacts, FiniteSetTheorems

-------------------------------------------------------------------------------
(* The inductive invariant *)

Places == {"idle", "once", "configure", "mutex", "send", "lock", "locked", "write", "unlock", "deinit"}
Lines == Nat \cup {NULL}

\* The mutex has been tampered with: initialised while held, or log_deinit is after it.
Unsafe == Marked("reset") \/ Marked("deinit")

\* Or the system has refused what a split asked for, and the file may be over its limit.
Spoiled == Unsafe \/ Marked("renameFailed") \/ Marked("reopenFailed")

TypeOK ==
  /\ once \in {"new", "running", "done"}
  /\ lpc \in [Users -> Places] /\ then \in [Users -> {"idle", "send"}]
  /\ splitSize \in Nat /\ limit \in Nat
  /\ lines \in Nat /\ line \in [Users -> Lines]
  /\ clock \in 1..MaxClock /\ splits \in [1..MaxClock -> SUBSET Lines]
  /\ current \subseteq Lines /\ IsFiniteSet(current)

\* Who is inside has the mutex, alone.
MutexOK ==
  /\ dead \/ (\E t \in Users : lpc[t] = "deinit") => Marked("deinit")
  /\ ~Unsafe => /\ \A t \in Inside : held
                /\ \A t, u \in Inside : t = u

\* A file is split before the line that would go further than one over the limit, if the
\* system lets it.
SizesOK ==
  /\ splitSize <= limit
  /\ ~Spoiled => /\ Cardinality(current) <= limit + 1
                 /\ \A t \in Users : lpc[t] = "write" => Cardinality(current) <= limit

LogInv == TypeOK /\ MutexOK /\ SizesOK /\ LinesKept

-------------------------------------------------------------------------------
(* Numbers *)

\* A finite set of numbers that is not empty has a greatest one.
LEMMA FiniteMaximum ==
  ASSUME NEW S \in SUBSET Nat, IsFiniteSet(S), S # {}
  PROVE  \E m \in S : \A n \in S : m >= n
<1> DEFINE HasMax(T) == \E m \in T : \A n \in T : m >= n
           K == {k \in Nat : \E T \in SUBSET S : T # {} /\ Cardinality(T) = k /\ ~HasMax(T)}
<1> SUFFICES ASSUME ~HasMax(S) PROVE FALSE
  OBVIOUS
<1>1. Cardinality(S) \in K
  BY FS_CardinalityType
<1>2. PICK k \in K : \A j \in K : k <= j
  <2> HIDE DEF K
  <2>1. K \in SUBSET Nat /\ K # {}
    BY <1>1 DEF K
  <2> QED BY <2>1, NatMinimum
<1>3. PICK T \in SUBSET S : T # {} /\ Cardinality(T) = k /\ ~HasMax(T)
  BY <1>2
<1>4. PICK x \in T : TRUE
  BY <1>3
<1>5. IsFiniteSet(T) /\ Cardinality(T \ {x}) = k - 1 /\ IsFiniteSet(T \ {x})
  BY <1>3, <1>4, FS_Subset, FS_RemoveElement
<1>6. Cardinality(T \ {x}) \in Nat /\ k \in Nat
  BY <1>5, FS_CardinalityType
<1>7. k - 1 \notin K
  BY <1>2, <1>6
<1>8. T \ {x} = {} \/ HasMax(T \ {x})
  BY <1>3, <1>5, <1>6, <1>7
<1>9. CASE T \ {x} = {}
  BY <1>3, <1>4, <1>9
<1>10. CASE HasMax(T \ {x})
  <2>1. PICK m \in T \ {x} : \A n \in T \ {x} : m >= n
    BY <1>10
  <2>2. m \in Nat /\ x \in Nat /\ \A n \in T : n \in Nat
    BY <1>3, <1>4, <2>1
  <2>3. CASE x >= m
    BY <1>3, <1>4, <2>1, <2>2, <2>3
  <2>4. CASE m >= x
    BY <1>3, <2>1, <2>2, <2>4
  <2> QED BY <2>2, <2>3, <2>4
<1> QED
  BY <1>8, <1>9, <1>10

\* The split size that log_set_split_size has not changed.
LEMMA DefaultSize == FILESIZE_LEN \in Nat
<1>1. \E m \in SplitSizes : \A n \in SplitSizes : m >= n
  BY LogAssumption, FiniteMaximum
<1> QED
  BY <1>1, LogAssumption DEF FILESIZE_LEN, Max

-------------------------------------------------------------------------------
(* The steps of the programs, as the library sees them *)

\* Steps that leave the library alone, whatever they do to the descriptors.
Elsewhere ==
  /\ UNCHANGED <<start, statics, settings, mutex, calls, files>>
  /\ \E S \in SUBSET ({"daemon", "stdClosed", "listenFailed", "gone"} \X {NULL}) : marks' = marks \cup S

LibraryCall ==
  \/ \E type, name : LogInit(Main, type, name)
  \/ \E t \in Users : LogPrint(t) \/ LogStep(t)
  \/ LogDeinit(Main) \/ SetRotate(Main) \/ \E n \in SplitSizes : SetSplitSize(Main, n)

\* Whatever a program does is a call of the library or a step elsewhere.
LEMMA Calls == [Next]_allVars => LibraryCall \/ Elsewhere
<1> SUFFICES ASSUME [Next]_allVars PROVE LibraryCall \/ Elsewhere
  OBVIOUS
<1>0. Main \in Users /\ Other \in Users
  BY ProgramsAssumption
<1>1. CASE UNCHANGED allVars
  <2>1. UNCHANGED <<start, statics, settings, mutex, calls, files, marks>>
    BY <1>1 DEF allVars, logVars
  <2>2. {} \in SUBSET ({"daemon", "stdClosed", "listenFailed", "gone"} \X {NULL}) /\ marks' = marks \cup {}
    BY <2>1
  <2> QED BY <2>1, <2>2 DEF Elsewhere
<1>2. ASSUME Quiet,
             marks' = marks \/ marks' = marks \cup {<<"daemon", NULL>>} \/ marks' = marks \cup {<<"stdClosed", NULL>>}
               \/ marks' = marks \cup {<<"daemon", NULL>>, <<"stdClosed", NULL>>}
               \/ marks' = marks \cup {<<"listenFailed", NULL>>} \/ marks' = marks \cup {}
      PROVE  Elsewhere
  <2>1. UNCHANGED <<start, statics, settings, mutex, calls, files>>
    BY <1>2 DEF Quiet
  <2> DEFINE D == SUBSET ({"daemon", "stdClosed", "listenFailed", "gone"} \X {NULL})
  <2>2. /\ {} \in D /\ {<<"daemon", NULL>>} \in D /\ {<<"stdClosed", NULL>>} \in D
        /\ {<<"daemon", NULL>>, <<"stdClosed", NULL>>} \in D /\ {<<"listenFailed", NULL>>} \in D
    OBVIOUS
  <2>3. marks = marks \cup {}
    OBVIOUS
  <2> HIDE DEF D
  <2>4. \E S \in D : marks' = marks \cup S
    BY <1>2, <2>2, <2>3
  <2> QED BY <2>1, <2>4 DEF Elsewhere, D
<1>3. CASE InitLog
  BY <1>3 DEF InitLog, LibraryCall
<1>4. CASE StartWorkers \/ BindFailed \/ EpollFailed \/ AddFailed \/ Failed \/ Announce \/ Accepted \/ Status
  BY <1>0, <1>4 DEF StartWorkers, BindFailed, EpollFailed, AddFailed, Failed, Announce, Accepted, Status,
     LogThen, LibraryCall
<1>12. CASE WorkerStep
  <2>1. CASE RobotSocket \/ RobotOptions \/ RobotListen \/ RobotExit \/ RobotAccept
    <3>1. Quiet /\ marks' = marks
      BY <2>1 DEF RobotSocket, RobotOptions, RobotListen, RobotExit, RobotAccept
    <3> QED BY <1>2, <3>1
  <2>2. CASE RobotCreated \/ RobotBound \/ RobotListening \/ RobotFatal \/ RobotAccepted \/ RobotGone
    BY <1>0, <2>2 DEF RobotCreated, RobotBound, RobotListening, RobotFatal, RobotAccepted, RobotGone,
       WorkerSays, LibraryCall
  <2> QED BY <1>12, <2>1, <2>2 DEF WorkerStep
<1>5. CASE InitDaemon
  <2>1. Quiet /\ (\/ marks' = marks \cup {<<"daemon", NULL>>} \/ marks' = marks \cup {<<"stdClosed", NULL>>}
                  \/ marks' = marks \cup {<<"daemon", NULL>>, <<"stdClosed", NULL>>} \/ marks' = marks \cup {})
    BY <1>5 DEF InitDaemon, Mark
  <2> QED BY <1>2, <2>1
<1>6. CASE Listen
  <2>1. Quiet /\ (marks' = marks \/ marks' = marks \cup {<<"listenFailed", NULL>>} \/ marks' = marks \cup {})
    BY <1>6 DEF Listen, Mark
  <2> QED BY <1>2, <2>1
<1>7. CASE \/ CreateWorkers \/ CloseListen \/ CloseBoth \/ CreateEpoll \/ Register \/ Stop \/ AcceptClient
           \/ AcceptError \/ NetAccept \/ NetClose
  <2>1. Quiet /\ marks' = marks
    BY <1>7 DEF CreateWorkers, CloseListen, CloseBoth, CreateEpoll, Register, Stop, AcceptClient, AcceptError,
       NetAccept, NetClose
  <2> QED BY <1>2, <2>1
<1>8. CASE OtherLogs
  BY <1>0, <1>8 DEF OtherLogs, LibraryCall
<1>9. CASE SyslogdToggles
  <2>1. marks' = marks \cup {<<"gone", NULL>>} /\ UNCHANGED <<start, statics, settings, mutex, calls, files>>
    BY <1>9 DEF SyslogdToggles, Mark
  <2>2. {<<"gone", NULL>>} \in SUBSET ({"daemon", "stdClosed", "listenFailed", "gone"} \X {NULL})
    OBVIOUS
  <2> QED BY <2>1, <2>2 DEF Elsewhere
<1>10. CASE LibraryUse
  <2>1. CASE AppOpen
    BY <1>2, <2>1 DEF AppOpen
  <2>2. CASE ~AppOpen
    BY <1>0, <1>10, <2>2 DEF LibraryUse, LibraryCall
  <2> QED BY <2>1, <2>2
<1>11. CASE \E t \in Users : LogStep(t)
  BY <1>11 DEF LibraryCall
<1> QED
  BY <1>1, <1>3, <1>4, <1>5, <1>6, <1>7, <1>8, <1>9, <1>10, <1>11, <1>12 DEF Next, ServerStep

\* What has happened has happened.
LEMMA MarksGrow ==
  ASSUME LibraryCall \/ Elsewhere
  PROVE  /\ marks \subseteq marks'
         /\ Marked("deinit") => Marked("deinit")'
         /\ ~Unsafe' => ~Unsafe
         /\ ~Spoiled' => ~Spoiled
<1>1. marks \subseteq marks'
  <2>1. ASSUME NEW t \in Users, LogStep(t) PROVE marks \subseteq marks'
    <3>1. CASE OnceEnter(t) \/ Lock(t) \/ Unlock(t) \/ DeinitDone(t)
      BY <3>1 DEF OnceEnter, Lock, Unlock, DeinitDone
    <3>6. CASE Configure(t)
      BY <3>6 DEF Configure, InitStderr, InitFile, InitSyslog, Mark
    <3>2. CASE MutexInit(t)
      BY <3>2 DEF MutexInit, Mark
    <3>3. CASE Send(t)
      BY <3>3 DEF Send, Syslog, Mark
    <3>4. CASE Split(t)
      <4>1. marks' = marks \/ \E S : marks' = marks \cup S
        BY <3>4 DEF Split, Mark
      <4> QED BY <4>1
    <3>5. CASE Write(t)
      BY <3>5 DEF Write, Mark
    <3> QED BY <2>1, <3>1, <3>2, <3>3, <3>4, <3>5, <3>6 DEF LogStep
  <2>2. ASSUME NEW t \in Users, LogPrint(t) PROVE marks \subseteq marks'
    BY <2>2 DEF LogPrint, Mark
  <2>3. CASE \E type, name : LogInit(Main, type, name)
    BY <2>3 DEF LogInit, Mark
  <2>4. CASE LogDeinit(Main) \/ SetRotate(Main) \/ \E n \in SplitSizes : SetSplitSize(Main, n)
    BY <2>4 DEF LogDeinit, SetRotate, SetSplitSize, Mark
  <2>5. CASE Elsewhere
    BY <2>5 DEF Elsewhere
  <2> QED BY <2>1, <2>2, <2>3, <2>4, <2>5 DEF LibraryCall
<1>2. ASSUME NEW x, Marked(x) PROVE Marked(x)'
  BY <1>1, <1>2 DEF Marked
<1>3. Marked("deinit") => Marked("deinit")'
  BY <1>2
<1>4. Unsafe => Unsafe'
  BY <1>2 DEF Unsafe
<1>5. Spoiled => Spoiled'
  BY <1>2, <1>4 DEF Spoiled
<1> QED
  BY <1>1, <1>3, <1>4, <1>5

-------------------------------------------------------------------------------
(* The mutex, and the file *)

\* What a split may do to the file: nothing, rename it or begin it anew, or, if the system
\* refuses, leave it as it is.
LEMMA SplitShape ==
  ASSUME NEW t \in Users, Split(t)
  PROVE  \/ /\ UNCHANGED <<clock, current, splits, marks, fdtab, logFd>>
            /\ logSyslog \/ ~(Cardinality(current) > splitSize)
         \/ /\ ~rotate /\ clock' \in clock..MaxClock /\ current' = {}
            /\ splits' = [splits EXCEPT ![clock'] = current]
            /\ splits[clock'] = {} \/ <<"samems", NULL>> \in marks'
         \/ UNCHANGED <<clock, splits>> /\ current' = {} /\ <<"rotated", NULL>> \in marks'
         \/ /\ UNCHANGED <<clock, current, splits>>
            /\ <<"renameFailed", NULL>> \in marks' \/ <<"reopenFailed", NULL>> \in marks'
<1>1. CASE logSyslog \/ ~(Cardinality(current) > splitSize)
  BY <1>1 DEF Split
<1>2. CASE ~logSyslog /\ Cardinality(current) > splitSize
  <2>1. PICK opened \in BOOLEAN, renamed \in IF rotate THEN {FALSE} ELSE BOOLEAN :
          /\ current' = IF renamed \/ (rotate /\ opened) THEN {} ELSE current
          /\ clock' \in IF renamed THEN clock..MaxClock ELSE {clock}
          /\ splits' = IF renamed THEN [splits EXCEPT ![clock'] = current] ELSE splits
          /\ marks' = marks \cup ((IF opened THEN {} ELSE {<<"reopenFailed", NULL>>})
                          \cup (IF rotate \/ renamed THEN {} ELSE {<<"renameFailed", NULL>>})
                          \cup (IF rotate /\ opened THEN {<<"rotated", NULL>>} ELSE {})
                          \cup (IF renamed /\ splits[clock'] # {} THEN {<<"samems", NULL>>} ELSE {}))
    BY <1>2 DEF Split, Mark
  <2>2. CASE renamed
    BY <2>1, <2>2
  <2>3. CASE rotate /\ opened
    BY <2>1, <2>3
  <2>4. CASE ~renamed /\ ~(rotate /\ opened)
    BY <2>1, <2>4
  <2> QED BY <2>2, <2>3, <2>4
<1> QED
  BY <1>1, <1>2

\* And what it notes down.
LEMMA SplitMarks ==
  ASSUME NEW t \in Users, Split(t)
  PROVE  /\ marks \subseteq marks'
         /\ \A e \in marks' : e \in marks \/ e[1] \in {"samems", "rotated", "renameFailed", "reopenFailed"}
<1>1. marks' = marks \/ \E S \in SUBSET {<<"samems", NULL>>, <<"rotated", NULL>>, <<"renameFailed", NULL>>, <<"reopenFailed", NULL>>} :
        marks' = marks \cup S
  <2>1. CASE logSyslog \/ ~(Cardinality(current) > splitSize)
    BY <2>1 DEF Split
  <2>2. CASE ~logSyslog /\ Cardinality(current) > splitSize
    BY <2>2 DEF Split, Mark
  <2> QED BY <2>1, <2>2
<1> QED
  BY <1>1

\* Every step keeps the types.
LEMMA TypesKept ==
  ASSUME TypeOK, LibraryCall \/ Elsewhere
  PROVE  TypeOK'
<1>0. Main \in Users /\ SplitSizes \subseteq Nat
  BY ProgramsAssumption, LogAssumption
<1> USE DEF Goto, Places, Lines
<1>1. CASE Elsewhere
  BY <1>1 DEF Elsewhere, start, settings, calls, files, TypeOK
<1>2. ASSUME NEW type, NEW name, LogInit(Main, type, name) PROVE TypeOK'
  BY <1>0, <1>2 DEF LogInit, settings, files, TypeOK
<1>3. ASSUME NEW t \in Users, LogPrint(t) PROVE TypeOK'
  BY <1>3 DEF LogPrint, settings, files, TypeOK
<1>4. CASE LogDeinit(Main) \/ SetRotate(Main) \/ \E n \in SplitSizes : SetSplitSize(Main, n)
  BY <1>0, <1>4 DEF LogDeinit, SetRotate, SetSplitSize, start, settings, calls, files, TypeOK
<1>5. ASSUME NEW t \in Users, OnceEnter(t) \/ Configure(t) \/ MutexInit(t) PROVE TypeOK'
  BY <1>5 DEF OnceEnter, Configure, MutexInit, settings, files, TypeOK
<1>6. ASSUME NEW t \in Users, Send(t) \/ Lock(t) \/ Unlock(t) \/ DeinitDone(t) PROVE TypeOK'
  BY <1>6 DEF Send, Lock, Unlock, DeinitDone, start, settings, files, TypeOK
<1>7. ASSUME NEW t \in Users, Split(t) PROVE TypeOK'
  <2>1. /\ UNCHANGED <<once, then, splitSize, limit, lines, line>>
        /\ lpc' \in [Users -> Places]
    BY <1>7 DEF Split, start, settings, TypeOK
  <2>2. CASE UNCHANGED <<clock, current, splits>>
    BY <2>1, <2>2 DEF TypeOK
  <2>3. CASE ~UNCHANGED <<clock, current, splits>>
    <3>1. /\ current' = {} /\ clock' \in {clock} \cup clock..MaxClock
          /\ splits' = splits \/ splits' = [splits EXCEPT ![clock'] = current]
      BY <1>7, <2>3, SplitShape
    <3>2. clock' \in 1..MaxClock /\ MaxClock \in Nat
      BY <3>1, LogAssumption DEF TypeOK
    <3>3. splits' \in [1..MaxClock -> SUBSET Lines] /\ current' \subseteq Lines /\ IsFiniteSet(current')
      BY <3>1, <3>2, FS_EmptySet DEF TypeOK
    <3> QED BY <2>1, <3>2, <3>3 DEF TypeOK
  <2> QED BY <2>2, <2>3
<1>8. ASSUME NEW t \in Users, Write(t) PROVE TypeOK'
  <2>1. /\ UNCHANGED <<once, then, splitSize, limit, lines, line, clock, splits>>
        /\ lpc' \in [Users -> Places]
        /\ current' = current \/ current' = current \cup {line[t]}
    BY <1>8 DEF Write, start, settings, TypeOK
  <2>2. current \subseteq Lines /\ IsFiniteSet(current) /\ line[t] \in Lines
    BY DEF TypeOK
  <2>3. IsFiniteSet(current \cup {line[t]})
    BY <2>2, FS_AddElement
  <2>4. current' \subseteq Lines /\ IsFiniteSet(current')
    BY <2>1, <2>2, <2>3
  <2> QED BY <2>1, <2>4 DEF TypeOK
<1> QED
  BY <1>1, <1>2, <1>3, <1>4, <1>5, <1>6, <1>7, <1>8 DEF LibraryCall, LogStep

\* Only one thread is inside, unless the mutex has been tampered with.
LEMMA MutexKept ==
  ASSUME TypeOK, MutexOK, LibraryCall \/ Elsewhere
  PROVE  MutexOK'
<1>0. Main \in Users
  BY ProgramsAssumption
<1> USE DEF Goto, Inside
<1>1. /\ ~Unsafe' => ~Unsafe /\ ~Marked("deinit")'
      /\ Marked("deinit") => Marked("deinit")'
  BY MarksGrow DEF Unsafe
<1>2. lpc \in [Users -> Places]
  BY DEF TypeOK
<1>3. /\ dead => Marked("deinit")
      /\ \A t \in Users : lpc[t] = "deinit" => Marked("deinit")
      /\ ~Unsafe => (\A t \in Inside : held) /\ (\A t, u \in Inside : t = u)
  BY DEF MutexOK
<1>4. CASE UNCHANGED <<lpc, held, dead>>
  BY <1>1, <1>3, <1>4 DEF MutexOK
<1>5. ASSUME NEW t \in Users, NEW l \in Places, lpc' = [lpc EXCEPT ![t] = l], UNCHANGED <<held, dead>>,
             l \in {"locked", "write", "unlock"} => lpc[t] \in {"locked", "write", "unlock"},
             l = "deinit" => Marked("deinit")'
      PROVE  MutexOK'
  <2>1. Inside' \subseteq Inside
    BY <1>2, <1>5
  <2>2. \A u \in Users : lpc'[u] = "deinit" => Marked("deinit")'
    BY <1>1, <1>2, <1>3, <1>5
  <2> QED BY <1>1, <1>3, <1>5, <2>1, <2>2 DEF MutexOK
<1>6. CASE Elsewhere \/ SetRotate(Main) \/ \E n \in SplitSizes : SetSplitSize(Main, n)
  BY <1>4, <1>6 DEF Elsewhere, SetRotate, SetSplitSize, mutex, calls
<1>7. ASSUME NEW type, NEW name, LogInit(Main, type, name) PROVE MutexOK'
  BY <1>0, <1>5, <1>7 DEF LogInit, mutex, Places
<1>8. ASSUME NEW t \in Users, LogPrint(t) \/ OnceEnter(t) \/ Configure(t) \/ Send(t) \/ Split(t) \/ Write(t)
      PROVE  MutexOK'
  <2>1. /\ UNCHANGED <<held, dead>>
        /\ \E l \in {"send", "once", "configure", "mutex", "lock", "unlock", "write", "idle"} :
             /\ lpc' = [lpc EXCEPT ![t] = l]
             /\ l \in {"write", "unlock"} => lpc[t] \in {"locked", "write", "unlock"}
    BY <1>8 DEF LogPrint, OnceEnter, Configure, Send, Split, Write, mutex, TypeOK
  <2> QED BY <1>5, <2>1 DEF Places
<1>9. CASE LogDeinit(Main)
  <2>1. lpc' = [lpc EXCEPT ![Main] = "deinit"] /\ UNCHANGED <<held, dead>>
    BY <1>9 DEF LogDeinit, mutex
  <2>2. Marked("deinit")'
    <3>1. <<"deinit", NULL>> \in marks'
      BY <1>9 DEF LogDeinit, Mark
    <3> QED BY <3>1 DEF Marked
  <2> QED BY <1>0, <1>5, <2>1, <2>2 DEF Places
<1>10. ASSUME NEW t \in Users, DeinitDone(t) PROVE MutexOK'
  <2>1. lpc[t] = "deinit" /\ lpc' = [lpc EXCEPT ![t] = "idle"]
    BY <1>10 DEF DeinitDone
  <2>2. Marked("deinit")'
    BY <1>1, <1>3, <2>1
  <2> QED BY <1>1, <2>2 DEF MutexOK
<1>11. ASSUME NEW t \in Users, MutexInit(t) PROVE MutexOK'
  <2>1. /\ lpc[t] = "mutex" /\ lpc' = [lpc EXCEPT ![t] = then[t]] /\ ~dead'
    BY <1>11 DEF MutexInit
  <2>2. Inside' \subseteq Inside /\ \A u \in Users : lpc'[u] = "deinit" => lpc[u] = "deinit"
    BY <1>2, <2>1 DEF TypeOK
  <2>3. ~Unsafe' => ~held
    <3>1. held => <<"reset", NULL>> \in marks'
      BY <1>11 DEF MutexInit, Mark
    <3> QED BY <3>1 DEF Unsafe, Marked
  <2>4. ~Unsafe' => Inside = {}
    BY <1>1, <1>3, <2>3
  <2> QED BY <1>1, <1>3, <2>1, <2>2, <2>4 DEF MutexOK
<1>12. ASSUME NEW t \in Users, Lock(t) PROVE MutexOK'
  <2>1. /\ lpc[t] = "lock" /\ lpc' = [lpc EXCEPT ![t] = "locked"] /\ (dead \/ ~held)
        /\ dead' = dead
    BY <1>12 DEF Lock
  <2>2. held' <=> (held \/ ~dead)
    BY <1>12 DEF Lock
  <2>3. ~Unsafe' => ~dead /\ ~held /\ held'
    BY <1>1, <1>3, <2>1, <2>2
  <2>4. Inside' = Inside \cup {t} /\ \A u \in Users : lpc'[u] = "deinit" => lpc[u] = "deinit"
    BY <1>2, <2>1
  <2>5. ~Unsafe' => Inside = {}
    BY <1>1, <1>3, <2>3
  <2> QED BY <1>1, <1>3, <2>1, <2>3, <2>4, <2>5 DEF MutexOK
<1>13. ASSUME NEW t \in Users, Unlock(t) PROVE MutexOK'
  <2>1. lpc[t] = "unlock" /\ lpc' = [lpc EXCEPT ![t] = "idle"] /\ dead' = dead
    BY <1>13 DEF Unlock
  <2>2. Inside' = Inside \ {t} /\ t \in Inside /\ \A u \in Users : lpc'[u] = "deinit" => lpc[u] = "deinit"
    BY <1>2, <2>1
  <2>3. ~Unsafe' => Inside' = {}
    BY <1>1, <1>3, <2>2
  <2> QED BY <1>1, <1>3, <2>1, <2>2, <2>3 DEF MutexOK
<1> QED
  BY <1>6, <1>7, <1>8, <1>9, <1>10, <1>11, <1>12, <1>13 DEF LibraryCall, LogStep

\* A file over the limit is split by the only thread inside before it writes.
LEMMA SizesKept ==
  ASSUME TypeOK, MutexOK, SizesOK, MutexOK', LibraryCall \/ Elsewhere
  PROVE  SizesOK'
<1>0. Main \in Users /\ SplitSizes \subseteq Nat
  BY ProgramsAssumption, LogAssumption
<1> USE DEF Goto
<1>1. ~Spoiled' => ~Spoiled
  BY MarksGrow
<1>2. /\ lpc \in [Users -> Places] /\ Cardinality(current) \in Nat /\ splitSize \in Nat /\ limit \in Nat
      /\ splitSize <= limit
      /\ ~Spoiled => /\ Cardinality(current) <= limit + 1
                    /\ \A t \in Users : lpc[t] = "write" => Cardinality(current) <= limit
  BY FS_CardinalityType DEF TypeOK, SizesOK
<1>3. ASSUME UNCHANGED <<splitSize, limit, current>>, \A t \in Users : lpc'[t] = "write" => lpc[t] = "write"
      PROVE  SizesOK'
  BY <1>1, <1>2, <1>3 DEF SizesOK
<1>4. CASE Elsewhere \/ SetRotate(Main)
  BY <1>3, <1>4 DEF Elsewhere, SetRotate, settings, calls, files
<1>5. ASSUME NEW type, NEW name, LogInit(Main, type, name) PROVE SizesOK'
  BY <1>2, <1>3, <1>5 DEF LogInit, settings, files
<1>6. ASSUME NEW t \in Users,
             \/ LogPrint(t) \/ OnceEnter(t) \/ Configure(t) \/ MutexInit(t) \/ Send(t) \/ Lock(t) \/ Unlock(t)
             \/ DeinitDone(t) \/ LogDeinit(t)
      PROVE  SizesOK'
  <2>1. /\ UNCHANGED <<splitSize, limit, current>>
        /\ \E l \in Places \ {"write"} : lpc' = [lpc EXCEPT ![t] = l]
    BY <1>6 DEF LogPrint, OnceEnter, Configure, MutexInit, Send, Lock, Unlock, DeinitDone, LogDeinit,
       settings, files, Places, TypeOK
  <2> QED BY <1>2, <1>3, <2>1
<1>7. ASSUME NEW n \in SplitSizes, SetSplitSize(Main, n) PROVE SizesOK'
  <2>1. /\ splitSize' = n /\ limit' = IF n > limit THEN n ELSE limit
        /\ UNCHANGED <<lpc, current>> /\ n \in Nat
    BY <1>0, <1>7 DEF SetSplitSize, calls, files
  <2>2. splitSize' <= limit' /\ limit <= limit' /\ limit' \in Nat
    BY <1>2, <2>1
  <2>3. ~Spoiled' => /\ Cardinality(current) <= limit' + 1
                    /\ \A t \in Users : lpc[t] = "write" => Cardinality(current) <= limit'
    BY <1>1, <1>2, <2>2
  <2> QED BY <2>1, <2>2, <2>3 DEF SizesOK
<1>8. ASSUME NEW t \in Users, Split(t) PROVE SizesOK'
  <2>1. /\ lpc[t] = "locked" /\ UNCHANGED <<splitSize, limit>>
        /\ \E l \in {"unlock", "write"} : lpc' = [lpc EXCEPT ![t] = l]
        /\ lpc'[t] = "write" => ~logSyslog
    BY <1>2, <1>8 DEF Split, settings
  <2>2. \/ current' = {}
        \/ current' = current /\ (logSyslog \/ ~(Cardinality(current) > splitSize))
        \/ Spoiled'
    <3>1. <<"renameFailed", NULL>> \in marks' \/ <<"reopenFailed", NULL>> \in marks' => Spoiled'
      BY DEF Spoiled, Marked
    <3> QED BY <1>8, <3>1, SplitShape
  <2>3. ~Spoiled => \A u \in Users : lpc[u] # "write"
    BY <2>1 DEF MutexOK, Inside, Spoiled
  <2>4. ~Spoiled' => Cardinality(current') <= limit + 1
    BY <1>1, <1>2, <2>2, FS_EmptySet
  <2>5. ~Spoiled' /\ lpc'[t] = "write" => Cardinality(current') <= limit
    BY <1>2, <2>1, <2>2, FS_EmptySet
  <2>6. ~Spoiled' => \A u \in Users : lpc'[u] = "write" => Cardinality(current') <= limit
    BY <1>1, <1>2, <2>1, <2>3, <2>5
  <2> QED BY <1>1, <1>2, <2>1, <2>4, <2>6 DEF SizesOK
<1>9. ASSUME NEW t \in Users, Write(t) PROVE SizesOK'
  <2>1. /\ lpc[t] = "write" /\ lpc' = [lpc EXCEPT ![t] = "unlock"] /\ UNCHANGED <<splitSize, limit>>
        /\ current' = current \/ current' = current \cup {line[t]}
    BY <1>9 DEF Write, settings
  <2>2. ~Spoiled => \A u \in Users : lpc'[u] # "write"
    BY <1>2, <2>1 DEF MutexOK, Inside, Spoiled
  <2>3. ~Spoiled => Cardinality(current) <= limit
    BY <1>2, <2>1
  <2>4. Cardinality(current') <= Cardinality(current) + 1 /\ Cardinality(current') \in Nat
    <3>1. IsFiniteSet(current)
      BY DEF TypeOK
    <3>2. Cardinality(current \cup {line[t]}) \in {Cardinality(current), Cardinality(current) + 1}
      BY <3>1, FS_AddElement
    <3>3. Cardinality(current') \in {Cardinality(current), Cardinality(current) + 1}
      BY <2>1, <3>2
    <3> QED BY <1>2, <3>3
  <2>5. ~Spoiled => Cardinality(current') <= limit + 1
    BY <1>2, <2>3, <2>4
  <2> QED BY <1>1, <1>2, <2>1, <2>2, <2>5 DEF SizesOK
<1> QED
  BY <1>0, <1>4, <1>5, <1>6, <1>7, <1>8, <1>9 DEF LibraryCall, LogStep

\* A split keeps the lines under a name of their own, but for rotation and for a second
\* split in the same millisecond.
LEMMA LinesKeptStep ==
  ASSUME TypeOK, LinesKept, LibraryCall \/ Elsewhere
  PROVE  LinesKept'
<1> DEFINE Kept == UNION {splits[ms] : ms \in DOMAIN splits}
           Dropped == Marked("rotated") \/ Marked("samems")
<1>1. Dropped => Dropped'
  BY MarksGrow DEF Marked
<1>2. written \subseteq current \cup Kept \/ Dropped
  BY DEF LinesKept
<1>3. CASE UNCHANGED <<written, current, splits>>
  BY <1>1, <1>2, <1>3 DEF LinesKept
<1>4. CASE ~UNCHANGED <<written, current, splits>>
  <2>1. PICK t \in Users : Split(t) \/ Write(t)
    BY <1>4 DEF LibraryCall, LogStep, Elsewhere, LogInit, LogPrint, LogDeinit, SetRotate, SetSplitSize,
       OnceEnter, Configure, MutexInit, Send, Lock, Unlock, DeinitDone, files
  <2>2. CASE Write(t)
    <3>1. splits' = splits
      BY <2>2 DEF Write
    <3>2. \E S : current' = current \cup S /\ written' = written \cup S
      <4>1. current' = current \cup {line[t]} /\ written' = written \cup {line[t]}
        BY <1>4, <2>2 DEF Write
      <4> QED BY <4>1
    <3> QED BY <1>1, <1>2, <3>1, <3>2 DEF LinesKept
  <2>3. CASE Split(t)
    <3>1. written' = written
      BY <2>3 DEF Split
    <3>2. \/ <<"rotated", NULL>> \in marks' \/ <<"samems", NULL>> \in marks'
          \/ /\ clock' \in clock..MaxClock /\ splits[clock'] = {}
             /\ splits' = [splits EXCEPT ![clock'] = current]
      BY <1>4, <2>3, <3>1, SplitShape
    <3>4. CASE <<"rotated", NULL>> \in marks' \/ <<"samems", NULL>> \in marks'
      <4>2. Dropped'
        BY <3>4 DEF Marked
      <4> QED BY <4>2 DEF LinesKept
    <3>5. CASE /\ clock' \in clock..MaxClock /\ splits[clock'] = {}
               /\ splits' = [splits EXCEPT ![clock'] = current]
      <4>1. DOMAIN splits = 1..MaxClock /\ clock \in 1..MaxClock /\ MaxClock \in Nat
        BY LogAssumption DEF TypeOK
      <4>2. clock' \in DOMAIN splits /\ splits' = [splits EXCEPT ![clock'] = current]
        BY <3>5, <4>1
      <4>3. \A ms \in DOMAIN splits : splits[ms] \subseteq splits'[ms]
        BY <3>5, <4>2
      <4>4. current \subseteq splits'[clock'] /\ DOMAIN splits' = DOMAIN splits
        BY <4>2
      <4>5. current \cup Kept \subseteq UNION {splits'[ms] : ms \in DOMAIN splits'}
        BY <4>2, <4>3, <4>4
      <4> QED BY <1>1, <1>2, <3>1, <4>5 DEF LinesKept
    <3> QED BY <3>2, <3>4, <3>5
  <2> QED BY <2>1, <2>2, <2>3
<1> QED
  BY <1>3, <1>4

\* LogInv holds in every reachable state.
THEOREM LogInvariance == Spec => []LogInv
<1>1. ProgramsInit => LogInv
  <2> SUFFICES ASSUME ProgramsInit PROVE LogInv
    OBVIOUS
  <2>1. /\ once = "new" /\ ~dead /\ marks = {} /\ lines = 0 /\ clock = 1 /\ written = {} /\ current = {}
        /\ lpc = [t \in Users |-> "idle"] /\ then = [t \in Users |-> "idle"] /\ line = [t \in Users |-> NULL]
        /\ splits = [ms \in 1..MaxClock |-> {}] /\ splitSize = FILESIZE_LEN /\ limit = FILESIZE_LEN
    BY DEF ProgramsInit, LogInit0
  <2>2. TypeOK
    BY <2>1, DefaultSize, LogAssumption, FS_EmptySet DEF TypeOK, Places, Lines
  <2>3. MutexOK
    BY <2>1 DEF MutexOK, Inside
  <2>4. SizesOK
    BY <2>1, DefaultSize, FS_EmptySet DEF SizesOK
  <2>5. LinesKept
    BY <2>1 DEF LinesKept
  <2> QED BY <2>2, <2>3, <2>4, <2>5 DEF LogInv
<1>2. LogInv /\ [Next]_allVars => LogInv'
  <2> SUFFICES ASSUME LogInv, [Next]_allVars PROVE LogInv'
    OBVIOUS
  <2>1. LibraryCall \/ Elsewhere
    BY Calls
  <2>2. TypeOK' /\ MutexOK'
    BY <2>1, TypesKept, MutexKept DEF LogInv
  <2>3. SizesOK' /\ LinesKept'
    BY <2>1, <2>2, SizesKept, LinesKeptStep DEF LogInv
  <2> QED BY <2>2, <2>3 DEF LogInv
<1> QED
  BY <1>1, <1>2, PTL DEF Spec

\* In every program that uses the library, one thread at a time is between lock and unlock,
\* unless the mutex was initialised while held or log_deinit has begun to destroy it.
THEOREM OneInside == Spec => []OneWriter
<1>1. LogInv => OneWriter
  <2> SUFFICES ASSUME LogInv, ~Unsafe PROVE Cardinality(Inside) <= 1
    BY DEF OneWriter, Unsafe
  <2>1. \A t, u \in Inside : t = u
    BY DEF LogInv, MutexOK
  <2>2. Inside = {} \/ \E t : Inside = {t}
    BY <2>1
  <2>3. Cardinality(Inside) = 0 \/ Cardinality(Inside) = 1
    BY <2>2, FS_EmptySet, FS_Singleton
  <2> QED BY <2>3
<1> QED
  BY <1>1, LogInvariance, PTL

\* For any sizes and any number of lines, no written line disappears in a split but by
\* rotation or by a second split in one millisecond, and the file never grows further than
\* one line over the largest limit so far, as long as one thread at a time is inside and the
\* system lets it be renamed and opened again.
THEOREM Splitting == Spec => []SplittingSound
<1>1. LogInv => SplittingSound
  BY DEF LogInv, SizesOK, Unsafe, Spoiled, SplittingSound, FileWithinLimit
<1> QED
  BY <1>1, LogInvariance, PTL

-------------------------------------------------------------------------------
(* Who is waited for *)

\* A mutex that is held has its holder inside, and an initialisation that runs is run.
HolderOK ==
  /\ held => ~dead /\ Inside # {}
  /\ once = "running" => Runners # {}

\* Every step keeps it: a thread comes out of "configure", "mutex" or the mutex only by
\* ending what others wait for.
LEMMA HolderKept ==
  ASSUME TypeOK, HolderOK, LibraryCall \/ Elsewhere
  PROVE  HolderOK'
<1>0. Main \in Users
  BY ProgramsAssumption
<1> USE DEF Goto
<1>1. ASSUME UNCHANGED <<held, dead, once, lpc>> PROVE HolderOK'
  BY <1>1 DEF HolderOK, Inside, Runners
<1>2. ASSUME NEW t \in Users, lpc[t] \notin {"locked", "write", "unlock", "configure", "mutex"},
             \A u \in Users \ {t} : lpc'[u] = lpc[u],
             held' = held, held /\ ~dead => ~dead', once' = once
      PROVE  HolderOK'
  <2>1. Inside \subseteq Inside' /\ Runners \subseteq Runners'
    BY <1>2 DEF Inside, Runners
  <2> QED BY <1>2, <2>1 DEF HolderOK
<1>3. CASE Elsewhere
  BY <1>1, <1>3 DEF Elsewhere, mutex, start, calls
<1>4. ASSUME NEW type, NEW name, LogInit(Main, type, name) PROVE HolderOK'
  BY <1>0, <1>2, <1>4 DEF LogInit, mutex, TypeOK
<1>5. ASSUME NEW t \in Users, LogPrint(t) PROVE HolderOK'
  BY <1>2, <1>5 DEF LogPrint, mutex, TypeOK
<1>6. CASE LogDeinit(Main)
  BY <1>0, <1>2, <1>6 DEF LogDeinit, mutex, start, TypeOK
<1>7. CASE SetRotate(Main) \/ \E n \in SplitSizes : SetSplitSize(Main, n)
  BY <1>1, <1>7 DEF SetRotate, SetSplitSize, mutex, start, calls
<1>8. ASSUME NEW t \in Users, OnceEnter(t) PROVE HolderOK'
  <2>1. CASE once = "new"
    <3>1. t \in Runners' /\ Inside \subseteq Inside' /\ UNCHANGED mutex
      BY <1>8, <2>1 DEF OnceEnter, Inside, Runners, TypeOK
    <3> QED BY <3>1 DEF HolderOK, mutex
  <2>2. CASE once # "new"
    BY <1>2, <1>8, <2>2 DEF OnceEnter, mutex, TypeOK
  <2> QED BY <2>1, <2>2
<1>9. ASSUME NEW t \in Users, Configure(t) PROVE HolderOK'
  <2>1. Inside \subseteq Inside' /\ UNCHANGED mutex
    BY <1>9 DEF Configure, Inside, TypeOK
  <2>2. once' = "running" => t \in Runners'
    BY <1>9 DEF Configure, Runners, TypeOK
  <2> QED BY <2>1, <2>2 DEF HolderOK, mutex
<1>10. ASSUME NEW t \in Users, MutexInit(t) PROVE HolderOK'
  BY <1>10 DEF MutexInit, HolderOK
<1>11. ASSUME NEW t \in Users, Send(t) \/ DeinitDone(t) PROVE HolderOK'
  <2>1. CASE Send(t)
    BY <1>2, <2>1 DEF Send, mutex, start, TypeOK
  <2>2. CASE DeinitDone(t)
    <3>1. lpc[t] = "deinit" /\ UNCHANGED <<once, held>> /\ dead' = (dead \/ ~held)
      BY <2>2 DEF DeinitDone, start
    <3>2. \A u \in Users \ {t} : lpc'[u] = lpc[u]
      BY <2>2 DEF DeinitDone, TypeOK
    <3> QED BY <1>2, <3>1, <3>2
  <2> QED BY <1>11, <2>1, <2>2
<1>12. ASSUME NEW t \in Users, Lock(t) PROVE HolderOK'
  <2>1. t \in Inside' /\ Runners \subseteq Runners' /\ UNCHANGED <<once, dead>> /\ held' = (held \/ ~dead)
    BY <1>12 DEF Lock, start, Inside, Runners, TypeOK
  <2> QED BY <2>1 DEF HolderOK
<1>13. ASSUME NEW t \in Users, Split(t) \/ Write(t) PROVE HolderOK'
  <2>1. Inside \subseteq Inside' /\ Runners \subseteq Runners' /\ UNCHANGED <<once, mutex>>
    BY <1>13 DEF Split, Write, start, Inside, Runners, TypeOK
  <2> QED BY <2>1 DEF HolderOK, mutex
<1>14. ASSUME NEW t \in Users, Unlock(t) PROVE HolderOK'
  <2>1. Runners \subseteq Runners' /\ UNCHANGED <<once, dead>> /\ held' = (held /\ dead)
    BY <1>14 DEF Unlock, start, Runners, TypeOK
  <2> QED BY <2>1 DEF HolderOK
<1> QED
  BY <1>3, <1>4, <1>5, <1>6, <1>7, <1>8, <1>9, <1>10, <1>11, <1>12, <1>13, <1>14 DEF LibraryCall, LogStep

\* Whoever waits for the mutex or for the initialisation waits for a thread that will end it,
\* in every program that uses the library.
THEOREM NoneStuck == Spec => []NobodyStuck
<1>1. ProgramsInit => HolderOK
  BY DEF ProgramsInit, LogInit0, HolderOK
<1>2. LogInv /\ HolderOK /\ [Next]_allVars => HolderOK'
  BY Calls, HolderKept DEF LogInv
<1>3. HolderOK => NobodyStuck
  BY DEF HolderOK, NobodyStuck
<1> QED
  BY <1>1, <1>2, <1>3, LogInvariance, PTL DEF Spec

-------------------------------------------------------------------------------
(* Where the log goes *)

LinePlaces == {"send", "lock", "locked", "write", "unlock"}
Asked(type) == <<"asked", type>> \in marks
Straight == ~Marked("early") /\ ~Marked("deinit")

\* Until a line comes too early, log_init_once finds the type that was asked for, and the
\* lines find a driver.
SinkOK ==
  Straight =>
    /\ then = [t \in Users |-> "idle"] /\ lpc[Other] \notin {"once", "configure", "mutex"}
    /\ (isInit <=> driver # NULL) /\ (logSyslog <=> driver = "rsyslog")
    /\ \A t \in Users : lpc[t] \in LinePlaces => isInit
    /\ once = "new" => lpc[Main] \in {"idle", "once"} /\ driver = NULL
    /\ once = "running" <=> lpc[Main] \in {"configure", "mutex"}
    /\ lpc[Main] = "configure" => driver = NULL
    /\ \A type \in {"file", "rsyslog"} : Asked(type) =>
         IF once = "new" \/ lpc[Main] = "configure"
         THEN lpc[Main] # "idle" /\ logType = type ELSE driver = type

\* The steps keep it.
LEMMA SinkKept ==
  ASSUME TypeOK, MutexOK, SinkOK, LibraryCall \/ Elsewhere
  PROVE  SinkOK'
<1> SUFFICES ASSUME Straight' PROVE SinkOK'
  BY DEF SinkOK
<1>0. Main \in Users /\ Other \in Users /\ Main # Other /\ Users = {Main, Other} /\ NULL # "rsyslog"
      /\ NULL # "file" /\ NULL # "stderr"
  BY ProgramsAssumption, LogAssumption
<1>1. Straight /\ marks \subseteq marks'
  BY MarksGrow DEF Straight, Marked
<1>2. /\ then = [t \in Users |-> "idle"] /\ lpc[Other] \notin {"once", "configure", "mutex"}
      /\ (isInit <=> driver # NULL) /\ (logSyslog <=> driver = "rsyslog")
      /\ \A t \in Users : lpc[t] \in LinePlaces => isInit
      /\ once = "new" => lpc[Main] \in {"idle", "once"} /\ driver = NULL
      /\ once = "running" <=> lpc[Main] \in {"configure", "mutex"}
      /\ lpc[Main] = "configure" => driver = NULL
      /\ \A type \in {"file", "rsyslog"} : Asked(type) =>
           IF once = "new" \/ lpc[Main] = "configure"
           THEN lpc[Main] # "idle" /\ logType = type ELSE driver = type
  BY <1>1 DEF SinkOK
<1>3. lpc \in [Users -> Places] /\ once \in {"new", "running", "done"}
      /\ \A t \in Users : lpc[t] # "deinit"
  BY <1>1 DEF TypeOK, MutexOK, Straight
<1> USE DEF Goto
<1>4. ASSUME UNCHANGED <<once, logType, isInit, driver, logSyslog, then, lpc>>,
             \A type : Asked(type)' => Asked(type)
      PROVE  SinkOK'
  BY <1>2, <1>4 DEF SinkOK
<1>5. CASE Elsewhere
  <2>1. UNCHANGED <<once, logType, isInit, driver, logSyslog, then, lpc>>
    BY <1>5 DEF Elsewhere, start, statics, calls
  <2>2. PICK S \in SUBSET ({"daemon", "stdClosed", "listenFailed", "gone"} \X {NULL}) : marks' = marks \cup S
    BY <1>5 DEF Elsewhere
  <2>3. \A type : Asked(type)' => Asked(type)
    BY <2>2 DEF Asked
  <2> QED BY <1>4, <2>1, <2>3
<1>6. CASE SetRotate(Main) \/ \E n \in SplitSizes : SetSplitSize(Main, n)
  BY <1>4, <1>6 DEF SetRotate, SetSplitSize, start, statics, calls, Asked
<1>7. ASSUME NEW type, NEW name, LogInit(Main, type, name) PROVE SinkOK'
  <2>1. /\ lpc[Main] = "idle" /\ lpc' = [lpc EXCEPT ![Main] = "once"] /\ then' = [then EXCEPT ![Main] = "idle"]
        /\ UNCHANGED <<once, isInit, driver, logSyslog>>
        /\ once # "done" => logType' = type
    BY <1>7 DEF LogInit, statics, Request
  <2>2. /\ once = "new" => \A x : Asked(x)' => Asked(x) \/ x = type
        /\ once # "new" => \A x : Asked(x)' => Asked(x)
    <3>1. marks' = marks \cup IF type \in {"stdout", "env"} \/ once # "new" THEN {} ELSE {<<"asked", type>>}
      BY <1>7 DEF LogInit, Mark
    <3> QED BY <3>1 DEF Asked
  <2>3. then' = [t \in Users |-> "idle"]
    BY <1>0, <1>2, <2>1
  <2>4. lpc'[Main] = "once" /\ lpc'[Other] = lpc[Other]
    BY <1>0, <1>3, <2>1
  <2>5. \A x \in {"file", "rsyslog"} : Asked(x)' =>
          IF once' = "new" \/ lpc'[Main] = "configure"
          THEN lpc'[Main] # "idle" /\ logType' = x ELSE driver' = x
    BY <1>2, <2>1, <2>2, <2>4
  <2>6. once # "running"
    BY <1>2, <2>1
  <2> QED BY <1>0, <1>2, <2>1, <2>3, <2>4, <2>5, <2>6 DEF SinkOK, LinePlaces
<1>8. ASSUME NEW t \in Users, LogPrint(t) PROVE SinkOK'
  <2>1. isInit
    <3>1. ~isInit => <<"early", NULL>> \in marks'
      BY <1>8 DEF LogPrint, Mark
    <3> QED BY <3>1 DEF Straight, Marked
  <2>2. /\ lpc[t] = "idle" /\ lpc' = [lpc EXCEPT ![t] = "send"]
        /\ UNCHANGED <<once, logType, isInit, driver, logSyslog, then, marks>>
    BY <1>8, <2>1 DEF LogPrint, statics
  <2>3. \A x \in Users : lpc'[x] = lpc[x] \/ (lpc[x] = "idle" /\ lpc'[x] = "send")
    BY <1>3, <2>2
  <2>4. once # "new"
    BY <1>2, <2>1
  <2> QED BY <1>0, <1>2, <2>1, <2>2, <2>3, <2>4 DEF SinkOK, Asked
<1>9. ASSUME NEW t \in Users, OnceEnter(t) PROVE SinkOK'
  <2>1. t = Main /\ lpc[t] = "once"
    BY <1>0, <1>2, <1>9 DEF OnceEnter
  <2>2. UNCHANGED <<logType, isInit, driver, logSyslog, then, marks>>
    BY <1>9 DEF OnceEnter, statics
  <2>3. \/ once = "new" /\ once' = "running" /\ lpc' = [lpc EXCEPT ![Main] = "configure"]
        \/ once = "done" /\ once' = "done" /\ lpc' = [lpc EXCEPT ![Main] = "idle"]
    BY <1>0, <1>2, <1>9, <2>1 DEF OnceEnter
  <2>4. lpc'[Other] = lpc[Other] /\ (\/ once = "new" /\ once' = "running" /\ lpc'[Main] = "configure"
                                     \/ once = "done" /\ once' = "done" /\ lpc'[Main] = "idle")
    BY <1>0, <1>3, <2>3
  <2> QED BY <1>0, <1>2, <2>1, <2>2, <2>4 DEF SinkOK, Asked, LinePlaces
<1>10. ASSUME NEW t \in Users, Configure(t) PROVE SinkOK'
  <2>1. t = Main /\ lpc[Main] = "configure" /\ once = "running" /\ driver = NULL /\ ~isInit /\ ~logSyslog
    BY <1>0, <1>2, <1>10 DEF Configure
  <2>2. /\ UNCHANGED <<logType, then>>
        /\ once' = IF driver' = NULL THEN "done" ELSE once
        /\ lpc' = [lpc EXCEPT ![Main] = IF driver' = NULL THEN "idle" ELSE "mutex"]
    BY <1>0, <1>2, <1>10, <2>1 DEF Configure
  <2>3. isInit' <=> driver' # NULL
    BY <1>10 DEF Configure
  <2>4. /\ logType \in {"file", "rsyslog"} => driver' = logType
        /\ logSyslog' <=> driver' = "rsyslog"
    BY <1>0, <1>10, <2>1 DEF Configure, InitStderr, InitFile, InitSyslog
  <2>5. lpc'[Other] = lpc[Other] /\ lpc'[Main] = IF driver' = NULL THEN "idle" ELSE "mutex"
    BY <1>0, <1>3, <2>2
  <2>8. \A x \in {"file", "rsyslog"} : Asked(x)' => Asked(x)
    BY <1>10 DEF Configure, InitStderr, InitFile, InitSyslog, Mark, Asked
  <2>6. \A x \in {"file", "rsyslog"} : Asked(x)' => driver' = x
    BY <1>2, <2>1, <2>2, <2>4, <2>8
  <2>7. \A u \in Users : lpc'[u] \notin LinePlaces
    BY <1>0, <1>2, <2>1, <2>5 DEF LinePlaces
  <2> QED BY <1>2, <2>1, <2>2, <2>3, <2>4, <2>5, <2>6, <2>7 DEF SinkOK
<1>11. ASSUME NEW t \in Users, MutexInit(t) PROVE SinkOK'
  <2>1. t = Main /\ lpc[Main] = "mutex" /\ once = "running"
    BY <1>0, <1>2, <1>11 DEF MutexInit
  <2>2. /\ UNCHANGED <<logType, isInit, driver, logSyslog, then>> /\ once' = "done"
        /\ lpc' = [lpc EXCEPT ![Main] = "idle"]
    BY <1>0, <1>2, <1>11, <2>1 DEF MutexInit, statics
  <2>3. \A x : Asked(x)' => Asked(x)
    BY <1>11 DEF MutexInit, Mark, Asked
  <2>4. lpc'[Other] = lpc[Other] /\ lpc'[Main] = "idle"
    BY <1>0, <1>3, <2>2
  <2> QED BY <1>0, <1>2, <2>1, <2>2, <2>3, <2>4 DEF SinkOK, LinePlaces
<1>12. ASSUME NEW t \in Users, Send(t) \/ Lock(t) \/ Split(t) \/ Write(t) \/ Unlock(t) PROVE SinkOK'
  <2>1. /\ UNCHANGED <<once, logType, isInit, driver, logSyslog, then>>
        /\ lpc[t] \in LinePlaces
        /\ \E l \in {"lock", "locked", "write", "unlock", "idle"} : lpc' = [lpc EXCEPT ![t] = l]
    BY <1>12 DEF Send, Lock, Split, Write, Unlock, start, statics, LinePlaces
  <2>2. \A x \in {"file", "rsyslog"} : Asked(x)' => Asked(x)
    <3>1. CASE Send(t)
      BY <3>1 DEF Send, Syslog, Mark, Asked
    <3>2. CASE Split(t)
      BY <3>2, SplitMarks DEF Asked
    <3>3. CASE Write(t)
      BY <3>3 DEF Write, Mark, Asked
    <3>4. CASE Lock(t) \/ Unlock(t)
      BY <3>4 DEF Lock, Unlock, Asked
    <3> QED BY <1>12, <3>1, <3>2, <3>3, <3>4
  <2>3. /\ \A u \in Users : lpc'[u] = lpc[u] \/ (u = t /\ lpc[u] \in LinePlaces /\ lpc'[u] \in LinePlaces \cup {"idle"})
        /\ isInit /\ once # "new"
    BY <1>2, <1>3, <2>1 DEF LinePlaces
  <2> QED BY <1>0, <1>2, <2>1, <2>2, <2>3 DEF SinkOK, LinePlaces
<1>13. ASSUME NEW t \in Users, DeinitDone(t) PROVE SinkOK'
  BY <1>3, <1>13 DEF DeinitDone
<1>14. CASE LogDeinit(Main)
  <2>1. <<"deinit", NULL>> \in marks'
    BY <1>14 DEF LogDeinit, Mark
  <2> QED BY <2>1 DEF Straight, Marked
<1> QED
  BY <1>5, <1>6, <1>7, <1>8, <1>9, <1>10, <1>11, <1>12, <1>13, <1>14 DEF LibraryCall, LogStep

-------------------------------------------------------------------------------
(* The descriptors of a server *)

AcceptPlaces == {"accept", "accepted"}
EpollPlaces == {"announce", "register", "addFailed", "closeBoth", "serve"}
HeldPlaces == EpollPlaces \cup {"epoll", "bindFailed", "epollFailed", "closeListen"}

FdTypes ==
  /\ program \in QueueServers \cup ThreadServers \cup {"library"}
  /\ fdtab \in [Nums -> {"std", "log", "syslog", "app", "client", "listen", "epoll", "robot", NULL}]
  /\ program = "library" =>
       mpc = "init" /\ rpc = "none" /\ \A n \in Nums : fdtab[n] \notin {"client", "listen", "epoll", "robot"}

\* A server asks for syslog first, and prints nothing until it is there.
ServerLog ==
  program # "library" =>
    /\ Straight
    /\ mpc = "init" => once = "new" /\ lpc[Main] = "idle"
    /\ mpc # "init" => Asked("rsyslog")
    /\ once # "done" => mpc \in {"init", "daemon"}
    /\ \A t \in Users : lpc[t] # "write"
    /\ ~Marked("write")

\* Which numbers may be used for what, when.
FdOK ==
  program # "library" =>
    /\ \A n \in Nums :
         /\ fdtab[n] \notin {"log", "app"}
         /\ fdtab[n] = "std" => n \in {0, 1, 2}
         /\ fdtab[n] = "syslog" => n = sysFd
         /\ fdtab[n] = "listen" => n = listenFd /\ (mpc \in HeldPlaces \cup AcceptPlaces \/ Marked("listenFailed"))
         /\ fdtab[n] = "epoll" => n = epollFd /\ mpc \in EpollPlaces
         /\ fdtab[n] = "client" => mpc \in AcceptPlaces \cup {"serve"}
         /\ fdtab[n] = "robot" => rpc \notin {"none", "socket"}
    /\ rpc # "none" => program = "robot" /\ mpc \notin {"init", "daemon", "workers", "create"}
    /\ Marked("listenFailed") => mpc \in {"failed", "stop", "asleep", "exited"} \cup AcceptPlaces
    /\ driver = NULL => sysFd = NULL

Below(k) == \A n \in Nums : fdtab[n] # NULL => n < k

\* init_daemon has closed syslog's socket, which had a number above 2, and no line has been
\* logged since: too little has been opened to take that number.
Stale ==
  /\ sysFd \in Nums \ {0, 1, 2} /\ Below(2)
  /\ \/ program \in QueueServers /\ Below(0) /\ (mpc = "workers" \/ (mpc = "create" /\ lpc[Main] = "send"))
     \/ program \in ThreadServers /\ mpc = "listen" /\ Below(0)
     \/ program \in ThreadServers /\ mpc \in {"accept", "bindFailed", "failed"} /\ Below(1)
     \/ program \in ThreadServers /\ mpc = "accepted"
     \/ program \in ThreadServers /\ mpc \in {"closeListen", "stop", "accept"} /\ lpc[Main] = "send"

OpenOK ==
  program # "library" /\ StdOpen =>
    /\ mpc \in HeldPlaces => listenFd \in Nums /\ fdtab[listenFd] = "listen"
    /\ mpc \in EpollPlaces => epollFd \in Nums /\ fdtab[epollFd] = "epoll"
    /\ sysFd = NULL => Free # {}
    /\ sysFd = NULL \/ (sysFd \in Nums /\ fdtab[sysFd] = "syslog") \/ Stale
    /\ \A kind \in {"client", "listen", "epoll", "robot"} : <<"syslog", kind>> \notin marks

ZeroOK ==
  program # "library" /\ StdOpen /\ ~Marked("gone") =>
    /\ syslogd /\ (driver # NULL => sysFd # NULL)
    /\ fdtab[0] \notin {"client", "robot"} /\ (Listening => fdtab[0] # NULL)
    /\ program \in QueueServers /\ mpc \notin {"init", "daemon"} => fdtab[0] \in {"std", "syslog"} \/ Stale

LogMoves ==
  {<<"workers", "create">>, <<"bindFailed", "closeListen">>, <<"epollFailed", "closeListen">>,
   <<"addFailed", "closeBoth">>, <<"failed", "stop">>, <<"announce", "register">>,
   <<"accepted", "accept">>, <<"serve", "serve">>}

MainLogs == LogPrint(Main) /\ <<mpc, mpc'>> \in LogMoves /\ UNCHANGED <<program, listenFd, epollFd, rpc>>

\* A step of the Yanshee server's worker prints a line, opens a socket or does neither.
LEMMA WorkerSteps ==
  ASSUME WorkerStep
  PROVE  /\ UNCHANGED mainVars /\ lpc[Other] = "idle"
         /\ rpc # "none" /\ rpc' \notin {"none", "socket"}
         /\ \/ LogPrint(Other)
            \/ Quiet /\ UNCHANGED <<marks, fdtab>>
            \/ Quiet /\ UNCHANGED marks /\ Room /\ fdtab' = [fdtab EXCEPT ![Lowest] = "robot"]
<1>1. CASE RobotSocket \/ RobotAccept
  BY <1>1 DEF RobotSocket, RobotAccept, WorkerAt, WorkerGoto
<1>2. CASE RobotOptions \/ RobotListen \/ RobotExit
  BY <1>2 DEF RobotOptions, RobotListen, RobotExit, WorkerAt, WorkerGoto
<1>3. CASE RobotCreated \/ RobotBound \/ RobotListening \/ RobotFatal \/ RobotAccepted \/ RobotGone
  BY <1>3 DEF RobotCreated, RobotBound, RobotListening, RobotFatal, RobotAccepted, RobotGone,
     WorkerAt, WorkerGoto, WorkerSays
<1> QED
  BY <1>1, <1>2, <1>3 DEF WorkerStep

\* What a server does, of everything that Next allows.
LEMMA ServerSteps ==
  ASSUME [Next]_allVars, program # "library"
  PROVE  \/ InitLog \/ InitDaemon \/ MainLogs \/ CreateWorkers \/ WorkerStep \/ Listen \/ CloseListen \/ CloseBoth \/ CreateEpoll
         \/ Register \/ Stop \/ AcceptClient \/ AcceptError \/ NetAccept \/ NetClose \/ OtherLogs
         \/ SyslogdToggles \/ \E t \in Users : LogStep(t) /\ UNCHANGED progVars
         \/ UNCHANGED allVars
<1>1. ASSUME NEW l, NEW k, MainAt(l), LogThen(k), UNCHANGED <<program, listenFd, epollFd, rpc>>, <<l, k>> \in LogMoves
      PROVE  MainLogs
  BY <1>1 DEF MainAt, LogThen, MainGoto, MainLogs
<1>2. StartWorkers \/ BindFailed \/ EpollFailed \/ AddFailed \/ Failed \/ Announce \/ Accepted \/ Status => MainLogs
  BY <1>1 DEF StartWorkers, BindFailed, EpollFailed, AddFailed, Failed, Announce, Accepted, Status, LogMoves
<1> QED
  BY <1>2 DEF Next, ServerStep, LibraryUse

\* What is known of a server's log.
LEMMA ServerFacts ==
  ASSUME TypeOK, MutexOK, SinkOK, ServerLog, program # "library"
  PROVE  /\ once = "done" => driver = "rsyslog" /\ isInit /\ logSyslog
         /\ MainAt("daemon") => once = "done"
         /\ \A t \in Users : lpc[t] \in LinePlaces => isInit /\ logSyslog
         /\ mpc = "init" => \A t \in Users : lpc[t] = "idle"
         /\ \A t \in Users : lpc[t] # "deinit" /\ then[t] = "idle"
         /\ once # "done" => lpc[Other] = "idle" \/ isInit
<1>0. Main \in Users /\ Other \in Users /\ Users = {Main, Other} /\ NULL # "rsyslog"
  BY ProgramsAssumption, LogAssumption
<1>1. Straight
  BY DEF ServerLog
<1>2. /\ then = [t \in Users |-> "idle"] /\ lpc[Other] \notin {"once", "configure", "mutex"}
      /\ (isInit <=> driver # NULL) /\ (logSyslog <=> driver = "rsyslog")
      /\ \A t \in Users : lpc[t] \in LinePlaces => isInit
      /\ once = "new" => lpc[Main] \in {"idle", "once"} /\ driver = NULL
      /\ once = "running" <=> lpc[Main] \in {"configure", "mutex"}
      /\ lpc[Main] = "configure" => driver = NULL
      /\ Asked("rsyslog") =>
           IF once = "new" \/ lpc[Main] = "configure"
           THEN lpc[Main] # "idle" /\ logType = "rsyslog" ELSE driver = "rsyslog"
  BY <1>1 DEF SinkOK
<1>3. lpc \in [Users -> Places] /\ once \in {"new", "running", "done"} /\ \A t \in Users : lpc[t] # "deinit"
  BY <1>1 DEF TypeOK, MutexOK, Straight
<1>4. /\ mpc = "init" => once = "new" /\ lpc[Main] = "idle"
      /\ mpc # "init" => Asked("rsyslog")
  BY DEF ServerLog
<1>5. once = "done" => driver = "rsyslog" /\ isInit /\ logSyslog
  BY <1>0, <1>2, <1>4
<1>6. MainAt("daemon") => once = "done"
  BY <1>2, <1>3, <1>4 DEF MainAt
<1>7. \A t \in Users : lpc[t] \in LinePlaces => isInit /\ logSyslog
  BY <1>2, <1>3, <1>4, <1>5
<1>8. lpc[Other] = "idle" \/ isInit
  BY <1>0, <1>2, <1>3 DEF Places, LinePlaces
<1>9. mpc = "init" => \A t \in Users : lpc[t] = "idle"
  BY <1>0, <1>2, <1>4, <1>8
<1> QED
  BY <1>0, <1>2, <1>3, <1>5, <1>6, <1>7, <1>8, <1>9

\* A server's lines find the log open, and are sent to syslog only.
LEMMA ServerLogKept ==
  ASSUME TypeOK, MutexOK, SinkOK, FdTypes, ServerLog, FdOK, program # "library", [Next]_allVars
  PROVE  ServerLog'
<1>0. Main \in Users /\ Other \in Users /\ Users = {Main, Other}
  BY ProgramsAssumption
<1>1. /\ Straight /\ (mpc = "init" => once = "new" /\ lpc[Main] = "idle") /\ (mpc # "init" => Asked("rsyslog"))
      /\ (once # "done" => mpc \in {"init", "daemon"})
      /\ (\A t \in Users : lpc[t] # "write") /\ ~Marked("write")
  BY DEF ServerLog
<1>2. /\ once = "done" => driver = "rsyslog" /\ isInit /\ logSyslog
      /\ MainAt("daemon") => once = "done"
      /\ \A t \in Users : lpc[t] \in LinePlaces => isInit /\ logSyslog
      /\ mpc = "init" => \A t \in Users : lpc[t] = "idle"
      /\ \A t \in Users : lpc[t] # "deinit" /\ then[t] = "idle"
  BY ServerFacts
<1>3. lpc \in [Users -> Places] /\ once \in {"new", "running", "done"}
  BY DEF TypeOK
<1>4. ASSUME UNCHANGED <<once, lpc>>, mpc' \in {"init", "daemon"} => mpc' = mpc,
             mpc = "init" => mpc' = "init",
             marks \subseteq marks', \A e \in marks' : e \in marks \/ e[1] \in {"daemon", "stdClosed", "listenFailed", "gone"},
             once # "done" => mpc' \in {"init", "daemon"}
      PROVE  ServerLog'
  <2>1. Straight' /\ ~Marked("write")'
    BY <1>1, <1>4 DEF Straight, Marked
  <2>2. Asked("rsyslog") => Asked("rsyslog")'
    BY <1>4 DEF Asked
  <2> QED BY <1>1, <1>4, <2>1, <2>2 DEF ServerLog
<1>5. CASE InitLog
  <2>1. /\ mpc = "init" /\ mpc' = "daemon" /\ LogInit(Main, "rsyslog", <<>>)
    BY <1>5 DEF InitLog, MainAt, MainGoto
  <2>2. /\ lpc' = [lpc EXCEPT ![Main] = "once"] /\ once' = once /\ marks' = marks \cup {<<"asked", "rsyslog">>}
    BY <1>1, <2>1 DEF LogInit, Mark, Goto
  <2>3. Straight' /\ ~Marked("write")' /\ Asked("rsyslog")'
    BY <1>1, <2>2 DEF Straight, Marked, Asked
  <2>4. \A t \in Users : lpc'[t] # "write"
    BY <1>0, <1>1, <1>3, <2>2
  <2> QED BY <2>1, <2>3, <2>4 DEF ServerLog
<1>6. CASE InitDaemon
  <2>1. /\ UNCHANGED <<once, lpc>> /\ mpc = "daemon" /\ mpc' \notin {"init", "daemon"} /\ once = "done"
    BY <1>2, <1>6 DEF InitDaemon, Quiet, start, calls, MainAt, MainGoto
  <2>2. /\ marks \subseteq marks'
        /\ \A e \in marks' : e \in marks \/ e[1] \in {"daemon", "stdClosed", "listenFailed", "gone"}
    BY <1>6 DEF InitDaemon, Mark
  <2> QED BY <1>4, <2>1, <2>2
<1>7. CASE \/ CreateWorkers \/ Listen \/ CloseListen \/ CloseBoth \/ CreateEpoll \/ Register \/ Stop \/ AcceptClient \/ AcceptError
           \/ NetAccept \/ NetClose \/ SyslogdToggles \/ UNCHANGED allVars
  <2>1. /\ UNCHANGED <<once, lpc>> /\ (mpc' = mpc \/ (mpc \notin {"init", "daemon"} /\ mpc' \notin {"init", "daemon"}))
    BY <1>7 DEF CreateWorkers, Listen, CloseListen, CloseBoth, CreateEpoll, Register, Stop, AcceptClient, AcceptError,
       NetAccept, NetClose, SyslogdToggles, Quiet, start, calls, MainAt, MainGoto, progVars, mainVars, allVars, logVars
  <2>2. /\ marks \subseteq marks'
        /\ \A e \in marks' : e \in marks \/ e[1] \in {"daemon", "stdClosed", "listenFailed", "gone"}
    BY <1>7 DEF CreateWorkers, Listen, CloseListen, CloseBoth, CreateEpoll, Register, Stop, AcceptClient, AcceptError,
       NetAccept, NetClose, SyslogdToggles, Mark, allVars, logVars
  <2> QED BY <1>1, <1>4, <2>1, <2>2
<1>8. ASSUME NEW t \in Users, LogPrint(t), mpc \notin {"init", "daemon"}, mpc' \notin {"init", "daemon"}
      PROVE  ServerLog'
  <2>1. once = "done" /\ isInit
    BY <1>1, <1>2, <1>8
  <2>2. UNCHANGED <<once, marks>> /\ lpc' = [lpc EXCEPT ![t] = "send"]
    BY <1>8, <2>1 DEF LogPrint, Goto
  <2>3. \A u \in Users : lpc'[u] # "write"
    BY <1>1, <1>3, <2>2
  <2>4. Straight' /\ ~Marked("write")' /\ Asked("rsyslog")'
    BY <1>1, <1>8, <2>2 DEF Straight, Marked, Asked
  <2> QED BY <1>8, <2>1, <2>2, <2>3, <2>4 DEF ServerLog
<1>9. CASE MainLogs
  BY <1>0, <1>8, <1>9 DEF MainLogs, LogMoves
<1>10. CASE OtherLogs
  <2>1. mpc' = mpc /\ (mpc = "serve" \/ rpc = "serve" \/ \E n \in Nums : fdtab[n] = "client")
    BY <1>10 DEF OtherLogs, progVars, mainVars
  <2>2. mpc \notin {"init", "daemon"}
    BY <2>1 DEF FdOK, AcceptPlaces
  <2> QED BY <1>0, <1>8, <1>10, <2>1, <2>2 DEF OtherLogs
<1>12. CASE WorkerStep
  <2>1. mpc' = mpc /\ mpc \notin {"init", "daemon"}
    BY <1>12, WorkerSteps DEF FdOK, mainVars
  <2>2. CASE LogPrint(Other)
    BY <1>0, <1>8, <2>1, <2>2
  <2>3. CASE Quiet /\ UNCHANGED marks
    <3>1. UNCHANGED <<once, lpc>>
      BY <2>3 DEF Quiet, start, calls
    <3> QED BY <1>1, <1>4, <2>1, <2>3, <3>1
  <2> QED BY <1>12, <2>2, <2>3, WorkerSteps
<1>11. ASSUME NEW t \in Users, LogStep(t), UNCHANGED progVars PROVE ServerLog'
  <2>1. mpc' = mpc /\ mpc # "init"
    BY <1>2, <1>11 DEF progVars, mainVars, LogStep, OnceEnter, Configure, MutexInit, Send, Lock, Split, Write, Unlock, DeinitDone
  <2>2. /\ once = "done" => once' = "done"
        /\ \E l : lpc' = [lpc EXCEPT ![t] = l] /\ l # "write"
    <3>1. CASE OnceEnter(t)
      BY <1>2, <3>1 DEF OnceEnter, Goto
    <3>2. CASE Configure(t) \/ MutexInit(t)
      BY <1>2, <3>2 DEF Configure, MutexInit, Goto
    <3>3. CASE Send(t) \/ Lock(t) \/ Unlock(t) \/ DeinitDone(t)
      BY <3>3 DEF Send, Lock, Unlock, DeinitDone, start, Goto
    <3>4. CASE Split(t)
      <4>1. lpc[t] = "locked" /\ logSyslog
        BY <1>2, <3>4 DEF Split, LinePlaces
      <4>2. once' = once /\ lpc' = [lpc EXCEPT ![t] = "unlock"]
        BY <3>4, <4>1 DEF Split, start, Goto
      <4>3. "unlock" # "write"
        OBVIOUS
      <4>4. \E l : lpc' = [lpc EXCEPT ![t] = l] /\ l # "write"
        BY <4>2, <4>3, Zenon
      <4> QED BY <4>2, <4>4
    <3>5. CASE Write(t)
      BY <1>1, <3>5 DEF Write
    <3> QED BY <1>11, <3>1, <3>2, <3>3, <3>4, <3>5 DEF LogStep
  <2>3. marks \subseteq marks' /\ \A e \in marks' : e \in marks \/ e[1] \in {"reset", "syslog", "openFailed"}
    <3>1. CASE OnceEnter(t) \/ Lock(t) \/ Unlock(t) \/ DeinitDone(t)
      BY <3>1 DEF OnceEnter, Lock, Unlock, DeinitDone
    <3>6. CASE Configure(t)
      BY <3>6 DEF Configure, InitStderr, InitFile, InitSyslog, Mark
    <3>2. CASE MutexInit(t)
      BY <3>2 DEF MutexInit, Mark
    <3>3. CASE Send(t)
      BY <3>3 DEF Send, Syslog, Mark
    <3>4. CASE Split(t)
      <4>1. lpc[t] = "locked" /\ logSyslog
        BY <1>2, <3>4 DEF Split, LinePlaces
      <4>2. marks' = marks
        BY <3>4, <4>1 DEF Split
      <4> QED BY <4>2
    <3>5. CASE Write(t)
      BY <1>1, <3>5 DEF Write
    <3> QED BY <1>11, <3>1, <3>2, <3>3, <3>4, <3>5, <3>6 DEF LogStep
  <2>4. \A u \in Users : lpc'[u] # "write"
    BY <1>1, <1>3, <2>2
  <2>5. Straight' /\ ~Marked("write")' /\ Asked("rsyslog")'
    BY <1>1, <2>1, <2>3 DEF Straight, Marked, Asked
  <2> QED BY <1>1, <2>1, <2>2, <2>4, <2>5 DEF ServerLog
<1> QED
  BY <1>5, <1>6, <1>7, <1>9, <1>10, <1>11, <1>12, ServerSteps

\* The constants' facts that the proofs below keep needing.
LEMMA NumFacts ==
  /\ Nums \subseteq Nat /\ NULL \notin Nums /\ IsFiniteSet(Nums)
  /\ 0 \in Nums /\ 1 \in Nums /\ 2 \in Nums /\ 3 \in Nums /\ 4 \in Nums /\ 5 \in Nums
  /\ NULL \notin {"std", "log", "syslog", "app", "client", "listen", "epoll", "robot"}
  /\ Main \in Users /\ Other \in Users /\ Main # Other /\ Users = {Main, Other}
  /\ QueueServers \cap ThreadServers = {} /\ "library" \notin QueueServers \cup ThreadServers
BY LogAssumption, ProgramsAssumption DEF QueueServers, ThreadServers

\* Min returns the least number of a set that is not empty.
LEMMA MinFact ==
  ASSUME NEW S \in SUBSET Nat, S # {}
  PROVE  Min(S) \in S /\ \A n \in S : Min(S) <= n
<1>1. \E m \in S : \A n \in S : m <= n
  BY NatMinimum
<1> QED
  BY <1>1 DEF Min

\* The kernel gives out the lowest free number.
LEMMA LowestFact ==
  ASSUME NEW k \in Nums, fdtab[k] = NULL
  PROVE  Lowest \in Nums /\ fdtab[Lowest] = NULL /\ \A n \in Nums : fdtab[n] = NULL => Lowest <= n
<1>1. Free \in SUBSET Nat /\ Free # {}
  BY NumFacts DEF Free
<1> QED
  BY <1>1, MinFact DEF Lowest, Free

\* Where there is room, a number is left when one has been given out.
LEMMA RoomFact ==
  ASSUME Room
  PROVE  \E a, b \in Nums : a # b /\ fdtab[a] = NULL /\ fdtab[b] = NULL
<1>1. \A x : Free # {x}
  <2>1. ASSUME NEW x, Free = {x} PROVE FALSE
    <3>1. Cardinality({x}) = 1
      BY FS_Singleton
    <3> QED BY <2>1, <3>1 DEF Room
  <2> QED BY <2>1
<1>4. Free # {}
  <2>1. ASSUME Free = {} PROVE FALSE
    <3>1. Cardinality({}) = 0
      BY FS_EmptySet
    <3> QED BY <2>1, <3>1 DEF Room
  <2> QED BY <2>1
<1>2. PICK a : a \in Free
  BY <1>4
<1>3. PICK b : b \in Free /\ b # a
  BY <1>1, <1>2
<1> QED
  BY <1>2, <1>3 DEF Free

\* What syslog() does to the descriptors.
LEMMA SyslogFds ==
  ASSUME Syslog, fdtab \in [Nums -> {"std", "log", "syslog", "app", "client", "listen", "epoll", "robot", NULL}]
  PROVE  /\ \/ sysFd # NULL /\ fdtab[sysFd] \in {"client", "syslog"} /\ UNCHANGED <<fdtab, sysFd>>
            \/ /\ ~syslogd /\ sysFd' = NULL
               /\ fdtab' = [n \in Nums |-> IF n = sysFd THEN NULL ELSE fdtab[n]]
            \/ /\ syslogd
               /\ \E low : /\ sysFd' = low
                           /\ fdtab' = [n \in Nums |-> IF n = low THEN "syslog" ELSE
                                                       IF n = sysFd THEN NULL ELSE fdtab[n]]
                           /\ (\E n \in Nums : n = sysFd \/ fdtab[n] = NULL) =>
                                low \in Nums /\ (low = sysFd \/ fdtab[low] = NULL)
                           /\ \A n \in Nums : n = sysFd \/ fdtab[n] = NULL => low <= n
         /\ sysFd # NULL /\ syslogd /\ fdtab[sysFd] = "syslog" => UNCHANGED <<fdtab, sysFd, marks>>
         /\ marks \subseteq marks' /\ \A e \in marks' : e \in marks \/ e[1] = "syslog"
         /\ sysFd = NULL \/ fdtab[sysFd] \in {NULL, "syslog"} => marks' = marks
<1> DEFINE hit == IF sysFd = NULL THEN NULL ELSE fdtab[sysFd]
           table == IF sysFd = NULL THEN fdtab ELSE [fdtab EXCEPT ![sysFd] = NULL]
           low == Min({n \in Nums : table[n] = NULL})
<1>1. table = [n \in Nums |-> IF n = sysFd THEN NULL ELSE fdtab[n]]
  BY NumFacts
<1>2. /\ (\E n \in Nums : n = sysFd \/ fdtab[n] = NULL) => low \in Nums /\ (low = sysFd \/ fdtab[low] = NULL)
      /\ \A n \in Nums : n = sysFd \/ fdtab[n] = NULL => low <= n
  <2>1. {n \in Nums : table[n] = NULL} \in SUBSET Nat
    BY NumFacts
  <2>2. ASSUME \E n \in Nums : n = sysFd \/ fdtab[n] = NULL PROVE {n \in Nums : table[n] = NULL} # {}
    BY <1>1, <2>2
  <2>3. ASSUME {n \in Nums : table[n] = NULL} # {} 
        PROVE  low \in {n \in Nums : table[n] = NULL} /\ \A n \in {k \in Nums : table[k] = NULL} : low <= n
    <3> DEFINE S == {n \in Nums : table[n] = NULL}
    <3> HIDE DEF table
    <3>1. S \in SUBSET Nat /\ S # {}
      BY <2>1, <2>3
    <3> HIDE DEF S
    <3>2. Min(S) \in S /\ \A n \in S : Min(S) <= n
      BY <3>1, MinFact
    <3> QED BY <3>2 DEF S
  <2> QED BY <1>1, <2>2, <2>3
<1>3. IF hit = "client" \/ (hit = "syslog" /\ syslogd)
      THEN UNCHANGED <<fdtab, sysFd>> /\ marks' = marks \cup (IF hit = "client" THEN {<<"syslog", hit>>} ELSE {})
      ELSE /\ fdtab' = IF syslogd THEN [table EXCEPT ![low] = "syslog"] ELSE table
           /\ sysFd' = IF syslogd THEN low ELSE NULL
           /\ marks' = marks \cup (IF hit = NULL \/ hit = "syslog" THEN {} ELSE {<<"syslog", hit>>})
  BY DEF Syslog, Mark
<1> HIDE DEF low
<1>4. [table EXCEPT ![low] = "syslog"] =
        [n \in Nums |-> IF n = low THEN "syslog" ELSE IF n = sysFd THEN NULL ELSE fdtab[n]]
  BY <1>1
<1>5. \/ sysFd # NULL /\ fdtab[sysFd] \in {"client", "syslog"} /\ UNCHANGED <<fdtab, sysFd>>
      \/ ~syslogd /\ sysFd' = NULL /\ fdtab' = [n \in Nums |-> IF n = sysFd THEN NULL ELSE fdtab[n]]
      \/ /\ syslogd /\ sysFd' = low
         /\ fdtab' = [n \in Nums |-> IF n = low THEN "syslog" ELSE IF n = sysFd THEN NULL ELSE fdtab[n]]
  <2> HIDE DEF table, hit
  <2>1. CASE hit = "client" \/ (hit = "syslog" /\ syslogd)
    <3>1. sysFd # NULL /\ fdtab[sysFd] \in {"client", "syslog"}
      BY <2>1, NumFacts DEF hit
    <3> QED BY <1>3, <2>1, <3>1
  <2>2. CASE ~(hit = "client" \/ (hit = "syslog" /\ syslogd))
    BY <1>1, <1>3, <1>4, <2>2
  <2> QED BY <2>1, <2>2
<1>6. /\ marks \subseteq marks' /\ \A e \in marks' : e \in marks \/ e[1] = "syslog"
      /\ sysFd = NULL \/ fdtab[sysFd] \in {NULL, "syslog"} => marks' = marks
  <2> HIDE DEF table
  <2> QED BY <1>3, NumFacts
<1>7. sysFd # NULL /\ syslogd /\ fdtab[sysFd] = "syslog" => UNCHANGED <<fdtab, sysFd, marks>>
  <2> HIDE DEF table
  <2> QED BY <1>3, <1>6
<1> QED
  BY <1>2, <1>5, <1>6, <1>7

-------------------------------------------------------------------------------
(* The steps of a server *)

FdInv == FdTypes /\ FdOK /\ OpenOK /\ ZeroOK

\* Moves of main that open and close nothing, beside those that log a line.
CalmMoves ==
  {<<"init", "daemon">>, <<"listen", "failed">>, <<"epoll", "epollFailed">>, <<"register", "serve">>,
   <<"register", "addFailed">>, <<"stop", "asleep">>, <<"stop", "accept">>, <<"stop", "exited">>,
   <<"accept", "accepted">>, <<"create", "listen">>}

\* Moves of the Yanshee server's worker, and its start.
RpcMoves ==
  \/ rpc' = rpc
  \/ rpc # "none" /\ rpc' \notin {"none", "socket"}
  \/ rpc = "none" /\ rpc' = "socket" /\ program = "robot" /\ mpc = "create" /\ mpc' = "listen"

\* Steps that leave every number as it is.
LEMMA CalmKept ==
  ASSUME FdInv, program # "library",
         UNCHANGED <<program, fdtab, sysFd, listenFd, epollFd, driver>>, RpcMoves,
         marks \subseteq marks',
         \A e \in marks' : e \in marks \/ e[1] \in {"reset", "gone", "asked", "early"},
         syslogd' = syslogd \/ Marked("gone")',
         mpc' = mpc \/ <<mpc, mpc'>> \in LogMoves \cup CalmMoves,
         Stale => Stale'
  PROVE  FdInv'
<1>1. FdTypes'
  BY DEF FdInv, FdTypes, FdOK, RpcMoves, CalmMoves, LogMoves
<1>2. /\ StdOpen' => StdOpen
      /\ Marked("gone") => Marked("gone")'
      /\ Marked("listenFailed")' <=> Marked("listenFailed")
      /\ \A kind : <<"syslog", kind>> \in marks' => <<"syslog", kind>> \in marks
  BY DEF StdOpen, Marked
<1>3. FdOK'
  BY <1>2 DEF FdInv, FdOK, RpcMoves, LogMoves, CalmMoves, HeldPlaces, EpollPlaces, AcceptPlaces
<1>4. (mpc' \in HeldPlaces => mpc \in HeldPlaces) /\ (mpc' \in EpollPlaces => mpc \in EpollPlaces)
  BY DEF LogMoves, CalmMoves, HeldPlaces, EpollPlaces
<1>5. OpenOK'
  BY <1>2, <1>4 DEF FdInv, OpenOK, Free
<1>6. ZeroOK'
  <2>1. mpc' \notin {"init", "daemon"} => mpc \notin {"init", "daemon"}
    BY DEF LogMoves, CalmMoves
  <2> QED BY <1>2, <2>1 DEF FdInv, ZeroOK, Listening
<1> QED
  BY <1>1, <1>3, <1>5, <1>6 DEF FdInv

\* log_init_once opens syslog's socket.
LEMMA ConfigureKept ==
  ASSUME FdInv, TypeOK, MutexOK, SinkOK, ServerLog, program # "library",
         NEW t \in Users, Configure(t), UNCHANGED progVars
  PROVE  FdInv'
<1>1. /\ t = Main /\ lpc[Main] = "configure" /\ once = "running" /\ driver = NULL /\ logType = "rsyslog"
      /\ mpc = "daemon"
  <2>1. Straight /\ lpc[t] = "configure"
    BY DEF ServerLog, Configure
  <2>2. t = Main
    BY <2>1, NumFacts DEF SinkOK
  <2>3. once = "running" /\ driver = NULL
    BY <2>1, <2>2 DEF SinkOK
  <2>4. mpc = "daemon"
    BY <2>1, <2>2, <2>3 DEF ServerLog
  <2>5. Asked("rsyslog")
    BY <2>4 DEF ServerLog
  <2> QED BY <2>1, <2>2, <2>3, <2>4, <2>5 DEF SinkOK
<1>2. /\ driver' = "rsyslog" /\ UNCHANGED <<marks, syslogd>>
      /\ sysFd' = OpenSyslog
      /\ fdtab' = IF syslogd THEN [fdtab EXCEPT ![Lowest] = "syslog"] ELSE fdtab
  BY <1>1 DEF Configure, InitSyslog, InitStderr, InitFile
<1>3. UNCHANGED <<program, rpc, mpc, listenFd, epollFd>>
  BY DEF progVars, mainVars
<1>4. sysFd = NULL /\ \A n \in Nums : fdtab[n] # NULL => n \in {0, 1, 2} /\ fdtab[n] = "std"
  <2>1. sysFd = NULL
    BY <1>1 DEF FdInv, FdOK
  <2>2. ~Marked("listenFailed")
    BY <1>1 DEF FdInv, FdOK, AcceptPlaces
  <2> QED BY <1>1, <2>1, <2>2, NumFacts DEF FdInv, FdTypes, FdOK, HeldPlaces, AcceptPlaces, EpollPlaces
<1>5. Lowest \in Nums /\ fdtab[Lowest] = NULL
  <2>1. fdtab[3] = NULL
    BY <1>4, NumFacts
  <2> QED BY <2>1, LowestFact, NumFacts
<1>6. \A n \in Nums : fdtab'[n] = fdtab[n] \/ (n = Lowest /\ n = sysFd' /\ fdtab'[n] = "syslog")
  BY <1>2, <1>5 DEF FdInv, FdTypes, OpenSyslog
<1>7. FdTypes'
  BY <1>1, <1>2, <1>3 DEF FdInv, FdTypes
<1>8. FdOK'
  BY <1>1, <1>2, <1>3, <1>4, <1>6, NumFacts, LogAssumption DEF FdInv, FdOK, Marked
<1>9. OpenOK'
  <2>1. (StdOpen' => StdOpen) /\ mpc' \notin HeldPlaces \cup EpollPlaces
    BY <1>1, <1>2, <1>3 DEF StdOpen, Marked, HeldPlaces, EpollPlaces
  <2>2. CASE syslogd
    <3>1. sysFd' = Lowest /\ fdtab'[Lowest] = "syslog"
      BY <1>2, <1>5, <2>2 DEF FdInv, FdTypes, OpenSyslog
    <3> QED BY <1>2, <1>3, <1>5, <2>1, <3>1, NumFacts DEF FdInv, OpenOK
  <2>3. CASE ~syslogd
    <3>1. sysFd' = NULL /\ fdtab' = fdtab /\ 3 \in Free'
      BY <1>2, <1>4, <2>3, NumFacts DEF OpenSyslog, Free
    <3> QED BY <1>2, <1>3, <2>1, <3>1 DEF FdInv, OpenOK
  <2> QED BY <2>2, <2>3
<1>10. ZeroOK'
  <2>1. fdtab'[0] \notin {"client", "robot"} /\ ~Listening'
    BY <1>4, <1>6, NumFacts DEF Listening
  <2>2. syslogd => sysFd' # NULL
    BY <1>2, <1>5, NumFacts DEF OpenSyslog
  <2> QED BY <1>1, <1>2, <1>3, <2>1, <2>2 DEF FdInv, ZeroOK, StdOpen, Marked
<1> QED
  BY <1>7, <1>8, <1>9, <1>10 DEF FdInv

\* A line is sent to syslog.
LEMMA SendKept ==
  ASSUME FdInv, TypeOK, MutexOK, SinkOK, ServerLog, program # "library",
         NEW t \in Users, Send(t), UNCHANGED progVars
  PROVE  FdInv'
<1>1. Syslog /\ driver # NULL
  <2>1. lpc[t] = "send" /\ Straight
    BY DEF Send, ServerLog
  <2>2. isInit /\ logSyslog
    BY <2>1, ServerFacts DEF LinePlaces
  <2> QED BY <2>1, <2>2 DEF Send, SinkOK
<1>2. UNCHANGED <<program, rpc, mpc, listenFd, epollFd, driver, syslogd>>
  BY DEF Send, progVars, mainVars, statics
<1>3. fdtab \in [Nums -> {"std", "log", "syslog", "app", "client", "listen", "epoll", "robot", NULL}]
  BY DEF FdInv, FdTypes
<1>4. /\ \/ sysFd # NULL /\ fdtab[sysFd] \in {"client", "syslog"} /\ UNCHANGED <<fdtab, sysFd>>
         \/ /\ ~syslogd /\ sysFd' = NULL
            /\ fdtab' = [n \in Nums |-> IF n = sysFd THEN NULL ELSE fdtab[n]]
         \/ /\ syslogd
            /\ \E low : /\ sysFd' = low
                        /\ fdtab' = [n \in Nums |-> IF n = low THEN "syslog" ELSE
                                                    IF n = sysFd THEN NULL ELSE fdtab[n]]
                        /\ (\E n \in Nums : n = sysFd \/ fdtab[n] = NULL) =>
                             low \in Nums /\ (low = sysFd \/ fdtab[low] = NULL)
                        /\ \A n \in Nums : n = sysFd \/ fdtab[n] = NULL => low <= n
      /\ sysFd # NULL /\ syslogd /\ fdtab[sysFd] = "syslog" => UNCHANGED <<fdtab, sysFd, marks>>
      /\ marks \subseteq marks' /\ \A e \in marks' : e \in marks \/ e[1] = "syslog"
      /\ sysFd = NULL \/ fdtab[sysFd] \in {NULL, "syslog"} => marks' = marks
  BY <1>1, <1>3, SyslogFds
<1>5. /\ fdtab' \in [Nums -> {"std", "log", "syslog", "app", "client", "listen", "epoll", "robot", NULL}]
      /\ \A n \in Nums : \/ fdtab'[n] = fdtab[n]
                         \/ fdtab'[n] = NULL /\ n = sysFd
                         \/ fdtab'[n] = "syslog" /\ n = sysFd'
      /\ sysFd' # sysFd => \A n \in Nums : n = sysFd => fdtab'[n] = NULL
  BY <1>3, <1>4
<1>6. FdTypes'
  BY <1>2, <1>5 DEF FdInv, FdTypes
<1>7. /\ Marked("listenFailed")' <=> Marked("listenFailed")
      /\ StdOpen' => StdOpen
      /\ Marked("gone") => Marked("gone")'
  BY <1>4 DEF Marked, StdOpen
<1>8. FdOK'
  <2>1. \A n \in Nums : fdtab'[n] = "syslog" => n = sysFd'
    BY <1>5, NumFacts DEF FdInv, FdOK
  <2> QED BY <1>1, <1>2, <1>5, <1>7, <2>1, NumFacts DEF FdInv, FdOK
<1>9. OpenOK'
  <2> SUFFICES ASSUME StdOpen' PROVE OpenOK'
    BY DEF OpenOK
  <2>1. /\ mpc \in HeldPlaces => listenFd \in Nums /\ fdtab[listenFd] = "listen"
        /\ mpc \in EpollPlaces => epollFd \in Nums /\ fdtab[epollFd] = "epoll"
        /\ sysFd = NULL => Free # {}
        /\ sysFd = NULL \/ (sysFd \in Nums /\ fdtab[sysFd] = "syslog") \/ Stale
        /\ \A kind \in {"client", "listen", "epoll", "robot"} : <<"syslog", kind>> \notin marks
    BY <1>7 DEF FdInv, OpenOK
  <2>2. sysFd = NULL \/ (sysFd \in Nums /\ fdtab[sysFd] \in {NULL, "syslog"})
    <3>1. CASE Stale
      <4>1. sysFd \in Nums \ {0, 1, 2} /\ (fdtab[sysFd] # NULL => sysFd < 2)
        BY <3>1 DEF Stale, Below
      <4>2. sysFd \in Nat
        BY <4>1, NumFacts
      <4>3. ~(sysFd < 2)
        BY <4>1, <4>2
      <4> QED BY <4>1, <4>3
    <3> QED BY <2>1, <3>1
  <2>3. \A n \in Nums : fdtab[n] \in {"listen", "epoll"} => fdtab'[n] = fdtab[n]
    BY <1>4, <2>1, <2>2, NumFacts DEF Free
  <2>4. sysFd' = NULL => Free' # {}
    BY <1>4, <2>1, <2>2, NumFacts DEF Free
  <2>5. sysFd' = NULL \/ (sysFd' \in Nums /\ fdtab'[sysFd'] = "syslog")
    BY <1>4, <2>1, <2>2, NumFacts DEF Free
  <2>6. marks' = marks
    BY <1>4, <2>2
  <2> QED BY <1>2, <2>1, <2>3, <2>4, <2>5, <2>6 DEF OpenOK
<1>10. ZeroOK'
  <2> SUFFICES ASSUME StdOpen', ~Marked("gone")' PROVE ZeroOK'
    BY DEF ZeroOK
  <2>1. /\ syslogd /\ fdtab[0] \notin {"client", "robot"} /\ (Listening => fdtab[0] # NULL)
        /\ program \in QueueServers /\ mpc \notin {"init", "daemon"} => fdtab[0] \in {"std", "syslog"} \/ Stale
        /\ driver # NULL => sysFd # NULL
    BY <1>7 DEF FdInv, ZeroOK
  <2>5. sysFd \in Nums /\ sysFd' # NULL
    <3>1. sysFd \in Nums
      BY <1>1, <1>7, <2>1 DEF FdInv, OpenOK, Stale
    <3> QED BY <1>4, <2>1, <3>1, NumFacts
  <2>6. ASSUME Stale, program \in QueueServers PROVE fdtab'[0] = "syslog"
    <3>1. \A n \in Nums : fdtab[n] = NULL
      BY <2>6, NumFacts DEF Stale, Below
    <3>2. PICK low \in Nums : /\ fdtab' = [n \in Nums |-> IF n = low THEN "syslog" ELSE
                                                         IF n = sysFd THEN NULL ELSE fdtab[n]]
                              /\ \A n \in Nums : low <= n
      BY <1>4, <2>1, <2>5, <3>1, NumFacts
    <3>3. low = 0
      BY <3>2, NumFacts
    <3> QED BY <3>2, <3>3, NumFacts
  <2>2. sysFd = 0 => fdtab[0] = "syslog"
    BY <1>7, NumFacts DEF FdInv, OpenOK, Stale
  <2>3. fdtab'[0] = fdtab[0] \/ fdtab'[0] = "syslog"
    BY <1>4, <1>5, <2>1, <2>2, NumFacts
  <2>4. Listening' => Listening
    BY <1>2, <1>5, NumFacts DEF Listening
  <2> QED BY <1>2, <2>1, <2>3, <2>4, <2>5, <2>6, NumFacts DEF ZeroOK
<1> QED
  BY <1>6, <1>8, <1>9, <1>10 DEF FdInv

\* A child of init_daemon goes on with every number closed.
LEMMA DaemonKept ==
  ASSUME FdInv, TypeOK, MutexOK, SinkOK, ServerLog, program # "library", InitDaemon
  PROVE  FdInv'
<1>1. /\ mpc = "daemon" /\ UNCHANGED <<program, rpc, listenFd, epollFd, sysFd, syslogd, driver>>
      /\ mpc' = IF program \in QueueServers THEN "workers" ELSE "listen"
  BY DEF InitDaemon, MainAt, MainGoto, Quiet, syslogVars, statics
<1>2. /\ marks \subseteq marks' /\ \A e \in marks' : e \in marks \/ e[1] \in {"daemon", "stdClosed"}
      /\ StdOpen' => \A n \in {0, 1, 2} : fdtab[n] = "std"
  <2>1. \E S : marks' = marks \cup S
    BY DEF InitDaemon, Mark
  <2>2. \A e \in marks' : e \in marks \/ e[1] \in {"daemon", "stdClosed"}
    BY DEF InitDaemon, Mark
  <2>3. ~(\A n \in {0, 1, 2} : fdtab[n] = "std") => <<"stdClosed", NULL>> \in marks'
    BY DEF InitDaemon, Mark
  <2> QED BY <2>1, <2>2, <2>3 DEF StdOpen, Marked
<1>3. fdtab' = [n \in Nums |-> NULL] \/ fdtab' = fdtab
  BY DEF InitDaemon
<1>4. /\ StdOpen' => StdOpen
      /\ Marked("gone") => Marked("gone")'
      /\ Marked("listenFailed")' <=> Marked("listenFailed")
      /\ \A kind : <<"syslog", kind>> \in marks' => <<"syslog", kind>> \in marks
  BY <1>2 DEF StdOpen, Marked
<1>5. rpc = "none" /\ ~Marked("listenFailed") /\ \A n \in Nums : fdtab[n] \notin {"client", "listen", "epoll", "robot"}
  BY <1>1 DEF FdInv, FdOK, HeldPlaces, EpollPlaces, AcceptPlaces
<1>6. FdTypes'
  BY <1>1, <1>3 DEF FdInv, FdTypes
<1>7. FdOK'
  BY <1>1, <1>3, <1>4, <1>5, NumFacts DEF FdInv, FdOK
<1>10. ASSUME StdOpen', fdtab' = [n \in Nums |-> NULL] PROVE sysFd' = NULL \/ Stale'
  <2>1. sysFd = NULL \/ (sysFd \in Nums /\ fdtab[sysFd] = "syslog")
    BY <1>1, <1>4, <1>10 DEF FdInv, OpenOK, Stale
  <2>2. sysFd = NULL \/ sysFd \in Nums \ {0, 1, 2}
    BY <1>2, <1>10, <2>1
  <2>3. Below(0)' /\ Below(2)'
    BY <1>10 DEF Below
  <2>4. program \in QueueServers \cup ThreadServers
    BY DEF FdInv, FdTypes
  <2> QED BY <1>1, <2>2, <2>3, <2>4 DEF Stale
<1>8. OpenOK'
  <2> SUFFICES ASSUME StdOpen' PROVE OpenOK'
    BY DEF OpenOK
  <2>1. /\ sysFd = NULL => Free # {}
        /\ sysFd = NULL \/ (sysFd \in Nums /\ fdtab[sysFd] = "syslog")
        /\ \A kind \in {"client", "listen", "epoll", "robot"} : <<"syslog", kind>> \notin marks
    BY <1>1, <1>4 DEF FdInv, OpenOK, Stale
  <2>2. mpc' \notin HeldPlaces \cup EpollPlaces
    BY <1>1 DEF HeldPlaces, EpollPlaces
  <2>3. sysFd' = NULL => Free' # {}
    BY <1>1, <1>3, <2>1, NumFacts DEF Free
  <2>4. CASE fdtab' = fdtab
    BY <1>1, <1>4, <2>1, <2>2, <2>3, <2>4 DEF OpenOK
  <2>5. CASE fdtab' = [n \in Nums |-> NULL]
    <3>4. sysFd' = NULL \/ Stale'
      BY <1>10, <2>5
    <3> QED BY <1>1, <1>4, <2>1, <2>2, <2>3, <3>4 DEF OpenOK
  <2> QED BY <1>3, <2>4, <2>5
<1>9. ZeroOK'
  <2> SUFFICES ASSUME StdOpen', ~Marked("gone")' PROVE ZeroOK'
    BY DEF ZeroOK
  <2>1. fdtab'[0] \notin {"client", "robot"} /\ ~Listening'
    BY <1>3, <1>5, NumFacts DEF Listening
  <2>2. syslogd /\ (driver # NULL => sysFd # NULL)
    BY <1>4 DEF FdInv, ZeroOK
  <2>3. fdtab'[0] \in {"std", "syslog"} \/ Stale'
    <3>1. CASE fdtab' = fdtab
      BY <1>2, <3>1
    <3>2. CASE fdtab' = [n \in Nums |-> NULL] /\ sysFd # NULL
      BY <1>1, <1>10, <3>2
    <3>3. driver # NULL
      BY ServerFacts, LogAssumption DEF InitDaemon
    <3> QED BY <1>3, <2>2, <3>1, <3>2, <3>3
  <2> QED BY <1>1, <2>1, <2>2, <2>3 DEF ZeroOK
<1> QED
  BY <1>6, <1>7, <1>8, <1>9 DEF FdInv

\* The listening socket is the first that a server opens.
LEMMA ListenKept ==
  ASSUME FdInv, program # "library", Listen
  PROVE  FdInv'
<1>1. /\ mpc = "listen" /\ lpc[Main] = "idle" /\ UNCHANGED <<program, rpc, epollFd, sysFd, syslogd, driver, lpc>>
  BY DEF Listen, MainAt, Quiet, syslogVars, statics, calls
<1>2. ~Marked("listenFailed") /\ \A n \in Nums : fdtab[n] \notin {"client", "listen", "epoll"}
  BY <1>1 DEF FdInv, FdOK, HeldPlaces, EpollPlaces, AcceptPlaces
<1>3. CASE MainGoto("failed") /\ UNCHANGED <<listenFd, fdtab, marks>>
  <2>1. Stale => Stale'
    <3>1. Below(0) => Below(1)'
      <4>1. \A n \in Nums : n < 0 => n < 1
        BY NumFacts
      <4>2. fdtab' = fdtab
        BY <1>3
      <4> QED BY <4>1, <4>2 DEF Below
    <3> QED BY <1>1, <1>3, <3>1 DEF Stale, Below, MainGoto
  <2>2. <<mpc, mpc'>> \in LogMoves \cup CalmMoves
    BY <1>1, <1>3 DEF CalmMoves, MainGoto
  <2> QED BY <1>1, <1>3, <2>1, <2>2, CalmKept DEF RpcMoves
<1>4. CASE /\ Room /\ listenFd' = Lowest /\ fdtab' = [fdtab EXCEPT ![Lowest] = "listen"]
           /\ \E l \in {IF program \in QueueServers THEN "epoll" ELSE "accept", "bindFailed", "failed"} :
                /\ MainGoto(l)
                /\ Mark(IF l = "failed" THEN {<<"listenFailed", NULL>>} ELSE {})
  <2>1. PICK a, b \in Nums : a # b /\ fdtab[a] = NULL /\ fdtab[b] = NULL
    BY <1>4, RoomFact
  <2>2. /\ Lowest \in Nums /\ fdtab[Lowest] = NULL
        /\ \A n \in Nums : fdtab[n] = NULL => Lowest <= n
    BY <2>1, LowestFact
  <2>3. /\ fdtab' \in [Nums -> {"std", "log", "syslog", "app", "client", "listen", "epoll", "robot", NULL}]
        /\ fdtab'[Lowest] = "listen"
        /\ \A n \in Nums : fdtab'[n] = fdtab[n] \/ n = Lowest
    BY <1>4, <2>2 DEF FdInv, FdTypes
  <2>4. /\ mpc' \in {"bindFailed", "failed"} \/ (mpc' = "epoll" /\ program \in QueueServers)
             \/ (mpc' = "accept" /\ program \notin QueueServers)
        /\ marks \subseteq marks' /\ \A e \in marks' : e \in marks \/ e[1] = "listenFailed"
        /\ mpc' = "failed" => <<"listenFailed", NULL>> \in marks'
        /\ mpc' # "failed" => marks' = marks
    BY <1>4 DEF MainGoto, Mark
  <2>5. /\ StdOpen' => StdOpen
        /\ Marked("gone") => Marked("gone")'
        /\ Marked("listenFailed")' <=> mpc' = "failed"
        /\ \A kind : <<"syslog", kind>> \in marks' => <<"syslog", kind>> \in marks
    BY <1>2, <2>4 DEF StdOpen, Marked
  <2>6. FdTypes'
    BY <1>1, <2>3 DEF FdInv, FdTypes
  <2>7. FdOK'
    BY <1>1, <1>2, <1>4, <2>3, <2>4, <2>5, NumFacts DEF FdInv, FdOK, HeldPlaces, AcceptPlaces
  <2>8. OpenOK'
    <3> SUFFICES ASSUME StdOpen' PROVE OpenOK'
      BY DEF OpenOK
    <3>1. /\ sysFd = NULL \/ (sysFd \in Nums /\ fdtab[sysFd] = "syslog") \/ Stale
          /\ \A kind \in {"client", "listen", "epoll", "robot"} : <<"syslog", kind>> \notin marks
      BY <2>5 DEF FdInv, OpenOK
    <3>2. sysFd' = NULL => Free' # {}
      <4>1. fdtab'[a] = NULL \/ fdtab'[b] = NULL
        BY <2>1, <2>3
      <4> QED BY <4>1 DEF Free
    <3>3. fdtab[sysFd] = "syslog" /\ sysFd \in Nums => fdtab'[sysFd] = "syslog"
      BY <2>2, <2>3, NumFacts
    <3>4. Stale => Stale'
      <4> SUFFICES ASSUME Stale PROVE Stale'
        OBVIOUS
      <4>1. sysFd \in Nums \ {0, 1, 2} /\ program \in ThreadServers /\ Below(0)
        BY <1>1 DEF Stale
      <4>2. \A n \in Nums : fdtab[n] = NULL
        BY <4>1, NumFacts DEF Below
      <4>3. Lowest = 0
        BY <2>2, <4>2, NumFacts
      <4>4. Below(1)' /\ Below(2)'
        BY <2>3, <4>2, <4>3 DEF Below
      <4>5. mpc' \in {"accept", "bindFailed", "failed"}
        BY <2>4, <4>1, NumFacts
      <4> QED BY <1>1, <4>1, <4>4, <4>5 DEF Stale
    <3>5. mpc' \notin EpollPlaces
      BY <2>4 DEF EpollPlaces
    <3> QED BY <1>1, <1>4, <2>2, <2>3, <2>5, <3>1, <3>2, <3>3, <3>4, <3>5 DEF OpenOK
  <2>9. ZeroOK'
    <3> SUFFICES ASSUME StdOpen', ~Marked("gone")' PROVE ZeroOK'
      BY DEF ZeroOK
    <3>1. fdtab[0] = NULL => Lowest = 0
      BY <2>2, NumFacts
    <3>2. /\ syslogd /\ fdtab[0] \notin {"client", "robot"} /\ (driver # NULL => sysFd # NULL)
          /\ program \in QueueServers => fdtab[0] \in {"std", "syslog"} \/ Stale
      BY <1>1, <2>5 DEF FdInv, ZeroOK
    <3>3. fdtab'[0] # NULL /\ fdtab'[0] \notin {"client", "robot"}
      BY <2>3, <3>1, <3>2, NumFacts
    <3>4. program \in QueueServers => fdtab'[0] \in {"std", "syslog"}
      <4>1. ~(Stale /\ program \in QueueServers)
        BY <1>1, NumFacts DEF Stale
      <4> QED BY <2>2, <2>3, <3>2, <4>1, NumFacts
    <3> QED BY <1>1, <3>2, <3>3, <3>4 DEF ZeroOK
  <2> QED BY <2>6, <2>7, <2>8, <2>9 DEF FdInv
<1> QED
  BY <1>3, <1>4 DEF Listen

\* The epoll descriptor finds a number, too.
LEMMA EpollKept ==
  ASSUME FdInv, program # "library", CreateEpoll
  PROVE  FdInv'
<1>1. /\ mpc = "epoll" /\ UNCHANGED <<program, rpc, listenFd, sysFd, syslogd, driver, lpc, marks>>
  BY DEF CreateEpoll, MainAt, Quiet, syslogVars, statics, calls
<1>2. ~Stale
  BY <1>1 DEF Stale
<1>3. CASE MainGoto("epollFailed") /\ UNCHANGED <<epollFd, fdtab>>
  <2>1. <<mpc, mpc'>> \in LogMoves \cup CalmMoves
    BY <1>1, <1>3 DEF CalmMoves, MainGoto
  <2> QED BY <1>1, <1>2, <1>3, <2>1, CalmKept DEF RpcMoves
<1>4. CASE Room /\ epollFd' = Lowest /\ fdtab' = [fdtab EXCEPT ![Lowest] = "epoll"] /\ MainGoto("announce")
  <2>1. PICK a, b \in Nums : a # b /\ fdtab[a] = NULL /\ fdtab[b] = NULL
    BY <1>4, RoomFact
  <2>2. Lowest \in Nums /\ fdtab[Lowest] = NULL
    BY <2>1, LowestFact
  <2>3. /\ fdtab' \in [Nums -> {"std", "log", "syslog", "app", "client", "listen", "epoll", "robot", NULL}]
        /\ fdtab'[Lowest] = "epoll"
        /\ \A n \in Nums : fdtab'[n] = fdtab[n] \/ n = Lowest
        /\ mpc' = "announce"
    BY <1>4, <2>2 DEF FdInv, FdTypes, MainGoto
  <2>4. Marked("listenFailed")' = Marked("listenFailed") /\ StdOpen' = StdOpen
        /\ Marked("gone")' = Marked("gone") /\ ~Marked("listenFailed")
    BY <1>1 DEF Marked, StdOpen, FdInv, FdOK, AcceptPlaces
  <2>5. FdTypes'
    BY <1>1, <2>3 DEF FdInv, FdTypes
  <2>6. FdOK'
    BY <1>1, <1>4, <2>3, <2>4, NumFacts DEF FdInv, FdOK, HeldPlaces, AcceptPlaces, EpollPlaces
  <2>7. OpenOK'
    <3> SUFFICES ASSUME StdOpen PROVE OpenOK'
      BY <2>4 DEF OpenOK
    <3>1. /\ sysFd = NULL \/ (sysFd \in Nums /\ fdtab[sysFd] = "syslog")
          /\ listenFd \in Nums /\ fdtab[listenFd] = "listen"
          /\ \A kind \in {"client", "listen", "epoll", "robot"} : <<"syslog", kind>> \notin marks
      BY <1>1, <1>2 DEF FdInv, OpenOK, HeldPlaces
    <3>2. sysFd' = NULL => Free' # {}
      <4>1. fdtab'[a] = NULL \/ fdtab'[b] = NULL
        BY <2>1, <2>3
      <4> QED BY <4>1 DEF Free
    <3>3. /\ sysFd' = NULL \/ (sysFd' \in Nums /\ fdtab'[sysFd'] = "syslog")
          /\ listenFd' \in Nums /\ fdtab'[listenFd'] = "listen"
      BY <1>1, <2>2, <2>3, <3>1, NumFacts
    <3> QED BY <1>1, <1>4, <2>2, <2>3, <3>1, <3>2, <3>3 DEF OpenOK
  <2>8. ZeroOK'
    <3> SUFFICES ASSUME StdOpen, ~Marked("gone") PROVE ZeroOK'
      BY <2>4 DEF ZeroOK
    <3>1. /\ syslogd /\ fdtab[0] \notin {"client", "robot"} /\ (Listening => fdtab[0] # NULL)
          /\ driver # NULL => sysFd # NULL
          /\ program \in QueueServers => fdtab[0] \in {"std", "syslog"}
      BY <1>1, <1>2 DEF FdInv, ZeroOK
    <3>2. (Listening' => Listening) /\ (fdtab'[0] = fdtab[0] \/ (fdtab'[0] = "epoll" /\ fdtab[0] = NULL))
      BY <1>1, <2>2, <2>3, NumFacts DEF Listening
    <3> QED BY <1>1, <3>1, <3>2, NumFacts DEF ZeroOK
  <2> QED BY <2>5, <2>6, <2>7, <2>8 DEF FdInv
<1> QED
  BY <1>3, <1>4 DEF CreateEpoll

\* A start that failed closes what it opened.
LEMMA CloseKept ==
  ASSUME FdInv, program # "library", CloseListen \/ CloseBoth
  PROVE  FdInv'
<1>1. /\ mpc \in {"closeListen", "closeBoth"} /\ mpc' = "stop" /\ lpc[Main] = "idle"
      /\ UNCHANGED <<program, rpc, listenFd, epollFd, sysFd, syslogd, driver, lpc, marks>>
  BY DEF CloseListen, CloseBoth, MainAt, MainGoto, Quiet, syslogVars, statics, calls
<1>2. /\ \A n \in Nums : IF n = listenFd \/ (n = epollFd /\ mpc = "closeBoth")
                         THEN fdtab'[n] = NULL ELSE fdtab'[n] = fdtab[n]
      /\ fdtab' \in [Nums -> {"std", "log", "syslog", "app", "client", "listen", "epoll", "robot", NULL}]
  <2>1. fdtab \in [Nums -> {"std", "log", "syslog", "app", "client", "listen", "epoll", "robot", NULL}]
    BY DEF FdInv, FdTypes
  <2>2. CASE CloseListen
    <3>1. fdtab' = [fdtab EXCEPT ![listenFd] = NULL] /\ mpc = "closeListen"
      BY <2>2 DEF CloseListen, MainAt
    <3> QED BY <2>1, <3>1
  <2>3. CASE CloseBoth
    <3>1. fdtab' = [fdtab EXCEPT ![listenFd] = NULL, ![epollFd] = NULL] /\ mpc = "closeBoth"
      BY <2>3 DEF CloseBoth, MainAt
    <3> QED BY <2>1, <3>1
  <2> QED BY <2>2, <2>3
<1>3. ~Stale
  BY <1>1 DEF Stale
<1>4. Marked("listenFailed")' = Marked("listenFailed") /\ StdOpen' = StdOpen /\ Marked("gone")' = Marked("gone")
  BY <1>1 DEF Marked, StdOpen
<1>5. \A n \in Nums : /\ fdtab'[n] \notin {"listen", "epoll", "client"}
                      /\ fdtab'[n] = fdtab[n] \/ fdtab'[n] = NULL
  <2>1. /\ mpc \notin AcceptPlaces \cup {"serve"}
        /\ mpc = "closeListen" => mpc \notin EpollPlaces
    BY <1>1 DEF AcceptPlaces, EpollPlaces
  <2>2. \A n \in Nums : /\ fdtab[n] = "listen" => n = listenFd
                        /\ fdtab[n] = "epoll" => n = epollFd /\ mpc \in EpollPlaces
                        /\ fdtab[n] # "client"
    BY <2>1 DEF FdInv, FdOK
  <2>3. /\ \A n \in Nums : fdtab'[n] = fdtab[n] \/ fdtab'[n] = NULL
        /\ mpc = "closeListen" \/ mpc = "closeBoth"
    BY <1>1, <1>2
  <2>4. \A n \in Nums : fdtab'[n] = fdtab[n] => fdtab'[n] \notin {"listen", "epoll", "client"}
    <3> SUFFICES ASSUME NEW n \in Nums, fdtab'[n] = fdtab[n], fdtab[n] \in {"listen", "epoll", "client"}
                 PROVE  FALSE
      OBVIOUS
    <3>1. n = listenFd \/ (n = epollFd /\ mpc = "closeBoth")
      <4>1. CASE fdtab[n] = "listen"
        BY <2>2, <4>1
      <4>2. CASE fdtab[n] = "epoll"
        BY <2>1, <2>2, <2>3, <4>2
      <4>3. fdtab[n] # "client"
        BY <2>2
      <4> QED BY <4>1, <4>2, <4>3
    <3>2. fdtab'[n] = NULL
      BY <1>2, <3>1
    <3> QED BY <3>2, NumFacts
  <2> QED BY <2>3, <2>4, NumFacts
<1>6. FdTypes'
  BY <1>1, <1>2 DEF FdInv, FdTypes
<1>7. FdOK'
  BY <1>1, <1>4, <1>5, NumFacts DEF FdInv, FdOK
<1>8. OpenOK'
  <2> SUFFICES ASSUME StdOpen PROVE OpenOK'
    BY <1>4 DEF OpenOK
  <2>1. /\ sysFd = NULL \/ (sysFd \in Nums /\ fdtab[sysFd] = "syslog")
        /\ fdtab[listenFd] = "listen" /\ (mpc = "closeBoth" => fdtab[epollFd] = "epoll")
        /\ sysFd = NULL => Free # {}
        /\ \A kind \in {"client", "listen", "epoll", "robot"} : <<"syslog", kind>> \notin marks
    BY <1>1, <1>3 DEF FdInv, OpenOK, HeldPlaces, EpollPlaces
  <2>2. sysFd' = NULL \/ (sysFd' \in Nums /\ fdtab'[sysFd'] = "syslog")
    BY <1>1, <1>2, <2>1, NumFacts
  <2>3. Free \subseteq Free'
    BY <1>5, NumFacts DEF Free
  <2>4. mpc' \notin HeldPlaces \cup EpollPlaces
    BY <1>1 DEF HeldPlaces, EpollPlaces
  <2> QED BY <1>1, <2>1, <2>2, <2>3, <2>4 DEF OpenOK
<1>9. ZeroOK'
  <2> SUFFICES ASSUME StdOpen, ~Marked("gone") PROVE ZeroOK'
    BY <1>4 DEF ZeroOK
  <2>1. ~Listening'
    BY <1>5 DEF Listening
  <2>2. /\ syslogd /\ fdtab[0] \notin {"client", "robot"} /\ (driver # NULL => sysFd # NULL)
        /\ program \in QueueServers => fdtab[0] \in {"std", "syslog"}
    BY <1>1, <1>3 DEF FdInv, ZeroOK
  <2>3. fdtab[listenFd] = "listen" /\ (mpc = "closeBoth" => fdtab[epollFd] = "epoll")
    BY <1>1 DEF FdInv, OpenOK, HeldPlaces, EpollPlaces
  <2>4. fdtab[0] \in {"std", "syslog"} => fdtab'[0] = fdtab[0]
    BY <1>2, <2>3, NumFacts
  <2> QED BY <1>1, <1>5, <2>1, <2>2, <2>4, NumFacts DEF ZeroOK
<1> QED
  BY <1>6, <1>7, <1>8, <1>9 DEF FdInv

\* A client gets the lowest number, which leaves another, and is not 0.
LEMMA AcceptKept ==
  ASSUME FdInv, program # "library", AcceptClient \/ NetAccept
  PROVE  FdInv'
<1>1. /\ \/ mpc = "accept" /\ mpc' = "accepted" /\ lpc[Main] = "idle"
         \/ mpc = "serve" /\ mpc' = "serve"
      /\ Room /\ Listening /\ fdtab' = [fdtab EXCEPT ![Lowest] = "client"]
      /\ UNCHANGED <<program, rpc, listenFd, epollFd, sysFd, syslogd, driver, lpc, marks>>
  BY DEF AcceptClient, NetAccept, MainAt, MainGoto, Quiet, syslogVars, statics, calls, progVars, mainVars
<1>2. PICK a, b \in Nums : a # b /\ fdtab[a] = NULL /\ fdtab[b] = NULL
  BY <1>1, RoomFact
<1>3. /\ Lowest \in Nums /\ fdtab[Lowest] = NULL
      /\ \A n \in Nums : fdtab[n] = NULL => Lowest <= n
  BY <1>2, LowestFact
<1>4. /\ fdtab' \in [Nums -> {"std", "log", "syslog", "app", "client", "listen", "epoll", "robot", NULL}]
      /\ fdtab'[Lowest] = "client"
      /\ \A n \in Nums : fdtab'[n] = fdtab[n] \/ n = Lowest
  BY <1>1, <1>3 DEF FdInv, FdTypes
<1>5. Marked("listenFailed")' = Marked("listenFailed") /\ StdOpen' = StdOpen /\ Marked("gone")' = Marked("gone")
  BY <1>1 DEF Marked, StdOpen
<1>6. FdTypes'
  BY <1>1, <1>4 DEF FdInv, FdTypes
<1>7. FdOK'
  BY <1>1, <1>4, <1>5, NumFacts DEF FdInv, FdOK, HeldPlaces, AcceptPlaces, EpollPlaces
<1>10. Stale => Stale'
  <2> SUFFICES ASSUME Stale PROVE Stale'
    OBVIOUS
  <2>1. /\ sysFd \in Nums \ {0, 1, 2} /\ program \in ThreadServers /\ Below(1) /\ mpc' = "accepted"
    BY <1>1 DEF Stale
  <2>2. \A n \in Nums : n # 0 => fdtab[n] = NULL
    <3>1. \A n \in Nums : n < 1 => n = 0
      <4>1. \A n \in Nat : n < 1 => n = 0
        OBVIOUS
      <4> QED BY <4>1, NumFacts
    <3> QED BY <2>1, <3>1 DEF Below
  <2>3. Lowest = 0 \/ Lowest = 1
    <3>1. fdtab[1] = NULL
      BY <2>2, NumFacts
    <3>2. Lowest \in Nat /\ Lowest <= 1
      BY <1>3, <3>1, NumFacts
    <3> QED BY <3>2
  <2>4. Below(2)'
    <3>1. \A n \in Nums : fdtab'[n] # NULL => n = 0 \/ n = 1
      BY <1>4, <2>2, <2>3
    <3> QED BY <3>1 DEF Below
  <2> QED BY <1>1, <2>1, <2>4 DEF Stale
<1>8. OpenOK'
  <2> SUFFICES ASSUME StdOpen PROVE OpenOK'
    BY <1>5 DEF OpenOK
  <2>1. /\ sysFd = NULL \/ (sysFd \in Nums /\ fdtab[sysFd] = "syslog") \/ Stale
        /\ mpc' = "serve" => /\ listenFd \in Nums /\ fdtab[listenFd] = "listen"
                             /\ epollFd \in Nums /\ fdtab[epollFd] = "epoll"
        /\ \A kind \in {"client", "listen", "epoll", "robot"} : <<"syslog", kind>> \notin marks
    BY <1>1 DEF FdInv, OpenOK, HeldPlaces, EpollPlaces
  <2>2. Free' # {}
    <3>1. fdtab'[a] = NULL \/ fdtab'[b] = NULL
      BY <1>2, <1>4
    <3> QED BY <3>1 DEF Free
  <2>3. sysFd \in Nums /\ fdtab[sysFd] = "syslog" => fdtab'[sysFd] = "syslog"
    BY <1>3, <1>4, NumFacts
  <2>4. Stale => Stale'
    BY <1>10
  <2>5. mpc' \in HeldPlaces \cup EpollPlaces => mpc' = "serve"
    BY <1>1 DEF HeldPlaces, EpollPlaces
  <2>6. mpc' = "serve" => fdtab'[listenFd] = "listen" /\ fdtab'[epollFd] = "epoll"
    BY <1>3, <1>4, <2>1, NumFacts
  <2> QED BY <1>1, <2>1, <2>2, <2>3, <2>4, <2>5, <2>6 DEF OpenOK
<1>9. ZeroOK'
  <2> SUFFICES ASSUME StdOpen, ~Marked("gone") PROVE ZeroOK'
    BY <1>5 DEF ZeroOK
  <2>1. /\ syslogd /\ fdtab[0] \notin {"client", "robot"} /\ fdtab[0] # NULL /\ (driver # NULL => sysFd # NULL)
        /\ program \in QueueServers => fdtab[0] \in {"std", "syslog"} \/ Stale
    BY <1>1 DEF FdInv, ZeroOK
  <2>2. fdtab'[0] = fdtab[0]
    BY <1>3, <1>4, <2>1, NumFacts
  <2> QED BY <1>1, <1>10, <2>1, <2>2 DEF ZeroOK
<1> QED
  BY <1>6, <1>7, <1>8, <1>9 DEF FdInv

\* The robot's port, or the robot, gets the lowest number, too.
LEMMA RobotKept ==
  ASSUME FdInv, program # "library", WorkerStep, Quiet, UNCHANGED marks, Room,
         fdtab' = [fdtab EXCEPT ![Lowest] = "robot"]
  PROVE  FdInv'
<1>1. /\ UNCHANGED <<program, mpc, listenFd, epollFd, sysFd, syslogd, driver, lpc, marks>>
      /\ rpc # "none" /\ rpc' \notin {"none", "socket"}
  BY WorkerSteps DEF Quiet, syslogVars, statics, calls, mainVars
<1>2. program = "robot" /\ program \in QueueServers /\ mpc \notin {"init", "daemon", "workers", "create"} /\ ~Stale
  BY <1>1, NumFacts DEF FdInv, FdOK, QueueServers, Stale
<1>3. PICK a, b \in Nums : a # b /\ fdtab[a] = NULL /\ fdtab[b] = NULL
  BY RoomFact
<1>4. Lowest \in Nums /\ fdtab[Lowest] = NULL
  BY <1>3, LowestFact
<1>5. /\ fdtab' \in [Nums -> {"std", "log", "syslog", "app", "client", "listen", "epoll", "robot", NULL}]
      /\ fdtab'[Lowest] = "robot"
      /\ \A n \in Nums : fdtab'[n] = fdtab[n] \/ n = Lowest
  BY <1>4 DEF FdInv, FdTypes
<1>6. Marked("listenFailed")' = Marked("listenFailed") /\ StdOpen' = StdOpen /\ Marked("gone")' = Marked("gone")
  BY <1>1 DEF Marked, StdOpen
<1>7. FdTypes'
  BY <1>1, <1>5 DEF FdInv, FdTypes
<1>8. FdOK'
  BY <1>1, <1>2, <1>5, <1>6, NumFacts DEF FdInv, FdOK
<1>9. OpenOK'
  <2> SUFFICES ASSUME StdOpen PROVE OpenOK'
    BY <1>6 DEF OpenOK
  <2>1. /\ mpc \in HeldPlaces => listenFd \in Nums /\ fdtab[listenFd] = "listen"
        /\ mpc \in EpollPlaces => epollFd \in Nums /\ fdtab[epollFd] = "epoll"
        /\ sysFd = NULL \/ (sysFd \in Nums /\ fdtab[sysFd] = "syslog")
        /\ \A kind \in {"client", "listen", "epoll", "robot"} : <<"syslog", kind>> \notin marks
    BY <1>2 DEF FdInv, OpenOK
  <2>2. \A n \in Nums : fdtab[n] # NULL => fdtab'[n] = fdtab[n]
    BY <1>4, <1>5
  <2>3. Free' # {}
    <3>1. fdtab'[a] = NULL \/ fdtab'[b] = NULL
      BY <1>3, <1>5
    <3> QED BY <3>1 DEF Free
  <2> QED BY <1>1, <2>1, <2>2, <2>3, NumFacts DEF OpenOK
<1>10. ZeroOK'
  <2> SUFFICES ASSUME StdOpen, ~Marked("gone") PROVE ZeroOK'
    BY <1>6 DEF ZeroOK
  <2>1. syslogd /\ fdtab[0] \in {"std", "syslog"} /\ (driver # NULL => sysFd # NULL)
    BY <1>2 DEF FdInv, ZeroOK
  <2>2. fdtab'[0] = fdtab[0]
    BY <1>4, <1>5, <2>1, NumFacts
  <2> QED BY <1>1, <2>1, <2>2, NumFacts DEF ZeroOK
<1> QED
  BY <1>7, <1>8, <1>9, <1>10 DEF FdInv

\* A client that has gone gives its number back.
LEMMA NetCloseKept ==
  ASSUME FdInv, program # "library", NetClose
  PROVE  FdInv'
<1>1. PICK k \in Nums : fdtab[k] = "client" /\ fdtab' = [fdtab EXCEPT ![k] = NULL]
  BY DEF NetClose
<1>2. mpc = "serve" /\ UNCHANGED <<program, rpc, mpc, listenFd, epollFd, sysFd, syslogd, driver, lpc, marks>>
  BY DEF NetClose, Quiet, syslogVars, statics, calls, progVars, mainVars
<1>3. /\ fdtab' \in [Nums -> {"std", "log", "syslog", "app", "client", "listen", "epoll", "robot", NULL}]
      /\ fdtab'[k] = NULL
      /\ \A n \in Nums : fdtab'[n] = fdtab[n] \/ n = k
  BY <1>1 DEF FdInv, FdTypes
<1>4. Marked("listenFailed")' = Marked("listenFailed") /\ StdOpen' = StdOpen /\ Marked("gone")' = Marked("gone")
  BY <1>2 DEF Marked, StdOpen
<1>5. FdTypes'
  BY <1>2, <1>3 DEF FdInv, FdTypes
<1>6. FdOK'
  BY <1>2, <1>3, <1>4, NumFacts DEF FdInv, FdOK
<1>7. OpenOK'
  <2> SUFFICES ASSUME StdOpen PROVE OpenOK'
    BY <1>4 DEF OpenOK
  <2>1. /\ sysFd = NULL \/ (sysFd \in Nums /\ fdtab[sysFd] = "syslog")
        /\ listenFd \in Nums /\ fdtab[listenFd] = "listen"
        /\ epollFd \in Nums /\ fdtab[epollFd] = "epoll"
        /\ \A kind \in {"client", "listen", "epoll", "robot"} : <<"syslog", kind>> \notin marks
    BY <1>2 DEF FdInv, OpenOK, HeldPlaces, EpollPlaces, Stale
  <2>2. Free' # {}
    BY <1>3 DEF Free
  <2>3. \A n \in Nums : fdtab[n] \in {"syslog", "listen", "epoll"} => fdtab'[n] = fdtab[n]
    BY <1>1, <1>3
  <2> QED BY <1>2, <2>1, <2>2, <2>3 DEF OpenOK
<1>8. ZeroOK'
  <2> SUFFICES ASSUME StdOpen, ~Marked("gone") PROVE ZeroOK'
    BY <1>4 DEF ZeroOK
  <2>1. /\ syslogd /\ fdtab[0] \notin {"client", "robot"} /\ (Listening => fdtab[0] # NULL)
        /\ driver # NULL => sysFd # NULL
        /\ program \in QueueServers => fdtab[0] \in {"std", "syslog"}
    BY <1>2 DEF FdInv, ZeroOK, Stale
  <2>2. fdtab'[0] = fdtab[0] /\ (Listening' => Listening)
    BY <1>1, <1>2, <1>3, <2>1, NumFacts DEF Listening
  <2> QED BY <1>2, <2>1, <2>2 DEF ZeroOK
<1> QED
  BY <1>5, <1>6, <1>7, <1>8 DEF FdInv

\* Every step of a server keeps its numbers apart.
LEMMA ServerFdsKept ==
  ASSUME FdInv, TypeOK, MutexOK, SinkOK, ServerLog, program # "library", [Next]_allVars
  PROVE  FdInv'
<1> DEFINE Same == UNCHANGED <<program, rpc, fdtab, sysFd, listenFd, epollFd>>
           NewMarks == /\ marks \subseteq marks'
                       /\ \A e \in marks' : e \in marks \/ e[1] \in {"reset", "gone", "asked", "early"}
<1>1. ASSUME Same, NewMarks, UNCHANGED <<driver, syslogd>>, Stale => Stale',
             mpc' = mpc \/ <<mpc, mpc'>> \in LogMoves \cup CalmMoves
      PROVE  FdInv'
  BY <1>1, CalmKept DEF RpcMoves
<1>2. lpc \in [Users -> Places]
  BY DEF TypeOK
<1>3. CASE InitLog
  <2>1. mpc = "init" /\ mpc' = "daemon" /\ Same /\ UNCHANGED <<driver, syslogd>>
    BY <1>3 DEF InitLog, MainAt, MainGoto, LogInit, statics, syslogVars
  <2>2. NewMarks
    BY <1>3 DEF InitLog, LogInit, Mark
  <2> QED BY <1>1, <2>1, <2>2 DEF Stale, CalmMoves
<1>4. ASSUME NEW t \in Users, LogPrint(t)
      PROVE  /\ UNCHANGED <<fdtab, sysFd, driver, syslogd>> /\ NewMarks
             /\ lpc[t] = "idle" /\ (isInit => lpc' = [lpc EXCEPT ![t] = "send"])
             /\ \E l : lpc' = [lpc EXCEPT ![t] = l]
  <2>1. UNCHANGED <<fdtab, sysFd, driver, syslogd>> /\ lpc[t] = "idle"
    BY <1>4 DEF LogPrint, statics, syslogVars
  <2>2. NewMarks
    BY <1>4 DEF LogPrint, Mark
  <2>3. isInit => lpc' = [lpc EXCEPT ![t] = "send"]
    BY <1>4 DEF LogPrint, Goto
  <2>4. ~isInit => lpc' = [lpc EXCEPT ![t] = "once"]
    BY <1>4 DEF LogPrint, Goto
  <2> QED BY <2>1, <2>2, <2>3, <2>4
<1>5. CASE MainLogs
  <2>1. LogPrint(Main) /\ <<mpc, mpc'>> \in LogMoves /\ UNCHANGED <<program, listenFd, epollFd, rpc>>
    BY <1>5 DEF MainLogs
  <2>2. Same /\ UNCHANGED <<driver, syslogd>> /\ NewMarks /\ lpc[Main] = "idle"
    BY <1>4, <2>1, NumFacts
  <2>3. Stale => lpc'[Main] = "send"
    <3>1. Stale => mpc \notin {"init", "daemon"}
      BY DEF Stale
    <3>2. Stale => isInit
      BY <3>1, ServerFacts DEF ServerLog
    <3> QED BY <1>2, <1>4, <2>1, <3>2, NumFacts
  <2>4. Stale => Stale'
    <3> SUFFICES ASSUME Stale PROVE Stale'
      OBVIOUS
    <3>1. \A k \in {0, 1, 2} : Below(k)' <=> Below(k)
      BY <2>2 DEF Below
    <3>2. UNCHANGED <<sysFd, program>>
      BY <2>2
    <3> QED BY <2>1, <2>2, <2>3, <3>1, <3>2 DEF Stale, LogMoves
  <2> QED BY <1>1, <2>1, <2>2, <2>4
<1>6. CASE OtherLogs
  <2>1. LogPrint(Other) /\ UNCHANGED progVars
    BY <1>6 DEF OtherLogs
  <2>2. Same /\ UNCHANGED <<driver, syslogd, mpc>> /\ NewMarks
    BY <1>4, <2>1, NumFacts DEF progVars, mainVars
  <2>3. lpc'[Main] = lpc[Main]
    BY <1>2, <1>4, <2>1, NumFacts
  <2> QED BY <1>1, <2>2, <2>3 DEF Stale, Below
<1>7. CASE SyslogdToggles
  <2>1. Same /\ UNCHANGED <<driver, lpc, mpc>>
    BY <1>7 DEF SyslogdToggles, statics, calls, progVars, mainVars
  <2>2. NewMarks /\ Marked("gone")'
    <3>1. marks' = marks \cup {<<"gone", NULL>>}
      BY <1>7 DEF SyslogdToggles, Mark
    <3>2. NewMarks
      BY <3>1
    <3>3. <<"gone", NULL>> \in marks'
      BY <3>1
    <3> QED BY <3>2, <3>3 DEF Marked
  <2>3. Stale => Stale'
    BY <2>1 DEF Stale, Below
  <2> QED BY <2>1, <2>2, <2>3, CalmKept DEF RpcMoves
<1>8. CASE Register \/ Stop \/ AcceptError
  <2>1. /\ Same /\ UNCHANGED <<driver, syslogd, lpc, marks>> /\ lpc[Main] = "idle"
        /\ mpc' = mpc \/ <<mpc, mpc'>> \in CalmMoves
        /\ mpc = "register" \/ mpc = "stop" \/ (mpc = "accept" /\ mpc' = "accepted")
    BY <1>8 DEF Register, Stop, AcceptError, Quiet, MainAt, MainGoto, statics, syslogVars, calls, CalmMoves
  <2>2. Stale => Stale'
    <3>1. Below(1) => Below(2)'
      <4>1. \A n \in Nums : n < 1 => n < 2
        BY NumFacts
      <4> QED BY <2>1, <4>1 DEF Below
    <3> QED BY <2>1, <3>1 DEF Stale
  <2> QED BY <1>1, <2>1, <2>2
<1>11. CASE CreateWorkers
  <2>1. /\ UNCHANGED <<program, fdtab, sysFd, listenFd, epollFd, driver, syslogd, marks>>
        /\ mpc = "create" /\ mpc' = "listen" /\ lpc[Main] = "idle"
    BY <1>11 DEF CreateWorkers, Quiet, MainAt, MainGoto, statics, syslogVars
  <2>2. RpcMoves
    <3>1. rpc = "none"
      BY <2>1 DEF FdInv, FdOK
    <3> QED BY <1>11, <2>1, <3>1 DEF CreateWorkers, RpcMoves
  <2>3. ~Stale /\ <<mpc, mpc'>> \in CalmMoves
    BY <2>1 DEF Stale, CalmMoves
  <2> QED BY <2>1, <2>2, <2>3, CalmKept
<1>12. CASE WorkerStep
  <2>1. UNCHANGED <<program, mpc, listenFd, epollFd>> /\ rpc # "none" /\ RpcMoves
    BY <1>12, WorkerSteps DEF mainVars, RpcMoves
  <2>2. ~Stale
    BY <2>1, NumFacts DEF FdInv, FdOK, Stale, QueueServers
  <2>3. CASE LogPrint(Other)
    <3>1. UNCHANGED <<fdtab, sysFd, driver, syslogd>> /\ NewMarks
      BY <1>4, <2>3, NumFacts
    <3> QED BY <2>1, <2>2, <3>1, CalmKept
  <2>4. CASE Quiet /\ UNCHANGED <<marks, fdtab>>
    <3>1. UNCHANGED <<sysFd, driver, syslogd>>
      BY <2>4 DEF Quiet, statics, syslogVars
    <3> QED BY <2>1, <2>2, <2>4, <3>1, CalmKept
  <2>5. CASE Quiet /\ UNCHANGED marks /\ Room /\ fdtab' = [fdtab EXCEPT ![Lowest] = "robot"]
    BY <1>12, <2>5, RobotKept
  <2> QED BY <1>12, <2>3, <2>4, <2>5, WorkerSteps
<1>9. CASE UNCHANGED allVars
  <2>1. Same /\ UNCHANGED <<driver, syslogd, lpc, marks, mpc>>
    BY <1>9 DEF allVars, logVars, progVars, mainVars, statics, syslogVars, calls
  <2> QED BY <1>1, <2>1 DEF Stale, Below
<1>10. ASSUME NEW t \in Users, LogStep(t), UNCHANGED progVars PROVE FdInv'
  <2>1. CASE Configure(t)
    BY <1>10, <2>1, ConfigureKept
  <2>2. CASE Send(t)
    BY <1>10, <2>2, SendKept
  <2>3. CASE ~Configure(t) /\ ~Send(t)
    <3>1. UNCHANGED <<sysFd, driver, syslogd, program, rpc, mpc, listenFd, epollFd>>
      BY <1>10, <2>3 DEF LogStep, OnceEnter, MutexInit, Lock, Split, Write, Unlock, DeinitDone,
         statics, syslogVars, progVars, mainVars
    <3>2. lpc[t] # "send" /\ lpc' \in [Users -> Places \cup {"send", then[t]}] /\ \A u \in Users : u # t => lpc'[u] = lpc[u]
      BY <1>2, <1>10, <2>3 DEF LogStep, OnceEnter, MutexInit, Lock, Split, Write, Unlock, DeinitDone, Goto, Places
    <3>3. ~(lpc[t] = "write") /\ (lpc[t] = "locked" => logSyslog)
      BY ServerFacts DEF ServerLog, LinePlaces
    <3>4. UNCHANGED fdtab /\ NewMarks
      <4>1. CASE OnceEnter(t) \/ Lock(t) \/ Unlock(t) \/ DeinitDone(t)
        BY <4>1 DEF OnceEnter, Lock, Unlock, DeinitDone
      <4>2. CASE MutexInit(t)
        BY <4>2 DEF MutexInit, Mark
      <4>3. CASE Split(t)
        BY <3>3, <4>3 DEF Split
      <4>4. CASE Write(t)
        BY <3>3, <4>4 DEF Write
      <4> QED BY <1>10, <2>3, <4>1, <4>2, <4>3, <4>4 DEF LogStep
    <3>5. lpc[Main] = "send" => lpc'[Main] = "send"
      BY <3>2, NumFacts
    <3>6. Stale => Stale'
      BY <3>1, <3>4, <3>5 DEF Stale, Below
    <3> QED BY <1>1, <3>1, <3>4, <3>6
  <2> QED BY <2>1, <2>2, <2>3
<1> QED
  BY <1>3, <1>5, <1>6, <1>7, <1>8, <1>9, <1>10, <1>11, <1>12, ServerSteps, DaemonKept, ListenKept, EpollKept, CloseKept,
     AcceptKept, NetCloseKept

-------------------------------------------------------------------------------
(* Other users of the log *)

Foreign == {"app", "client", "listen", "epoll", "robot"}

\* Before log_init_once has chosen a driver.
Fresh == once = "new" \/ \E t \in Users : lpc[t] = "configure"

\* The number kept for the log may be another's: log_deinit was called, or a split could not
\* open the file again.
Spoilt == Marked("deinit") \/ Marked("reopenFailed")

\* Then the log no longer goes to syslog: nothing can be initialised again.
LibAlways ==
  /\ syslogd /\ sysFd \in Nums \cup {NULL}
  /\ \A kind \in {"client", "listen", "epoll", "robot"} : <<"syslog", kind>> \notin marks
  /\ Spoilt => ~logSyslog
  /\ \A t \in Runners : once = "running"
  /\ \A t, u \in Runners : t = u
  /\ Fresh => ~Spoilt /\ driver = NULL /\ ~isInit

\* Until then, the number kept for the log is the log's.
Opened ==
  /\ (isInit <=> driver # NULL) /\ (logSyslog <=> driver = "rsyslog")
  /\ \A t \in Users : lpc[t] \in LinePlaces => once = "done" \/ isInit
  /\ \A n \in Nums : fdtab[n] = "std" <=> n \in {0, 1, 2}
  /\ \A n, k \in Nums : fdtab[n] = "app" /\ fdtab[k] = "app" => n = k
  /\ driver \in {NULL, "stderr", "file", "rsyslog"}
  /\ driver = NULL => sysFd = NULL /\ logFd = 0 /\ \A n \in Nums : fdtab[n] \notin {"log", "syslog"}
  /\ driver = "stderr" => logFd = 2
  /\ driver = "file" => logFd = 2 \/ (logFd \in Nums /\ fdtab[logFd] = "log")
  /\ driver = "rsyslog" => logFd = 0 /\ sysFd \in Nums /\ fdtab[sysFd] = "syslog"
  /\ current # {} => driver = "file" /\ logFd \in Nums /\ fdtab[logFd] = "log"
  /\ (\E kind \in Foreign : <<"write", kind>> \in marks) => once = "done" /\ driver = NULL

LibOK == program = "library" => LibAlways /\ (~Spoilt => Opened)

\* What a user of the library does, of everything that Next allows.
LEMMA LibSteps ==
  ASSUME FdTypes, [Next]_allVars, program = "library"
  PROVE  /\ UNCHANGED progVars
         /\ LibraryUse \/ (\E t \in Users : LogStep(t)) \/ UNCHANGED allVars
<1>1. mpc = "init" /\ rpc = "none" /\ \A n \in Nums : fdtab[n] # "client"
  BY DEF FdTypes
<1>2. ~ServerStep
  BY <1>1 DEF ServerStep, InitLog, InitDaemon, StartWorkers, CreateWorkers, Listen, BindFailed, EpollFailed, AddFailed,
     Failed, CloseListen, CloseBoth, CreateEpoll, Announce, Register, Stop, AcceptClient, AcceptError, Accepted, Status, MainAt
<1>3. ~(WorkerStep \/ NetAccept \/ NetClose \/ OtherLogs \/ SyslogdToggles)
  BY <1>1, WorkerSteps DEF NetAccept, NetClose, OtherLogs, SyslogdToggles
<1>4. CASE UNCHANGED allVars
  BY <1>4 DEF allVars, progVars, mainVars
<1>5. CASE LibraryUse
  BY <1>5 DEF LibraryUse
<1> QED
  BY <1>2, <1>3, <1>4, <1>5 DEF Next

\* Steps that leave the numbers and the driver as they are.
LEMMA LibCalm ==
  ASSUME LibOK, FdTypes, program = "library", UNCHANGED progVars,
         UNCHANGED <<fdtab, sysFd, syslogd, driver, logSyslog, logFd, once>>,
         isInit' = isInit \/ (Marked("deinit") /\ ~isInit'),
         \A t \in Users : lpc'[t] \in {"configure", "mutex"} => lpc'[t] = lpc[t],
         \A t \in Users : lpc'[t] \in LinePlaces => lpc[t] \in LinePlaces \/ once = "done" \/ isInit,
         marks \subseteq marks',
         \A e \in marks' : e \in marks \/ e[1] \in {"early", "asked", "rotated", "samems", "reset", "write", "renameFailed"},
         ~Spoilt =>
           /\ current' # {} => current # {} \/ (driver = "file" /\ logFd \in Nums /\ fdtab[logFd] = "log")
           /\ \A kind \in Foreign : <<"write", kind>> \in marks' =>
                <<"write", kind>> \in marks \/ (once = "done" /\ driver = NULL)
  PROVE  FdTypes' /\ LibOK'
<1>1. FdTypes' /\ program' = "library"
  BY DEF FdTypes, progVars, mainVars
<1>2. /\ LibAlways
      /\ ~Spoilt => Opened
  BY DEF LibOK
<1>3. /\ Spoilt' <=> Spoilt
      /\ \A kind : <<"syslog", kind>> \in marks' => <<"syslog", kind>> \in marks
  BY DEF Marked, Spoilt
<1>4. Runners' \subseteq Runners /\ (Fresh' => Fresh)
  BY DEF Runners, Fresh
<1>5. LibAlways'
  BY <1>2, <1>3, <1>4 DEF LibAlways
<1>6. ~Spoilt' => Opened'
  <2> SUFFICES ASSUME ~Spoilt PROVE Opened'
    BY <1>3
  <2>1. Opened /\ isInit' = isInit
    BY <1>2 DEF Spoilt
  <2> QED BY <2>1 DEF Opened
<1> QED
  BY <1>1, <1>5, <1>6 DEF LibOK

\* log_init_once chooses the driver, and finds a number for the file or the socket.
LEMMA LibConfigure ==
  ASSUME LibOK, FdTypes, TypeOK, program = "library", UNCHANGED progVars, NEW t \in Users, Configure(t)
  PROVE  FdTypes' /\ LibOK'
<1>1. lpc[t] = "configure" /\ lpc \in [Users -> Places] /\ then[t] \in {"idle", "send"}
  BY DEF Configure, TypeOK
<1>2. /\ LibAlways /\ Opened /\ ~Spoilt /\ driver = NULL /\ ~isInit
      /\ once = "running" /\ \A u \in Runners : u = t
  <2>1. t \in Runners /\ Fresh /\ LibAlways
    BY <1>1 DEF Runners, Fresh, LibOK
  <2> QED BY <2>1 DEF LibOK, LibAlways
<1>3. /\ UNCHANGED <<syslogd, current>>
      /\ once' = IF driver' = NULL THEN "done" ELSE once
      /\ \A u \in Users : lpc'[u] = IF u # t THEN lpc[u] ELSE IF driver' = NULL THEN then[t] ELSE "mutex"
  BY <1>1 DEF Configure, Goto
<1>13. /\ \A e \in marks' : e \in marks \/ e[1] = "openFailed"
       /\ marks \subseteq marks'
  BY DEF Configure, InitStderr, InitFile, InitSyslog, Mark
<1>14. \A what \in {"write", "syslog"} : \A kind : <<what, kind>> \in marks' => <<what, kind>> \in marks
  BY <1>13
<1>12. isInit' <=> driver' # NULL
  BY DEF Configure
<1>4. /\ sysFd = NULL /\ logFd = 0 /\ ~logSyslog /\ current = {}
      /\ \A kind \in Foreign : <<"write", kind>> \notin marks
      /\ \A u \in Users : lpc[u] \notin LinePlaces
      /\ \A n \in Nums : fdtab[n] = "std" <=> n \in {0, 1, 2}
      /\ \A n, k \in Nums : fdtab[n] = "app" /\ fdtab[k] = "app" => n = k
      /\ \A n \in Nums : fdtab[n] \notin {"log", "syslog"}
  BY <1>2, LogAssumption DEF Opened
<1>5. Lowest \in Nums /\ fdtab[Lowest] = NULL
  <2>1. fdtab[3] \in {"app", NULL} /\ fdtab[4] \in {"app", NULL}
    BY <1>4, NumFacts DEF FdTypes
  <2>2. fdtab[3] = NULL \/ fdtab[4] = NULL
    BY <1>4, <2>1, NumFacts
  <2> QED BY <2>2, LowestFact, NumFacts
<1>6. \/ driver' = "stderr" /\ logFd' = 2 /\ UNCHANGED <<logSyslog, fdtab, sysFd>>
      \/ driver' = "file" /\ logFd' = 2 /\ UNCHANGED <<logSyslog, fdtab, sysFd>>
      \/ driver' = "file" /\ logFd' = Lowest /\ fdtab' = [fdtab EXCEPT ![Lowest] = "log"] /\ UNCHANGED <<logSyslog, sysFd>>
      \/ /\ driver' = "rsyslog" /\ logSyslog' /\ sysFd' = Lowest /\ fdtab' = [fdtab EXCEPT ![Lowest] = "syslog"]
         /\ UNCHANGED logFd
      \/ driver' = NULL /\ UNCHANGED <<logFd, logSyslog, fdtab, sysFd>>
  <2>1. syslogd
    BY <1>2 DEF LibAlways
  <2> QED BY <1>2, <2>1 DEF Configure, InitStderr, InitFile, InitSyslog, OpenSyslog
<1>7. /\ fdtab' \in [Nums -> {"std", "log", "syslog", "app", "client", "listen", "epoll", "robot", NULL}]
      /\ \A n \in Nums : fdtab'[n] = fdtab[n] \/ (n = Lowest /\ fdtab'[n] \in {"log", "syslog"})
  BY <1>5, <1>6 DEF FdTypes
<1>8. FdTypes' /\ program' = "library"
  BY <1>7 DEF FdTypes, progVars, mainVars
<1>9. Spoilt' <=> Spoilt
  BY <1>13 DEF Marked, Spoilt
<1>10. LibAlways'
  <2>1. sysFd' \in Nums \cup {NULL}
    BY <1>4, <1>5, <1>6
  <2>2. \A u \in Users : lpc'[u] \in {"configure", "mutex"} => u = t /\ driver' # NULL /\ lpc'[u] = "mutex"
    BY <1>1, <1>2, <1>3 DEF Runners
  <2>4. \A u \in Runners' : u = t /\ driver' # NULL
    BY <2>2 DEF Runners
  <2>3. ~Fresh'
    <3>1. \A u \in Users : lpc'[u] # "configure"
      BY <2>2
    <3>2. once' # "new"
      BY <1>2, <1>3
    <3> QED BY <3>1, <3>2 DEF Fresh
  <2>5. \A u \in Runners' : once' = "running"
    BY <1>2, <1>3, <2>4
  <2>6. syslogd' /\ ~Spoilt' /\ \A kind \in {"client", "listen", "epoll", "robot"} : <<"syslog", kind>> \notin marks'
    BY <1>2, <1>3, <1>9, <1>14 DEF LibAlways
  <2> QED BY <2>1, <2>3, <2>4, <2>5, <2>6 DEF LibAlways
<1>11. Opened'
  <2>1. logSyslog' <=> driver' = "rsyslog"
    BY <1>4, <1>6, LogAssumption
  <2>2. \A u \in Users : lpc'[u] \in LinePlaces => once' = "done"
    BY <1>1, <1>3, <1>4 DEF LinePlaces
  <2>3. \A n \in Nums : fdtab'[n] = "std" <=> n \in {0, 1, 2}
    BY <1>4, <1>5, <1>7, NumFacts
  <2>4. \A n, k \in Nums : fdtab'[n] = "app" /\ fdtab'[k] = "app" => n = k
    BY <1>4, <1>7
  <2>5. /\ driver' \in {NULL, "stderr", "file", "rsyslog"}
        /\ driver' = NULL => sysFd' = NULL /\ logFd' = 0 /\ \A n \in Nums : fdtab'[n] \notin {"log", "syslog"}
        /\ driver' = "stderr" => logFd' = 2
    BY <1>4, <1>6, LogAssumption
  <2>6. /\ driver' = "file" => logFd' = 2 \/ (logFd' \in Nums /\ fdtab'[logFd'] = "log")
        /\ driver' = "rsyslog" => logFd' = 0 /\ sysFd' \in Nums /\ fdtab'[sysFd'] = "syslog"
    BY <1>4, <1>5, <1>6, LogAssumption DEF FdTypes
  <2> QED BY <1>3, <1>4, <1>12, <1>14, <2>1, <2>2, <2>3, <2>4, <2>5, <2>6 DEF Opened
<1> QED
  BY <1>8, <1>10, <1>11 DEF LibOK

\* pthread_once lets one thread in, and it makes the mutex at the end.
LEMMA LibOnce ==
  ASSUME LibOK, FdTypes, TypeOK, program = "library", UNCHANGED progVars, NEW t \in Users,
         OnceEnter(t) \/ MutexInit(t)
  PROVE  FdTypes' /\ LibOK'
<1>1. lpc \in [Users -> Places] /\ then[t] \in {"idle", "send"} /\ lpc[t] \in {"once", "mutex"}
  BY DEF OnceEnter, MutexInit, TypeOK
<1>2. /\ LibAlways
      /\ ~Spoilt => Opened
  BY DEF LibOK
<1>3. /\ UNCHANGED <<isInit, driver, logSyslog, logFd, fdtab, sysFd, syslogd, current>>
      /\ marks \subseteq marks' /\ \A e \in marks' : e \in marks \/ e[1] = "reset"
  BY DEF OnceEnter, MutexInit, statics, syslogVars, files, Mark
<1>4. /\ Spoilt' <=> Spoilt
      /\ \A kind : <<"syslog", kind>> \in marks' => <<"syslog", kind>> \in marks
      /\ \A kind : <<"write", kind>> \in marks' => <<"write", kind>> \in marks
  BY <1>3 DEF Marked, Spoilt
<1>5. FdTypes' /\ program' = "library"
  BY <1>3 DEF FdTypes, progVars, mainVars
<1>6. CASE lpc[t] = "once" /\ once = "done"
  <2>1. UNCHANGED once /\ lpc' = [lpc EXCEPT ![t] = then[t]]
    BY <1>6 DEF OnceEnter, MutexInit, Goto
  <2>2. \A u \in Users : /\ lpc'[u] \in {"configure", "mutex"} => lpc'[u] = lpc[u]
                         /\ lpc'[u] \in LinePlaces => lpc[u] \in LinePlaces \/ once = "done" \/ isInit
    BY <1>1, <1>6, <2>1
  <2> QED BY <1>3, <1>4, <2>1, <2>2, LibCalm
<1>7. CASE lpc[t] = "once" /\ once # "done"
  <2>1. once = "new" /\ once' = "running" /\ lpc' = [lpc EXCEPT ![t] = "configure"]
    BY <1>7 DEF OnceEnter, MutexInit, Goto
  <2>2. Fresh /\ ~Spoilt /\ driver = NULL /\ ~isInit /\ Opened /\ \A u \in Users : u \notin Runners
    BY <1>2, <2>1 DEF Fresh, LibAlways, Runners
  <2>3. \A u \in Runners' : u = t
    BY <1>1, <2>1, <2>2 DEF Runners
  <2>4. LibAlways'
    BY <1>2, <1>3, <1>4, <2>1, <2>2, <2>3 DEF LibAlways
  <2>5. \A u \in Users : lpc'[u] \notin LinePlaces
    BY <1>1, <2>1, <2>2 DEF Opened, LinePlaces
  <2>6. Opened'
    BY <1>3, <1>4, <2>1, <2>2, <2>5 DEF Opened
  <2> QED BY <1>5, <2>4, <2>6 DEF LibOK
<1>8. CASE lpc[t] = "mutex"
  <2>1. once' = "done" /\ lpc' = [lpc EXCEPT ![t] = then[t]]
    BY <1>8 DEF OnceEnter, MutexInit, Goto
  <2>2. t \in Runners /\ \A u \in Runners : u = t
    BY <1>2, <1>8 DEF Runners, LibAlways
  <2>3. \A u \in Users : lpc'[u] \notin {"configure", "mutex"}
    BY <1>1, <2>1, <2>2 DEF Runners
  <2>4. Runners' = {} /\ ~Fresh'
    BY <2>1, <2>3 DEF Runners, Fresh
  <2>5. LibAlways'
    BY <1>2, <1>3, <1>4, <2>4 DEF LibAlways
  <2>6. once # "done"
    BY <1>2, <2>2 DEF LibAlways
  <2>7. ~Spoilt => Opened'
    BY <1>2, <1>3, <1>4, <2>1, <2>6 DEF Opened
  <2> QED BY <1>4, <1>5, <2>5, <2>7 DEF LibOK
<1> QED
  BY <1>1, <1>6, <1>7, <1>8

\* A file that is split gets a number again.
LEMMA LibSplit ==
  ASSUME LibOK, FdTypes, TypeOK, program = "library", UNCHANGED progVars, NEW t \in Users, Split(t)
  PROVE  FdTypes' /\ LibOK'
<1>1. lpc \in [Users -> Places] /\ lpc[t] = "locked" /\ splitSize \in Nat
  BY DEF Split, TypeOK
<1>2. /\ LibAlways
      /\ ~Spoilt => Opened
  BY DEF LibOK
<1>3. /\ UNCHANGED <<once, isInit, driver, logSyslog, sysFd, syslogd>>
      /\ lpc' = [lpc EXCEPT ![t] = IF logSyslog THEN "unlock" ELSE "write"]
  <2>1. UNCHANGED <<once, isInit, driver, logSyslog, sysFd, syslogd>>
    BY DEF Split, start, syslogVars
  <2> QED BY <2>1 DEF Split, Goto
<1>4. \A u \in Users : /\ lpc'[u] \in {"configure", "mutex"} => lpc'[u] = lpc[u]
                       /\ lpc[u] \in {"configure", "mutex"} => lpc'[u] = lpc[u]
                       /\ lpc'[u] \in LinePlaces => lpc[u] \in LinePlaces
  BY <1>1, <1>3 DEF LinePlaces
<1>5. /\ Spoilt => Spoilt'
      /\ \A what \in {"write", "syslog"} : \A kind : <<what, kind>> \in marks' => <<what, kind>> \in marks
  BY SplitMarks DEF Marked, Spoilt
<1>6. CASE logSyslog \/ ~(Cardinality(current) > splitSize)
  <2>1. UNCHANGED <<fdtab, logFd, current, marks>>
    BY <1>6 DEF Split
  <2> QED BY <1>3, <1>4, <2>1, LibCalm
<1>7. CASE ~logSyslog /\ Cardinality(current) > splitSize
  <2> DEFINE closed == [fdtab EXCEPT ![logFd] = NULL]
             S == {n \in Nums : closed[n] = NULL}
             low == Min(S)
  <2>1. PICK opened \in BOOLEAN :
          /\ fdtab' = IF opened THEN [closed EXCEPT ![low] = "log"] ELSE closed
          /\ logFd' = IF opened THEN low ELSE 2
          /\ ~opened => <<"reopenFailed", NULL>> \in marks'
    BY <1>7 DEF Split, Mark
  <2>2. current # {}
    <3>1. Cardinality({}) = 0
      BY FS_EmptySet
    <3> QED BY <1>1, <1>7, <3>1
  <2>3. FdTypes' /\ program' = "library"
    <3>1. closed \in [Nums -> {"std", "log", "syslog", "app", "client", "listen", "epoll", "robot", NULL}]
      BY DEF FdTypes
    <3>2. \A n \in Nums : closed[n] = fdtab[n] \/ closed[n] = NULL
      BY DEF FdTypes
    <3> HIDE DEF closed, low
    <3>3. /\ fdtab' \in [Nums -> {"std", "log", "syslog", "app", "client", "listen", "epoll", "robot", NULL}]
          /\ \A n \in Nums : fdtab'[n] = closed[n] \/ fdtab'[n] = "log"
      BY <2>1, <3>1
    <3> QED BY <3>2, <3>3, NumFacts DEF FdTypes, progVars, mainVars
  <2>4. LibAlways'
    <3>1. Runners' = Runners /\ (Fresh' => Fresh)
      BY <1>3, <1>4 DEF Runners, Fresh
    <3>2. ASSUME Fresh PROVE FALSE
      <4>1. ~Spoilt /\ ~isInit /\ Opened
        BY <1>2, <3>2 DEF LibAlways
      <4>2. once = "done"
        BY <1>1, <4>1 DEF Opened, LinePlaces
      <4>3. PICK u \in Users : lpc[u] = "configure"
        BY <3>2, <4>2 DEF Fresh
      <4>4. once = "running"
        BY <1>2, <4>3 DEF LibAlways, Runners
      <4> QED BY <4>2, <4>4
    <3> QED BY <1>2, <1>3, <1>5, <1>7, <3>1, <3>2 DEF LibAlways
  <2>5. ASSUME ~Spoilt' PROVE Opened'
    <3>1. Opened /\ driver = "file" /\ logFd \in Nums /\ fdtab[logFd] = "log"
      BY <1>2, <1>5, <2>2, <2>5 DEF Opened
    <3>10. opened
      <4>1. ~opened => Spoilt'
        BY <2>1 DEF Spoilt, Marked
      <4> QED BY <2>5, <4>1
    <3>2. \A n \in Nums : closed[n] = IF n = logFd THEN NULL ELSE fdtab[n]
      BY DEF FdTypes
    <3>3. low \in Nums /\ closed[low] = NULL
      <4>1. S \in SUBSET Nat /\ S # {}
        BY <3>1, <3>2, NumFacts
      <4> HIDE DEF S
      <4>2. low \in S
        BY <4>1, MinFact
      <4> QED BY <4>2 DEF S
    <3>4. closed \in [Nums -> {"std", "log", "syslog", "app", "client", "listen", "epoll", "robot", NULL}]
      BY DEF FdTypes
    <3> HIDE DEF closed, low
    <3>5. \A n \in Nums : fdtab'[n] = IF n = low THEN "log" ELSE closed[n]
      BY <2>1, <3>4, <3>10
    <3>6. \A n \in Nums : \/ fdtab'[n] = fdtab[n]
                          \/ fdtab[n] = "log" /\ fdtab'[n] = NULL
                          \/ fdtab[n] \in {NULL, "log"} /\ fdtab'[n] = "log"
      BY <3>1, <3>2, <3>3, <3>5
    <3>7. /\ \A n \in Nums : fdtab'[n] = "std" <=> n \in {0, 1, 2}
          /\ \A n, k \in Nums : fdtab'[n] = "app" /\ fdtab'[k] = "app" => n = k
      BY <3>1, <3>6, NumFacts DEF Opened
    <3>8. logFd' \in Nums /\ fdtab'[logFd'] = "log"
      BY <2>1, <3>3, <3>5, <3>10
    <3>9. driver # NULL /\ driver # "stderr" /\ driver # "rsyslog"
      BY <3>1, LogAssumption
    <3> QED BY <1>3, <1>4, <1>5, <3>1, <3>7, <3>8, <3>9 DEF Opened
  <2> QED BY <2>3, <2>4, <2>5 DEF LibOK
<1> QED
  BY <1>6, <1>7

\* A file of the program's own takes a free number.
LEMMA LibAppOpen ==
  ASSUME LibOK, FdTypes, program = "library", UNCHANGED progVars, AppOpen
  PROVE  FdTypes' /\ LibOK'
<1>1. /\ LibAlways
      /\ ~Spoilt => Opened
  BY DEF LibOK
<1>2. /\ UNCHANGED <<once, isInit, driver, logSyslog, logFd, lpc, sysFd, syslogd, current, marks>>
      /\ \A n \in Nums : fdtab[n] # "app"
      /\ fdtab' = [fdtab EXCEPT ![Lowest] = "app"]
  BY DEF AppOpen, Quiet, start, statics, calls, syslogVars, files
<1>3. Lowest \in Nums /\ fdtab[Lowest] = NULL
  <2>1. IsFiniteSet(Free)
    <3>1. Free \subseteq Nums
      BY DEF Free
    <3> QED BY <3>1, NumFacts, FS_Subset
  <2>2. Cardinality(Free) \in Nat
    BY <2>1, FS_CardinalityType
  <2>3. Room
    BY <2>2 DEF AppOpen, Room
  <2>4. PICK a \in Nums : fdtab[a] = NULL
    BY <2>3, RoomFact
  <2> QED BY <2>4, LowestFact
<1>4. \A n \in Nums : fdtab'[n] = IF n = Lowest THEN "app" ELSE fdtab[n]
  BY <1>2 DEF FdTypes
<1>5. FdTypes' /\ program' = "library"
  <2>1. fdtab' \in [Nums -> {"std", "log", "syslog", "app", "client", "listen", "epoll", "robot", NULL}]
    BY <1>2 DEF FdTypes
  <2> QED BY <1>4, <2>1 DEF FdTypes, progVars, mainVars
<1>6. Spoilt' <=> Spoilt
  BY <1>2 DEF Marked, Spoilt
<1>7. LibAlways'
  BY <1>1, <1>2, <1>6 DEF LibAlways, Fresh, Runners
<1>8. ASSUME ~Spoilt PROVE Opened'
  <2>1. Opened
    BY <1>1, <1>8
  <2>2. /\ \A n \in Nums : fdtab'[n] = "std" <=> fdtab[n] = "std"
        /\ \A n \in Nums : fdtab'[n] = "log" <=> fdtab[n] = "log"
        /\ \A n \in Nums : fdtab'[n] = "syslog" <=> fdtab[n] = "syslog"
        /\ \A n \in Nums : fdtab'[n] = "app" => n = Lowest
    BY <1>2, <1>3, <1>4, NumFacts
  <2> HIDE DEF Lowest
  <2> QED BY <1>2, <2>1, <2>2 DEF Opened
<1> QED
  BY <1>5, <1>6, <1>7, <1>8 DEF LibOK

\* log_deinit closes syslog's socket, or the number that was the file's.
LEMMA LibDeinit ==
  ASSUME LibOK, FdTypes, TypeOK, MutexOK, program = "library", UNCHANGED progVars, LogDeinit(Main)
  PROVE  FdTypes' /\ LibOK'
<1>1. /\ LibAlways
      /\ lpc \in [Users -> Places]
  BY DEF LibOK, TypeOK
<1>2. /\ UNCHANGED <<once, isInit, syslogd>> /\ isInit
      /\ ~logSyslog' /\ marks' = marks \cup {<<"deinit", NULL>>}
      /\ lpc' = [lpc EXCEPT ![Main] = "deinit"]
      /\ sysFd' = IF driver = "rsyslog" THEN NULL ELSE sysFd
  BY DEF LogDeinit, start, Mark, Goto
<1>3. ~Fresh
  BY <1>1, <1>2 DEF LibAlways
<1>4. FdTypes' /\ program' = "library"
  <2>1. \/ fdtab' = fdtab \/ fdtab' = [fdtab EXCEPT ![logFd] = NULL] \/ fdtab' = [fdtab EXCEPT ![sysFd] = NULL]
    BY DEF LogDeinit
  <2>2. \A k : /\ [fdtab EXCEPT ![k] = NULL] \in [Nums -> {"std", "log", "syslog", "app", "client", "listen", "epoll", "robot", NULL}]
               /\ \A n \in Nums : [fdtab EXCEPT ![k] = NULL][n] \in {fdtab[n], NULL}
    BY DEF FdTypes
  <2>3. /\ fdtab' \in [Nums -> {"std", "log", "syslog", "app", "client", "listen", "epoll", "robot", NULL}]
        /\ \A n \in Nums : fdtab'[n] \in {fdtab[n], NULL}
    BY <2>1, <2>2 DEF FdTypes
  <2> QED BY <2>3, NumFacts DEF FdTypes, progVars, mainVars
<1>5. Spoilt'
  <2>1. <<"deinit", NULL>> \in marks'
    BY <1>2
  <2> QED BY <2>1 DEF Marked, Spoilt
<1>6. Runners' \subseteq Runners /\ ~Fresh'
  BY <1>1, <1>2, <1>3 DEF Runners, Fresh
<1>7. LibAlways'
  BY <1>1, <1>2, <1>6, NumFacts DEF LibAlways
<1> QED
  BY <1>4, <1>5, <1>7 DEF LibOK

\* Every step of a user of the library keeps it.
LEMMA LibKept ==
  ASSUME LibOK, FdTypes, TypeOK, MutexOK, program = "library", [Next]_allVars
  PROVE  FdTypes' /\ LibOK'
<1>1. UNCHANGED progVars
  BY LibSteps
<1>2. lpc \in [Users -> Places]
  BY DEF TypeOK
<1>3. /\ LibAlways
      /\ ~Spoilt => Opened
  BY DEF LibOK
<1> DEFINE Still == /\ UNCHANGED <<fdtab, sysFd, syslogd, driver, logSyslog, logFd, once>>
                    /\ isInit' = isInit \/ (Marked("deinit") /\ ~isInit')
           NewMarks == /\ marks \subseteq marks'
                       /\ \A e \in marks' : e \in marks \/ e[1] \in {"early", "asked", "rotated", "samems", "reset"}
           Moves == \A t \in Users :
                      /\ lpc'[t] \in {"configure", "mutex"} => lpc'[t] = lpc[t]
                      /\ lpc'[t] \in LinePlaces => lpc[t] \in LinePlaces \/ once = "done" \/ isInit
<1>4. ASSUME Still, NewMarks, Moves, UNCHANGED current PROVE FdTypes' /\ LibOK'
  BY <1>1, <1>4, LibCalm
<1>5. ASSUME NEW type, NEW name, LogInit(Main, type, name) PROVE FdTypes' /\ LibOK'
  <2>1. Still /\ UNCHANGED current
    BY <1>5 DEF LogInit, statics, syslogVars, files
  <2>2. NewMarks
    BY <1>5 DEF LogInit, Mark
  <2>3. Moves
    <3>1. lpc' = [lpc EXCEPT ![Main] = "once"]
      BY <1>5 DEF LogInit, Goto
    <3> QED BY <1>2, <3>1 DEF LinePlaces
  <2> QED BY <1>4, <2>1, <2>2, <2>3
<1>6. ASSUME NEW t \in Users, LogPrint(t) PROVE FdTypes' /\ LibOK'
  <2>1. Still /\ UNCHANGED current
    BY <1>6 DEF LogPrint, statics, syslogVars, files
  <2>2. NewMarks
    BY <1>6 DEF LogPrint, Mark
  <2>3. Moves
    <3>1. \/ isInit /\ lpc' = [lpc EXCEPT ![t] = "send"]
          \/ lpc' = [lpc EXCEPT ![t] = "once"]
      BY <1>6 DEF LogPrint, Goto
    <3> QED BY <1>2, <3>1 DEF LinePlaces
  <2> QED BY <1>4, <2>1, <2>2, <2>3
<1>7. CASE SetRotate(Main) \/ (\E n \in SplitSizes : SetSplitSize(Main, n)) \/ UNCHANGED allVars
  <2>1. Still /\ UNCHANGED <<current, marks, lpc>>
    BY <1>7 DEF SetRotate, SetSplitSize, allVars, logVars, start, statics, calls, syslogVars, files
  <2> QED BY <1>4, <2>1
<1>8. ASSUME NEW t \in Users, Lock(t) \/ Unlock(t) PROVE FdTypes' /\ LibOK'
  <2>1. /\ Still /\ UNCHANGED <<current, marks>>
        /\ lpc[t] \in LinePlaces
        /\ \E l \in {"locked", "idle"} : lpc' = [lpc EXCEPT ![t] = l]
    BY <1>8 DEF Lock, Unlock, start, statics, syslogVars, files, Goto, LinePlaces
  <2>2. Moves
    BY <1>2, <2>1 DEF LinePlaces
  <2> QED BY <1>4, <2>1, <2>2
<1>9. ASSUME NEW t \in Users, DeinitDone(t) PROVE FdTypes' /\ LibOK'
  <2>1. /\ UNCHANGED <<fdtab, sysFd, syslogd, driver, logSyslog, logFd, once, current, marks>>
        /\ lpc[t] = "deinit" /\ lpc' = [lpc EXCEPT ![t] = "idle"] /\ ~isInit'
    BY <1>9 DEF DeinitDone, start, syslogVars, files, Goto
  <2>2. Marked("deinit")
    BY <2>1 DEF MutexOK
  <2>3. Moves
    BY <1>2, <2>1 DEF LinePlaces
  <2> QED BY <1>4, <2>1, <2>2, <2>3
<1>10. ASSUME NEW t \in Users, Send(t) PROVE FdTypes' /\ LibOK'
  <2>1. /\ UNCHANGED <<syslogd, driver, logSyslog, logFd, once, isInit, current>>
        /\ lpc[t] = "send" /\ lpc' = [lpc EXCEPT ![t] = "lock"]
    BY <1>10 DEF Send, start, statics, files, Goto
  <2>2. UNCHANGED <<fdtab, sysFd, marks>>
    <3>1. CASE ~logSyslog
      BY <1>10, <3>1 DEF Send
    <3>2. CASE logSyslog
      <4>1. Syslog
        BY <1>10, <3>2 DEF Send
      <4>2. sysFd # NULL /\ syslogd /\ fdtab[sysFd] = "syslog"
        BY <1>3, <3>2, NumFacts DEF LibAlways, Opened, Spoilt
      <4> QED BY <4>1, <4>2, SyslogFds DEF FdTypes
    <3> QED BY <3>1, <3>2
  <2>3. Moves
    BY <1>2, <2>1 DEF LinePlaces
  <2> QED BY <1>4, <2>1, <2>2, <2>3
<1>11. ASSUME NEW t \in Users, Write(t) PROVE FdTypes' /\ LibOK'
  <2>1. /\ Still /\ lpc[t] = "write" /\ lpc' = [lpc EXCEPT ![t] = "unlock"]
    BY <1>11 DEF Write, start, statics, syslogVars, Goto
  <2>2. Moves
    BY <1>2, <2>1 DEF LinePlaces
  <2>3. marks \subseteq marks' /\ \A e \in marks' : e \in marks \/ (e[1] = "write" /\ e = <<"write", fdtab[logFd]>>)
    BY <1>11 DEF Write, Mark
  <2>4. current' = current \/ fdtab[logFd] = "log"
    BY <1>11 DEF Write
  <2>5. ASSUME ~Spoilt
        PROVE  /\ current' # {} => current # {} \/ (driver = "file" /\ logFd \in Nums /\ fdtab[logFd] = "log")
               /\ \A kind \in Foreign : <<"write", kind>> \in marks' =>
                    <<"write", kind>> \in marks \/ (once = "done" /\ driver = NULL)
    <3>1. Opened /\ (once = "done" \/ isInit)
      BY <1>3, <2>1, <2>5 DEF Opened, LinePlaces
    <3>2. driver = NULL => once = "done" /\ logFd = 0
      BY <3>1 DEF Opened
    <3>3. fdtab[0] = "std" /\ fdtab[2] = "std" /\ 0 \in Nums /\ 2 \in Nums
      BY <3>1, NumFacts DEF Opened
    <3>4. \/ driver = NULL /\ logFd = 0
          \/ driver = "stderr" /\ logFd = 2
          \/ driver = "file" /\ (logFd = 2 \/ (logFd \in Nums /\ fdtab[logFd] = "log"))
          \/ driver = "rsyslog" /\ logFd = 0
      BY <3>1, <3>2 DEF Opened
    <3>5. fdtab[logFd] \in {"std", "log"}
      BY <3>3, <3>4
    <3>6. fdtab[logFd] = "log" => driver = "file" /\ logFd \in Nums
      BY <3>3, <3>4
    <3>7. fdtab[logFd] \notin Foreign
      BY <3>5 DEF Foreign
    <3>8. \A kind \in Foreign : <<"write", kind>> \in marks' => <<"write", kind>> \in marks
      BY <2>3, <3>7
    <3> QED BY <2>4, <3>6, <3>8
  <2> QED BY <1>1, <2>1, <2>2, <2>3, <2>5, LibCalm
<1>12. CASE LibraryUse
  <2>1. CASE AppOpen
    BY <1>1, <2>1, LibAppOpen
  <2>2. CASE LogDeinit(Main)
    BY <1>1, <2>2, LibDeinit
  <2> QED BY <1>5, <1>6, <1>7, <1>12, <2>1, <2>2, NumFacts DEF LibraryUse
<1>13. ASSUME NEW t \in Users, LogStep(t) PROVE FdTypes' /\ LibOK'
  <2>1. CASE OnceEnter(t) \/ MutexInit(t)
    BY <1>1, <2>1, LibOnce
  <2>2. CASE Configure(t)
    BY <1>1, <2>2, LibConfigure
  <2>3. CASE Split(t)
    BY <1>1, <2>3, LibSplit
  <2> QED BY <1>8, <1>9, <1>10, <1>11, <1>13, <2>1, <2>2, <2>3 DEF LogStep
<1> QED
  BY <1>7, <1>12, <1>13, LibSteps

-------------------------------------------------------------------------------
(* The descriptor table's users *)

\* The whole invariant: the library's part, where the log goes, and the numbers.
ProgramsInv == LogInv /\ SinkOK /\ ServerLog /\ FdInv /\ LibOK

\* ProgramsInv holds in every reachable state.
THEOREM ProgramsInvariance == Spec => []ProgramsInv
<1>1. ProgramsInit => SinkOK /\ ServerLog /\ FdInv /\ LibOK
  <2> SUFFICES ASSUME ProgramsInit PROVE SinkOK /\ ServerLog /\ FdInv /\ LibOK
    OBVIOUS
  <2>1. /\ once = "new" /\ ~isInit /\ driver = NULL /\ ~logSyslog /\ logFd = 0 /\ marks = {} /\ current = {}
        /\ lpc = [t \in Users |-> "idle"] /\ then = [t \in Users |-> "idle"]
        /\ sysFd = NULL /\ syslogd /\ mpc = "init" /\ rpc = "none"
        /\ program \in QueueServers \cup ThreadServers \cup {"library"}
    BY ProgramsAssumption DEF ProgramsInit, LogInit0
  <2>2. /\ fdtab \in [Nums -> {"std", NULL}]
        /\ \A n \in Nums : fdtab[n] = "std" => n \in {0, 1, 2}
        /\ program = "library" => \A n \in Nums : fdtab[n] = "std" <=> n \in {0, 1, 2}
    BY NumFacts DEF ProgramsInit
  <2>3. SinkOK
    BY <2>1, NumFacts, LogAssumption DEF SinkOK, Straight, Asked, LinePlaces, Marked
  <2>4. ServerLog
    BY <2>1, NumFacts DEF ServerLog, Straight, Marked
  <2>5. FdTypes
    <3>1. \A n \in Nums : fdtab[n] \in {"std", NULL}
      BY <2>2
    <3>2. fdtab \in [Nums -> {"std", "log", "syslog", "app", "client", "listen", "epoll", "robot", NULL}]
      BY <2>2
    <3> QED BY <2>1, <3>1, <3>2, NumFacts DEF FdTypes
  <2>6. FdOK
    <3>1. \A n \in Nums : fdtab[n] \in {"std", NULL}
      BY <2>2
    <3> QED BY <2>1, <2>2, <3>1, NumFacts DEF FdOK, Marked
  <2>7. OpenOK
    <3>1. fdtab[3] = NULL
      BY <2>2, NumFacts
    <3> QED BY <2>1, <3>1, NumFacts DEF OpenOK, Free, HeldPlaces, EpollPlaces
  <2>8. ZeroOK
    <3>1. \A n \in Nums : fdtab[n] \notin {"client", "listen", "robot"}
      BY <2>2, NumFacts
    <3> QED BY <2>1, <3>1, NumFacts DEF ZeroOK, Listening
  <2>9. LibAlways
    BY <2>1 DEF LibAlways, Runners, Fresh, Marked, Spoilt
  <2>10. program = "library" => Opened
    <3>1. \A n \in Nums : fdtab[n] \in {"std", NULL}
      BY <2>2
    <3>2. \A n \in Nums : fdtab[n] \notin {"app", "log", "syslog"}
      BY <3>1, NumFacts
    <3> QED BY <2>1, <2>2, <3>2, LogAssumption DEF Opened, LinePlaces
  <2> QED BY <2>3, <2>4, <2>5, <2>6, <2>7, <2>8, <2>9, <2>10 DEF FdInv, LibOK
<1>2. LogInv /\ SinkOK /\ ServerLog /\ FdInv /\ LibOK /\ [Next]_allVars
        => SinkOK' /\ ServerLog' /\ FdInv' /\ LibOK'
  <2> SUFFICES ASSUME LogInv, SinkOK, ServerLog, FdInv, LibOK, [Next]_allVars
               PROVE  SinkOK' /\ ServerLog' /\ FdInv' /\ LibOK'
    OBVIOUS
  <2>1. TypeOK /\ MutexOK /\ FdTypes /\ FdOK
    BY DEF LogInv, FdInv
  <2>2. SinkOK'
    BY <2>1, Calls, SinkKept
  <2>3. CASE program # "library"
    <3>1. ServerLog' /\ FdInv'
      BY <2>1, <2>3, ServerLogKept, ServerFdsKept
    <3>2. program' = program
      BY <2>3, ServerSteps, WorkerSteps DEF InitLog, InitDaemon, MainLogs, CreateWorkers, Listen, CloseListen, CloseBoth, CreateEpoll,
         Register, Stop, AcceptClient, AcceptError, NetAccept, NetClose, OtherLogs, SyslogdToggles, progVars, mainVars, allVars
    <3> QED BY <2>2, <2>3, <3>1, <3>2 DEF LibOK
  <2>4. CASE program = "library"
    <3>1. FdTypes' /\ LibOK'
      BY <2>1, <2>4, LibKept
    <3>2. program' = "library"
      BY <2>1, <2>4, LibSteps DEF progVars, mainVars
    <3> QED BY <2>2, <3>1, <3>2 DEF ServerLog, FdInv, FdOK, OpenOK, ZeroOK
  <2> QED BY <2>3, <2>4
<1>3. ProgramsInit /\ [][Next]_allVars /\ []LogInv => [](SinkOK /\ ServerLog /\ FdInv /\ LibOK)
  BY <1>1, <1>2, PTL
<1> QED
  BY <1>3, LogInvariance, PTL DEF Spec, ProgramsInv

-------------------------------------------------------------------------------
(* Names, and the directories made for them *)

\* The characters.  The provers do not know of STRING that these are in it.
Chars == STRING \cup {".", "l", "o", "g"}

\* A name is a sequence of them.
LEMMA NameChars ==
  ASSUME NEW p \in Idents
  PROVE  p \in Seq(Chars)
<1>1. p \in Seq(STRING)
  BY LogAssumption
<1>2. Len(p) \in Nat /\ \A i \in 1..Len(p) : p[i] \in STRING
  BY <1>1, ElementOfSeq, LenProperties
<1>3. 1 \in Int /\ Len(p) \in Int /\ \A i \in 1..Len(p) : p[i] \in Chars
  BY <1>2 DEF Chars
<1>4. SubSeq(p, 1, Len(p)) \in Seq(Chars)
  BY <1>3, SubSeqProperties
<1>5. SubSeq(p, 1, Len(p)) = p
  BY <1>1, SubSeqFull
<1> QED
  BY <1>4, <1>5

\* The slashes of a name are finitely many places in it; the last of them is its greatest.
LEMMA SlashFacts ==
  ASSUME NEW p \in Seq(Chars)
  PROVE  /\ Slashes(p) \subseteq 1..Len(p) /\ Slashes(p) \in SUBSET Nat /\ IsFiniteSet(Slashes(p))
         /\ Slashes(p) # {} => Max(Slashes(p)) \in Slashes(p) /\ \A i \in Slashes(p) : i <= Max(Slashes(p))
         /\ Dots(p) # {} => Max(Dots(p)) \in 1..Len(p)
<1>1. Len(p) \in Nat /\ DOMAIN p = 1..Len(p)
  OBVIOUS
<1>2. IsFiniteSet(1..Len(p))
  BY <1>1, FS_Interval
<1>3. ASSUME NEW S \in SUBSET (1..Len(p))
      PROVE  /\ S \in SUBSET Nat /\ IsFiniteSet(S)
             /\ S # {} => Max(S) \in S /\ \A i \in S : i <= Max(S)
  <2>1. IsFiniteSet(S) /\ S \in SUBSET Nat
    <3>1. IsFiniteSet(S)
      BY <1>2, FS_Subset, Zenon
    <3>2. 1..Len(p) \subseteq Nat
      BY <1>1
    <3> QED BY <3>1, <3>2
  <2>2. CASE S # {}
    <3>1. \E m \in S : \A n \in S : m >= n
      BY <2>1, <2>2, FiniteMaximum
    <3>2. Max(S) \in S /\ \A n \in S : Max(S) >= n
      BY <3>1 DEF Max
    <3> QED BY <2>1, <3>2
  <2> QED BY <2>1, <2>2
<1>4. Slashes(p) \in SUBSET (1..Len(p)) /\ Dots(p) \in SUBSET (1..Len(p))
  BY <1>1 DEF Slashes, Dots
<1> QED
  BY <1>3, <1>4

\* The name of a log file ends in ".log".
LEMMA NameShape ==
  ASSUME NEW p \in Seq(Chars)
  PROVE  LogName(p) \in Seq(Chars) /\ Len(LogName(p)) >= 4 /\ LogName(p)[Len(LogName(p))] = "g"
<1> DEFINE from == IF Cardinality(Slashes(p)) < 2 THEN 0 ELSE Max(Slashes(p))
           to == IF Dots(p) = {} THEN Len(p) ELSE Max(Dots(p)) - 1
           A == SubSeq(p, 1, from)
           B == SubSeq(p, from + 1, to)
<1>1. Len(p) \in Nat /\ \A i \in 1..Len(p) : p[i] \in Chars
  OBVIOUS
<1>2. from \in 0..Len(p)
  <2>1. CASE Slashes(p) = {}
    <3>1. Cardinality(Slashes(p)) = 0
      BY <2>1, FS_EmptySet
    <3> QED BY <1>1, <3>1
  <2>2. CASE Slashes(p) # {}
    <3>1. Max(Slashes(p)) \in 1..Len(p)
      BY <2>2, SlashFacts
    <3> QED BY <1>1, <3>1
  <2> QED BY <2>1, <2>2
<1>3. to \in 0..Len(p)
  <2>1. Dots(p) # {} => Max(Dots(p)) \in 1..Len(p)
    BY SlashFacts
  <2> QED BY <1>1, <2>1
<1>4. LogName(p) = A \o B \o DotLog
  BY DEF LogName
<1> HIDE DEF from, to
<1>5. A \in Seq(Chars)
  <2>1. 1 \in Int /\ from \in Int /\ \A i \in 1..from : p[i] \in Chars
    BY <1>1, <1>2
  <2> QED BY <2>1, SubSeqProperties
<1>6. B \in Seq(Chars)
  <2>1. from + 1 \in Int /\ to \in Int /\ \A i \in (from + 1)..to : p[i] \in Chars
    BY <1>1, <1>2, <1>3
  <2> QED BY <2>1, SubSeqProperties
<1> HIDE DEF A, B
<1>7. DotLog \in Seq(Chars) /\ Len(DotLog) = 4 /\ DotLog[4] = "g"
  <2>1. Len(DotLog) = 4 /\ DotLog[1] = "." /\ DotLog[2] = "l" /\ DotLog[3] = "o" /\ DotLog[4] = "g"
    BY DEF DotLog
  <2>2. DotLog \in Seq(Chars)
    <3>1. "." \in Chars /\ "l" \in Chars /\ "o" \in Chars /\ "g" \in Chars
      BY DEF Chars
    <3>2. ASSUME NEW S, NEW a \in S, NEW b \in S, NEW c \in S, NEW d \in S PROVE <<a, b, c, d>> \in Seq(S)
      OBVIOUS
    <3> QED BY <3>1, <3>2, Zenon DEF DotLog
  <2> QED BY <2>1, <2>2
<1>8. A \o B \in Seq(Chars)
  BY <1>5, <1>6, ConcatProperties
<1> DEFINE C == A \o B
<1> HIDE DEF C
<1>9. C \in Seq(Chars) /\ Len(C) \in Nat
  BY <1>8 DEF C
<1>10. /\ C \o DotLog \in Seq(Chars) /\ Len(C \o DotLog) = Len(C) + Len(DotLog)
       /\ \A i \in 1..(Len(C) + Len(DotLog)) :
            (C \o DotLog)[i] = IF i <= Len(C) THEN C[i] ELSE DotLog[i - Len(C)]
  BY <1>7, <1>9, ConcatProperties
<1>11. (C \o DotLog)[Len(C) + 4] = DotLog[Len(C) + 4 - Len(C)] /\ Len(C) + 4 - Len(C) = 4
  BY <1>7, <1>9, <1>10
<1>12. LogName(p) = C \o DotLog
  BY <1>4 DEF C
<1> QED
  BY <1>7, <1>9, <1>10, <1>11, <1>12

\* check_dir makes what stands before each slash of a path, and the path itself only if its
\* one slash is its first character.
LEMMA OnlyParents ==
  ASSUME NEW name \in Seq(Chars), Len(name) >= 4, name[Len(name)] # "/"
  PROVE  /\ CheckDir(name) \subseteq MadeFor(name)
         /\ Slashes(name) # {1} => Parent(name) \in {<<>>} \cup CheckDir(name) /\ name \notin CheckDir(name)
         /\ Slashes(name) = {1} => name \in CheckDir(name)
<1>1. Len(name) \in Nat /\ name # <<>> /\ Slashes(name) \subseteq 1..Len(name)
  BY SlashFacts
<1>2. CASE Slashes(name) = {}
  BY <1>2 DEF CheckDir, Parent
<1>3. CASE Slashes(name) = {1}
  <2>1. Slashes(name) \ {1} = {} /\ Slashes(name) # {}
    BY <1>3
  <2>2. GetDir(name) = name
    BY <2>1 DEF GetDir
  <2>3. CheckDir(name) = {name}
    BY <2>1, <2>2 DEF CheckDir
  <2> QED BY <1>3, <2>3 DEF MadeFor
<1>4. CASE Slashes(name) # {} /\ Slashes(name) # {1}
  <2> DEFINE M == Max(Slashes(name))
             d == SubSeq(name, 1, M)
  <2>1. Slashes(name) \ {1} # {}
    BY <1>4
  <2>2. M \in Slashes(name) /\ \A i \in Slashes(name) : i <= M
    BY <1>4, SlashFacts
  <2>3. M \in 2..Len(name) /\ name[M] = "/"
    <3>1. PICK i \in Slashes(name) : i # 1
      BY <2>1
    <3>2. i \in 1..Len(name) /\ M \in 1..Len(name) /\ i <= M
      BY <1>1, <2>2
    <3> HIDE DEF M
    <3>3. name[M] = "/"
      BY <2>2 DEF Slashes
    <3> QED BY <1>1, <3>1, <3>2, <3>3
  <2>4. GetDir(name) = d
    BY <2>1 DEF GetDir
  <2> HIDE DEF M
  <2>5. d \in Seq(Chars) /\ Len(d) = M /\ \A i \in 1..M : d[i] = name[i]
    <3>1. 1 \in Int /\ M \in Int /\ \A i \in 1..M : name[i] \in Chars
      BY <1>1, <2>3
    <3>2. /\ SubSeq(name, 1, M) \in Seq(Chars)
          /\ Len(SubSeq(name, 1, M)) = IF 1 <= M THEN M - 1 + 1 ELSE 0
          /\ \A i \in 1..(M - 1 + 1) : SubSeq(name, 1, M)[i] = name[1 + i - 1]
      BY <3>1, SubSeqProperties
    <3> QED BY <2>3, <3>2
  <2> HIDE DEF d
  <2>6. Slashes(d) = Slashes(name)
    <3>1. DOMAIN d = 1..M /\ DOMAIN name = 1..Len(name)
      BY <2>5
    <3> QED BY <2>2, <2>3, <2>5, <3>1 DEF Slashes
  <2>7. ASSUME NEW i \in Slashes(name) \ {1}
        PROVE  SubSeq(d, 1, i - 1) = SubSeq(name, 1, i - 1) /\ Len(SubSeq(name, 1, i - 1)) = i - 1
    <3>1. i \in 2..M
      BY <1>1, <2>2, <2>3
    <3>2. 1 \in 1..Len(name) /\ M \in 1..Len(name) /\ 1 \in 1..(M - 1 + 1) /\ i - 1 \in 1..(M - 1 + 1)
      BY <2>3, <3>1
    <3>3. SubSeq(SubSeq(name, 1, M), 1, i - 1) = SubSeq(name, 1 + 1 - 1, 1 + (i - 1) - 1)
      BY <3>2, SubSeqOfSubSeq
    <3>4. 1 + 1 - 1 = 1 /\ 1 + (i - 1) - 1 = i - 1
      BY <3>1
    <3>5. 1 \in Int /\ i - 1 \in Int /\ \A k \in 1..(i - 1) : name[k] \in Chars
      BY <1>1, <2>3, <3>1
    <3>6. Len(SubSeq(name, 1, i - 1)) = IF 1 <= i - 1 THEN i - 1 - 1 + 1 ELSE 0
      BY <3>5, SubSeqProperties
    <3>7. i - 1 = i - 1 - 1 + 1 /\ 1 <= i - 1
      BY <3>1
    <3>8. Len(SubSeq(name, 1, i - 1)) = i - 1
      BY <3>6, <3>7
    <3>9. SubSeq(SubSeq(name, 1, M), 1, i - 1) = SubSeq(name, 1, i - 1)
      BY <3>3, <3>4
    <3> QED BY <3>8, <3>9 DEF d
  <2>8. d[Len(d)] = "/"
    BY <2>3, <2>5
  <2>9. CheckDir(name) = {SubSeq(d, 1, i - 1) : i \in Slashes(name) \ {1}}
    BY <1>4, <2>4, <2>6, <2>8 DEF CheckDir
  <2>10. CheckDir(name) \subseteq MadeFor(name)
    BY <2>7, <2>9 DEF MadeFor
  <2>11. Parent(name) \in CheckDir(name)
    <3>1. M \in Slashes(name) \ {1}
      BY <2>2, <2>3
    <3>2. Parent(name) = SubSeq(name, 1, M - 1)
      BY <1>4 DEF Parent, M
    <3> QED BY <2>7, <2>9, <3>1, <3>2
  <2>12. name \notin CheckDir(name)
    <3>1. SUFFICES ASSUME NEW i \in Slashes(name) \ {1}, name = SubSeq(name, 1, i - 1) PROVE FALSE
      BY <2>7, <2>9
    <3>2. Len(name) = i - 1 /\ i \in 1..Len(name)
      BY <1>1, <2>7, <3>1
    <3> QED BY <1>1, <3>2
  <2> QED BY <1>4, <2>10, <2>11, <2>12
<1> QED
  BY <1>2, <1>3, <1>4

\* What log_init_once will read: only a user of the library asks for a file, by its name.
LEMMA Requests ==
  ASSUME [Next]_allVars
  PROVE  /\ program' = program
         /\ logType' = "file" => UNCHANGED <<logType, ident>> \/ (program = "library" /\ ident' \in Idents)
<1> DEFINE Goal == /\ program' = program
                   /\ logType' = "file" => UNCHANGED <<logType, ident>> \/ (program = "library" /\ ident' \in Idents)
<1>1. CASE UNCHANGED allVars
  BY <1>1 DEF allVars, logVars, start, progVars, mainVars
<1>2. ASSUME NEW t, LogPrint(t) PROVE logType' = "file" => UNCHANGED <<logType, ident>>
  <2>1. UNCHANGED <<logType, ident>> \/ logType' = "env"
    BY <1>2 DEF LogPrint, Request
  <2> QED BY <2>1
<1>3. ASSUME NEW type, NEW name, LogInit(Main, type, name)
      PROVE  UNCHANGED <<logType, ident>> \/ (logType' = type /\ ident' = name)
  BY <1>3 DEF LogInit, Request
<1>4. CASE InitLog
  <2>1. LogInit(Main, "rsyslog", <<>>) /\ program' = program
    BY <1>4 DEF InitLog
  <2> QED BY <1>3, <2>1
<1>5. CASE StartWorkers \/ BindFailed \/ EpollFailed \/ AddFailed \/ Failed \/ Announce \/ Accepted \/ Status
  <2>1. LogPrint(Main) /\ program' = program
    BY <1>5 DEF StartWorkers, BindFailed, EpollFailed, AddFailed, Failed, Announce, Accepted, Status, LogThen
  <2> QED BY <1>2, <2>1
<1>6. CASE \/ InitDaemon \/ CreateWorkers \/ Listen \/ CloseListen \/ CloseBoth \/ CreateEpoll \/ Register \/ Stop \/ AcceptClient
           \/ AcceptError
  <2>1. Quiet /\ program' = program
    BY <1>6 DEF InitDaemon, CreateWorkers, Listen, CloseListen, CloseBoth, CreateEpoll, Register, Stop, AcceptClient, AcceptError
  <2> QED BY <2>1 DEF Quiet, start
<1>7. CASE NetAccept \/ NetClose
  <2>1. Quiet /\ program' = program
    BY <1>7 DEF NetAccept, NetClose, progVars, mainVars
  <2> QED BY <2>1 DEF Quiet, start
<1>8. CASE SyslogdToggles
  BY <1>8 DEF SyslogdToggles, start, progVars, mainVars
<1>9. CASE OtherLogs
  <2>1. LogPrint(Other) /\ program' = program
    BY <1>9 DEF OtherLogs, progVars, mainVars
  <2> QED BY <1>2, <2>1
<1>12. CASE WorkerStep
  <2>1. program' = program
    BY <1>12, WorkerSteps DEF mainVars
  <2>2. LogPrint(Other) \/ Quiet
    BY <1>12, WorkerSteps
  <2> QED BY <1>2, <2>1, <2>2 DEF Quiet, start
<1>10. CASE LibraryUse
  <2>1. program = "library" /\ program' = program
    BY <1>10 DEF LibraryUse, progVars, mainVars
  <2>2. CASE \E type \in Types : \E name \in IF type = "file" THEN Idents ELSE {<<>>} : LogInit(Main, type, name)
    <3>1. PICK type \in Types : \E name \in IF type = "file" THEN Idents ELSE {<<>>} : LogInit(Main, type, name)
      BY <2>2
    <3>2. PICK name \in IF type = "file" THEN Idents ELSE {<<>>} : LogInit(Main, type, name)
      BY <3>1
    <3>3. type = "file" => name \in Idents
      BY <3>2
    <3> QED BY <1>3, <2>1, <3>2, <3>3
  <2>3. CASE LogPrint(Main) \/ LogPrint(Other)
    BY <1>2, <2>1, <2>3
  <2>4. CASE LogDeinit(Main) \/ SetRotate(Main) \/ (\E n \in SplitSizes : SetSplitSize(Main, n)) \/ AppOpen
    <3>1. UNCHANGED start
      BY <2>4 DEF LogDeinit, SetRotate, SetSplitSize, AppOpen, Quiet
    <3> QED BY <2>1, <3>1 DEF start
  <2> QED BY <1>10, <2>2, <2>3, <2>4 DEF LibraryUse
<1>11. CASE \E t \in Users : LogStep(t) /\ UNCHANGED progVars
  <2>1. PICK t \in Users : LogStep(t) /\ UNCHANGED progVars
    BY <1>11
  <2>2. UNCHANGED <<logType, ident>>
    BY <2>1 DEF LogStep, OnceEnter, Configure, MutexInit, Send, Lock, Split, Write, Unlock, DeinitDone, start
  <2> QED BY <2>1, <2>2 DEF progVars, mainVars
<1> QED
  BY <1>1, <1>4, <1>5, <1>6, <1>7, <1>8, <1>9, <1>10, <1>11, <1>12 DEF Next, ServerStep

\* The directories are those of a file asked for, and the file is lost only to one of them.
DirsOK ==
  /\ <<>> \in dirs /\ OnlyPathMade /\ LostOnlyToDirectory
  /\ logType = "file" => program = "library" /\ ident \in Idents
  /\ driver = "file" => program = "library" /\ ~Marked("deinit")
  /\ Fresh => dirs = {<<>>}

\* log_init_once makes the directories before it opens the file.
LEMMA FileOpened ==
  ASSUME ProgramsInv, DirsOK, NEW t \in Users, Configure(t), InitFile, ident \in Idents, program = "library"
  PROVE  <<>> \in dirs' /\ OnlyPathMade' /\ LostOnlyToDirectory'
<1> DEFINE name == LogName(ident)
<1>1. name \in Seq(Chars) /\ Len(name) >= 4 /\ name[Len(name)] # "/"
  <2>1. name \in Seq(Chars) /\ Len(name) >= 4 /\ name[Len(name)] = "g"
    BY NameChars, NameShape
  <2> QED BY <2>1
<1>2. /\ dirs \subseteq dirs' /\ dirs' \subseteq dirs \cup CheckDir(name)
      /\ \/ logFd' = Lowest
         \/ <<"openFailed", NULL>> \in marks'
         \/ /\ dirs' = dirs \cup CheckDir(name)
            /\ Parent(name) \notin dirs' \/ name \in dirs'
  <2> HIDE DEF name
  <2>1. PICK made \in Makeable(name), opens \in BOOLEAN :
          /\ dirs' = dirs \cup made
          /\ IF opens /\ Parent(name) \in dirs' /\ name \notin dirs'
             THEN logFd' = Lowest
             ELSE marks' = marks \cup (IF opens /\ made = CheckDir(name) THEN {} ELSE {<<"openFailed", NULL>>})
    BY DEF InitFile, Mark, name
  <2>2. made \subseteq CheckDir(name)
    BY <2>1 DEF Makeable
  <2>3. CASE opens /\ Parent(name) \in dirs' /\ name \notin dirs'
    BY <2>1, <2>2, <2>3
  <2>4. CASE ~(opens /\ Parent(name) \in dirs' /\ name \notin dirs')
    BY <2>1, <2>2, <2>4
  <2> QED BY <2>3, <2>4
<1>3. Fresh /\ dirs = {<<>>}
  BY DEF DirsOK, Fresh, Configure
<1>4. fdtab[2] = "std" /\ Lowest \in Nums /\ fdtab[Lowest] = NULL
  <2>1. Opened
    BY <1>3 DEF ProgramsInv, LibOK, LibAlways
  <2>2. /\ \A n \in Nums : fdtab[n] = "std" <=> n \in {0, 1, 2}
        /\ \A n, k \in Nums : fdtab[n] = "app" /\ fdtab[k] = "app" => n = k
        /\ \A n \in Nums : fdtab[n] \notin {"log", "syslog"}
    BY <1>3, <2>1 DEF ProgramsInv, LibOK, LibAlways, Opened
  <2>3. fdtab[3] \in {"app", NULL} /\ fdtab[4] \in {"app", NULL}
    BY <2>2, NumFacts DEF ProgramsInv, FdInv, FdTypes
  <2>4. fdtab[3] = NULL \/ fdtab[4] = NULL
    BY <2>2, <2>3, NumFacts
  <2> QED BY <2>2, <2>4, LowestFact, NumFacts
<1>5. Lowest # 2
  BY <1>4, NumFacts
<1>6. /\ CheckDir(name) \subseteq MadeFor(name)
      /\ Slashes(name) # {1} => Parent(name) \in {<<>>} \cup CheckDir(name) /\ name \notin CheckDir(name)
      /\ Slashes(name) = {1} => name \in CheckDir(name)
  <2> HIDE DEF name
  <2> QED BY <1>1, OnlyParents
<1>7. name # <<>>
  BY <1>1
<1>8. <<>> \in dirs' /\ OnlyPathMade'
  <2>1. \A d \in dirs' \ {<<>>} : d \in MadeFor(LogName(ident))
    BY <1>2, <1>3, <1>6
  <2> QED BY <1>2, <1>3, <2>1 DEF OnlyPathMade
<1>9. ASSUME logFd' = 2, ~Marked("openFailed")' PROVE Slashes(name) = {1} /\ name \in dirs'
  <2> HIDE DEF name
  <2>1. dirs' = dirs \cup CheckDir(name) /\ (Parent(name) \notin dirs' \/ name \in dirs')
    BY <1>2, <1>5, <1>9 DEF Marked
  <2> QED BY <1>3, <1>6, <1>7, <2>1
<1>10. LostOnlyToDirectory'
  BY <1>9 DEF LostOnlyToDirectory
<1> QED
  BY <1>8, <1>10

\* Every step keeps it.
LEMMA DirsKept ==
  ASSUME ProgramsInv, DirsOK, [Next]_allVars
  PROVE  DirsOK'
<1>1. /\ program' = program
      /\ logType' = "file" => program = "library" /\ ident' \in Idents
  BY Requests DEF DirsOK
<1>2. lpc \in [Users -> Places] /\ then \in [Users -> {"idle", "send"}]
  BY DEF ProgramsInv, LogInv, TypeOK
<1>17. \A x : Marked(x) => Marked(x)'
  BY Calls, MarksGrow DEF Marked
<1>3. ASSUME UNCHANGED dirs, driver' = driver \/ driver' = NULL,
             driver' = "file" => /\ logFd' = logFd \/ logFd' # 2 \/ Marked("reopenFailed")'
                                 /\ Marked("deinit")' => Marked("deinit"),
             Fresh' => Fresh
      PROVE  DirsOK'
  <2>1. driver' = "file" => driver = "file"
    BY <1>3, LogAssumption
  <2>2. OnlyPathMade'
    BY <1>3 DEF DirsOK, OnlyPathMade
  <2>3. LostOnlyToDirectory'
    BY <1>3, <1>17, <2>1 DEF DirsOK, LostOnlyToDirectory
  <2>4. driver' = "file" => program' = "library" /\ ~Marked("deinit")'
    BY <1>1, <1>3, <2>1 DEF DirsOK
  <2>5. <<>> \in dirs' /\ (Fresh' => dirs' = {<<>>})
    BY <1>3 DEF DirsOK
  <2> QED BY <1>1, <2>2, <2>3, <2>4, <2>5 DEF DirsOK
<1>4. ASSUME \A e \in marks' : e \in marks \/ e[1] # "deinit" PROVE Marked("deinit")' => Marked("deinit")
  BY <1>4 DEF Marked
<1>5. ASSUME once' = once, NEW t \in Users, NEW l, l # "configure", lpc' = [lpc EXCEPT ![t] = l]
      PROVE  Fresh' => Fresh
  BY <1>2, <1>5 DEF Fresh
<1>6. CASE Elsewhere
  <2>1. UNCHANGED <<start, statics, calls, files>>
    BY <1>6 DEF Elsewhere
  <2>2. UNCHANGED <<once, lpc, dirs, driver, logFd>>
    BY <2>1 DEF start, statics, calls, files
  <2>3. \A e \in marks' : e \in marks \/ e[1] # "deinit"
    BY <1>6 DEF Elsewhere
  <2>4. Fresh' => Fresh
    BY <2>2 DEF Fresh
  <2> QED BY <1>3, <1>4, <2>2, <2>3, <2>4
<1>7. CASE \E type, name : LogInit(Main, type, name)
  <2>1. PICK type, name : LogInit(Main, type, name)
    BY <1>7
  <2>2. UNCHANGED <<once, dirs, driver, logFd>> /\ lpc' = [lpc EXCEPT ![Main] = "once"]
    BY <2>1 DEF LogInit, Goto, statics, files
  <2>3. \A e \in marks' : e \in marks \/ e[1] # "deinit"
    BY <2>1 DEF LogInit, Mark
  <2> QED BY <1>3, <1>4, <1>5, <2>2, <2>3, NumFacts
<1>8. CASE \E t \in Users : LogPrint(t)
  <2>1. PICK t \in Users : LogPrint(t)
    BY <1>8
  <2>2. /\ UNCHANGED <<once, dirs, driver, logFd>>
        /\ lpc' = [lpc EXCEPT ![t] = "once"] \/ lpc' = [lpc EXCEPT ![t] = "send"]
    BY <2>1 DEF LogPrint, Goto, statics, files
  <2>3. \A e \in marks' : e \in marks \/ e[1] # "deinit"
    BY <2>1 DEF LogPrint, Mark
  <2> QED BY <1>3, <1>4, <1>5, <2>2, <2>3
<1>9. CASE LogDeinit(Main)
  <2>1. UNCHANGED <<once, dirs>> /\ driver' = NULL /\ lpc' = [lpc EXCEPT ![Main] = "deinit"]
    BY <1>9 DEF LogDeinit, Goto, start, files
  <2>2. driver' # "file"
    BY <2>1, LogAssumption
  <2> QED BY <1>3, <1>5, <2>1, <2>2, NumFacts
<1>10. CASE SetRotate(Main) \/ \E n \in SplitSizes : SetSplitSize(Main, n)
  <2>1. UNCHANGED <<start, statics, calls, files, marks>>
    BY <1>10 DEF SetRotate, SetSplitSize
  <2>2. UNCHANGED <<once, lpc, dirs, driver, logFd, marks>>
    BY <2>1 DEF start, statics, calls, files
  <2>3. (Fresh' => Fresh) /\ (Marked("deinit")' => Marked("deinit"))
    BY <2>2 DEF Fresh, Marked
  <2> QED BY <1>3, <2>2, <2>3
<1>11. ASSUME NEW t \in Users, OnceEnter(t) PROVE DirsOK'
  <2>1. UNCHANGED <<dirs, driver, logFd, marks>>
    BY <1>11 DEF OnceEnter, statics, files
  <2>2. Fresh' => Fresh
    <3>1. CASE once = "new"
      BY <3>1 DEF Fresh
    <3>2. CASE once # "new"
      <4>1. once' = once /\ lpc' = [lpc EXCEPT ![t] = then[t]] /\ then[t] # "configure"
        BY <1>2, <1>11, <3>2 DEF OnceEnter, Goto
      <4> QED BY <1>5, <4>1
    <3> QED BY <3>1, <3>2
  <2>3. Marked("deinit")' => Marked("deinit")
    BY <2>1 DEF Marked
  <2> QED BY <1>3, <2>1, <2>2, <2>3
<1>12. ASSUME NEW t \in Users, MutexInit(t) PROVE DirsOK'
  <2>1. UNCHANGED <<dirs, driver, logFd>> /\ once' = "done" /\ lpc' = [lpc EXCEPT ![t] = then[t]] /\ then[t] # "configure"
    BY <1>2, <1>12 DEF MutexInit, Goto, statics, files
  <2>2. Fresh' => Fresh
    BY <1>2, <2>1 DEF Fresh
  <2>3. \A e \in marks' : e \in marks \/ e[1] # "deinit"
    BY <1>12 DEF MutexInit, Mark
  <2> QED BY <1>3, <1>4, <2>1, <2>2, <2>3
<1>13. ASSUME NEW t \in Users, Send(t) \/ Lock(t) \/ Write(t) \/ Unlock(t) \/ DeinitDone(t) PROVE DirsOK'
  <2>1. /\ UNCHANGED <<once, dirs, driver, logFd>>
        /\ \E l \in {"lock", "locked", "unlock", "idle"} : lpc' = [lpc EXCEPT ![t] = l]
    <3>1. CASE Send(t)
      BY <3>1 DEF Send, Goto, start, statics, files
    <3>2. CASE Lock(t)
      BY <3>2 DEF Lock, Goto, start, statics, files
    <3>3. CASE Write(t)
      BY <3>3 DEF Write, Goto, start, statics
    <3>4. CASE Unlock(t)
      BY <3>4 DEF Unlock, Goto, start, statics, files
    <3>5. CASE DeinitDone(t)
      BY <3>5 DEF DeinitDone, Goto, start, files
    <3> QED BY <1>13, <3>1, <3>2, <3>3, <3>4, <3>5
  <2>2. Marked("deinit")' => Marked("deinit")
    <3>1. CASE Send(t)
      BY <1>4, <3>1 DEF Send, Syslog, Mark
    <3>2. CASE Lock(t) \/ Unlock(t) \/ DeinitDone(t)
      BY <1>4, <3>2 DEF Lock, Unlock, DeinitDone
    <3>3. CASE Write(t)
      BY <1>4, <3>3 DEF Write, Mark
    <3> QED BY <1>13, <3>1, <3>2, <3>3
  <2>3. Fresh' => Fresh
    BY <1>5, <2>1
  <2> QED BY <1>3, <2>1, <2>2, <2>3
<1>14. ASSUME NEW t \in Users, Split(t) PROVE DirsOK'
  <2>1. UNCHANGED <<once, dirs, driver>> /\ \E l \in {"unlock", "write"} : lpc' = [lpc EXCEPT ![t] = l]
    BY <1>14 DEF Split, Goto, start
  <2>2. \A e \in marks' : e \in marks \/ e[1] # "deinit"
    BY <1>14, SplitMarks
  <2>3. Fresh' => Fresh
    BY <1>5, <2>1
  <2>4. ASSUME driver = "file", logFd' # logFd, ~Marked("reopenFailed")' PROVE logFd' # 2
    <3>1. program = "library" /\ ~Marked("deinit")
      BY <2>4 DEF DirsOK
    <3>2. Opened /\ FdTypes /\ splitSize \in Nat
      BY <1>17, <2>4, <3>1 DEF Spoilt, ProgramsInv, LibOK, FdInv, LogInv, TypeOK
    <3> DEFINE closed == [fdtab EXCEPT ![logFd] = NULL]
               S == {n \in Nums : closed[n] = NULL}
    <3>3. logFd' = Min(S) /\ Cardinality(current) > splitSize
      <4>1. <<"reopenFailed", NULL>> \notin marks'
        BY <2>4 DEF Marked
      <4> QED BY <1>14, <2>4, <4>1 DEF Split, Mark
    <3>4. current # {}
      <4>1. Cardinality({}) = 0
        BY FS_EmptySet
      <4> QED BY <3>2, <3>3, <4>1
    <3>5. logFd \in Nums /\ fdtab[logFd] = "log" /\ fdtab[2] = "std"
      BY <3>2, <3>4, NumFacts DEF Opened
    <3>6. closed[2] = "std" /\ closed[logFd] = NULL
      BY <3>2, <3>5, NumFacts DEF FdTypes
    <3> HIDE DEF closed
    <3>7. S \in SUBSET Nat /\ S # {}
      BY <3>5, <3>6, NumFacts
    <3>8. 2 \notin S
      BY <3>6, NumFacts
    <3> HIDE DEF S
    <3> QED BY <3>3, <3>7, <3>8, MinFact
  <2> QED BY <1>3, <1>4, <2>1, <2>2, <2>3, <2>4
<1>15. ASSUME NEW t \in Users, Configure(t) PROVE DirsOK'
  <2>1. lpc[t] = "configure" /\ Fresh /\ dirs = {<<>>}
    BY <1>15 DEF Configure, Fresh, DirsOK
  <2>4. \A e \in marks' : e \in marks \/ e[1] # "deinit"
    BY <1>15 DEF Configure, InitStderr, InitFile, InitSyslog, Mark
  <2>2. CASE logType # "file"
    <3>1. UNCHANGED dirs /\ (driver' = driver \/ driver' \in {"stderr", "rsyslog"})
      BY <1>15, <2>2 DEF Configure, InitStderr, InitFile, InitSyslog
    <3>2. OnlyPathMade' /\ <<>> \in dirs'
      BY <2>1, <3>1 DEF OnlyPathMade
    <3>3. driver' # "file"
      <4>1. driver # "file"
        <5>1. ASSUME driver = "file" PROVE FALSE
          <6>1. program = "library"
            BY <5>1 DEF DirsOK
          <6>2. driver = NULL
            BY <2>1, <6>1 DEF ProgramsInv, LibOK, LibAlways
          <6> QED BY <5>1, <6>2, LogAssumption
        <5> QED BY <5>1
      <4> QED BY <3>1, <4>1
    <3> QED BY <1>1, <2>1, <3>1, <3>2, <3>3 DEF DirsOK, LostOnlyToDirectory
  <2>3. CASE logType = "file"
    <3>1. program = "library" /\ ident \in Idents
      BY <2>3 DEF DirsOK
    <3>2. LibAlways /\ \A u \in Runners : u = t
      <4>1. t \in Runners
        BY <2>1 DEF Runners
      <4> QED BY <3>1, <4>1 DEF ProgramsInv, LibOK, LibAlways
    <3>3. ~Marked("deinit") /\ once = "running"
      BY <2>1, <3>2 DEF LibAlways, Runners, Spoilt
    <3>4. InitFile /\ driver' = "file"
      BY <1>15, <2>3 DEF Configure, InitFile
    <3>5. ~Fresh'
      <4>1. lpc' = [lpc EXCEPT ![t] = "mutex"] /\ once' = once
        BY <1>15, <3>4, LogAssumption DEF Configure, Goto
      <4>2. \A u \in Users : lpc'[u] # "configure"
        BY <1>2, <3>2, <4>1 DEF Runners
      <4> QED BY <3>3, <4>1, <4>2 DEF Fresh
    <3>6. <<>> \in dirs' /\ OnlyPathMade' /\ LostOnlyToDirectory'
      BY <1>15, <3>1, <3>4, FileOpened
    <3>7. ~Marked("deinit")'
      BY <1>4, <2>4, <3>3
    <3> QED BY <1>1, <3>1, <3>5, <3>6, <3>7 DEF DirsOK
  <2> QED BY <2>2, <2>3
<1>16. ASSUME NEW t \in Users, LogStep(t) PROVE DirsOK'
  BY <1>11, <1>12, <1>13, <1>14, <1>15, <1>16 DEF LogStep
<1> QED
  BY <1>6, <1>7, <1>8, <1>9, <1>10, <1>16, Calls DEF LibraryCall

\* The log goes where log_init was first told to, unless a line came before log_init's end or
\* log_deinit was called.
THEOREM Sink == Spec => []SinkAsAsked
<1>1. ProgramsInv => SinkAsAsked
  <2> SUFFICES ASSUME ProgramsInv, Straight, once = "done",
                      NEW type \in {"file", "rsyslog"}, <<"asked", type>> \in marks
               PROVE  <<"asked", driver>> \in marks
    BY DEF SinkAsAsked, Straight
  <2>1. lpc[Main] # "configure"
    BY DEF ProgramsInv, SinkOK
  <2>2. driver = type
    BY <2>1 DEF ProgramsInv, SinkOK, Asked
  <2> QED BY <2>2
<1> QED
  BY <1>1, ProgramsInvariance, PTL

\* For any file names: the log goes where log_init was first told to, opening it makes the
\* directories of its path and nothing else, and it is lost to stderr only where its own name
\* was made a directory, a name whose one slash is its first character, or where the system
\* refused a directory or the file.
THEOREM LogSink == Spec => []LogReachesSink
<1>1. ProgramsInit => DirsOK
  <2> SUFFICES ASSUME ProgramsInit PROVE DirsOK
    OBVIOUS
  <2>1. dirs = {<<>>} /\ logType = "env" /\ driver = NULL
    BY DEF ProgramsInit, LogInit0
  <2>2. driver # "file"
    BY <2>1, LogAssumption
  <2> QED BY <2>1, <2>2 DEF DirsOK, OnlyPathMade, LostOnlyToDirectory
<1>2. ProgramsInv /\ DirsOK /\ [Next]_allVars => DirsOK'
  BY DirsKept
<1>3. ProgramsInit /\ [][Next]_allVars /\ []ProgramsInv => []DirsOK
  BY <1>1, <1>2, PTL
<1>4. DirsOK => OnlyPathMade /\ LostOnlyToDirectory
  BY DEF DirsOK
<1> QED
  BY <1>3, <1>4, ProgramsInvariance, Sink, PTL DEF Spec, LogReachesSink

\* Until log_deinit, if the log has a driver and every split could open its file again,
\* log_print never writes to a socket or a file that is not the log's.
THEOREM NoStrays == Spec => []StraysOnlyUnopened
<1>1. ProgramsInv => StraysOnlyUnopened
  <2> SUFFICES ASSUME ProgramsInv, ~Spoilt, NEW kind \in Foreign, <<"write", kind>> \in marks
               PROVE  once = "done" /\ driver = NULL
    BY DEF StraysOnlyUnopened, Foreign, Spoilt
  <2>1. Marked("write")
    BY DEF Marked
  <2>2. program = "library"
    BY <2>1 DEF ProgramsInv, ServerLog
  <2> QED BY <2>2 DEF ProgramsInv, LibOK, Opened
<1> QED
  BY <1>1, ProgramsInvariance, PTL

\* For any number of descriptors: syslog() spares the sockets of a server that was started
\* with 0, 1 and 2 open, neither a client nor the robot gets the number 0 while syslogd has
\* never gone, and a server that stays up after a failed start holds nothing but the robot's
\* port, if its worker listens there, and the clients', if it was listen() that failed.
THEOREM NumbersApart == Spec => []NumbersKeptApart
<1>1. ProgramsInv => SyslogSparesSockets
  <2>1. CASE program = "library"
    BY <2>1 DEF ProgramsInv, LibOK, LibAlways, SyslogSparesSockets
  <2>2. CASE program # "library"
    BY <2>2 DEF ProgramsInv, FdInv, OpenOK, SyslogSparesSockets
  <2> QED BY <2>1, <2>2
<1>2. ProgramsInv => ZeroNeedsSyslogGone
  <2>1. CASE program = "library"
    BY <2>1, NumFacts DEF ProgramsInv, FdInv, FdTypes, ZeroNeedsSyslogGone
  <2>2. CASE program # "library"
    BY <2>2 DEF ProgramsInv, FdInv, ZeroOK, ZeroNeedsSyslogGone
  <2> QED BY <2>1, <2>2
<1>3. ProgramsInv => FailedStartKeepsLittle
  <2> SUFFICES ASSUME ProgramsInv PROVE FailedStartKeepsLittle
    OBVIOUS
  <2>1. CASE program = "library"
    BY <2>1 DEF ProgramsInv, FdInv, FdTypes, FailedStartKeepsLittle
  <2>2. CASE program # "library"
    <3>1. \A n \in Nums : fdtab[n] \in {"std", "log", "syslog", "app", "client", "listen", "epoll", "robot", NULL}
      BY DEF ProgramsInv, FdInv, FdTypes
    <3>2. mpc = "asleep" => mpc \notin HeldPlaces \cup EpollPlaces \cup AcceptPlaces \cup {"serve"}
      BY DEF HeldPlaces, EpollPlaces, AcceptPlaces
    <3> QED BY <2>2, <3>1, <3>2 DEF ProgramsInv, FdInv, FdOK, FailedStartKeepsLittle
  <2> QED BY <2>1, <2>2
<1> QED
  BY <1>1, <1>2, <1>3, ProgramsInvariance, PTL DEF NumbersKeptApart

===============================================================================
