SPECIFICATION FairSpec
CONSTANTS
  early = early
  steady = steady
  late = late
  Conns <- MCConns
  Fds = {1, 2}
  Threads = {t, u}
  BufSize = 3
  MaxSend <- MCMaxSend
  MayLeave <- MCMayLeave
  NoSignal = FALSE
  NULL = NULL
INVARIANTS
  OwnThreadUnlessRaced
  StrangersOnlyFromFreedBuffers
PROPERTY ServedAnswered
CHECK_DEADLOCK FALSE
