SPECIFICATION EpollSpec
CONSTANTS
  Conns = {a, b, c}
  Fds = {4, 5, 6}
  Listen = 3
  NULL = NULL
  MaxEvents = 2
  SlotChunk = 1
  ListenQueue = 2
  RecvMax = 2
  MaxSend = 2
  EdgeTriggered = TRUE
  AddMayFail = TRUE
SYMMETRY Symmetry
INVARIANTS
  TableAgrees
  BatchFresh
  TasksFollowStream
CHECK_DEADLOCK FALSE
