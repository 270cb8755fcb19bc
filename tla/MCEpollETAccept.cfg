SPECIFICATION EpollFairSpec
CONSTANTS
  Conns = {a, b}
  Fds = {4, 5}
  Listen = 3
  NULL = NULL
  MaxEvents = 2
  SlotChunk = 1
  ListenQueue = 2
  RecvMax = 1
  MaxSend = 1
  EdgeTriggered = TRUE
  AddMayFail = FALSE
PROPERTIES
  ClientAnswered
CHECK_DEADLOCK FALSE
