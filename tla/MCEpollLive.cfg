SPECIFICATION EpollFairSpec
CONSTANTS
  Conns = {a, b, c}
  Fds = {4}
  Listen = 3
  NULL = NULL
  MaxEvents = 2
  SlotChunk = 1
  ListenQueue = 2
  RecvMax = 1
  MaxSend = 2
  EdgeTriggered = FALSE
  AddMayFail = FALSE
PROPERTIES
  ClientAnsweredIfRoom
  HangupClosed
  RequestsHandedOn
CHECK_DEADLOCK FALSE
