SPECIFICATION EchoSpec
CONSTANTS
  Conns = {a, b}
  Fds = {4, 5}
  Listen = 3
  NULL = NULL
  MaxEvents = 2
  SlotChunk = 1
  ListenQueue = 2
  RecvMax = 1
  MaxSend = 1
  EdgeTriggered = TRUE
  AddMayFail = FALSE
  Workers = {w1, w2}
  SendMayFail = FALSE
INVARIANT ReplyToSender
CHECK_DEADLOCK FALSE
