SPECIFICATION EchoFairSpec
CONSTANTS
  Conns = {a, b}
  Fds = {4, 5}
  Listen = 3
  NULL = NULL
  MaxEvents = 2
  SlotChunk = 1
  ListenQueue = 2
  RecvMax = 2
  MaxSend = 2
  EdgeTriggered = TRUE
  AddMayFail = FALSE
  Workers = {w1, w2}
  SendMayFail = TRUE
INVARIANTS
  EachRequestOnce
  MisdeliveryNeedsClose
PROPERTIES
  RequestAnswered
  EchoRefinement
CHECK_DEADLOCK FALSE
