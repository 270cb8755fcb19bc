SPECIFICATION FairSpec
CONSTANTS
  t = t
  u = u
  Threads <- MCThreads
  FdOf <- MCFdOf
  Fds = {5, 12}
  MaxQuestions = 2
  NULL = NULL
INVARIANTS
  FaultNeedsSharing
  QuestionIsOwn
  AnswerIsOwn
PROPERTY QuestionAnswered
CHECK_DEADLOCK FALSE
