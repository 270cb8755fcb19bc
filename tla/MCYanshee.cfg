SPECIFICATION FairSpec
CONSTANTS
  Cmds = {x, y, z}
  Banned = {z}
  MaxTasks = 4
  Sessions = {1, 2, 3}
  MayCoalesce = TRUE
  AcceptMayFail = TRUE
  NULL = NULL
INVARIANTS
  OneCommandOnWire
  ExecutedInOrder
  AnswersFollowRobot
PROPERTIES
  Refinement
  EveryTaskSettled
  CommandsAnswered
CHECK_DEADLOCK FALSE
