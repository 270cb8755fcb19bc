SPECIFICATION Spec
CONSTANTS
  Cmds = {x, y, z}
  Banned = {z}
  MaxTasks = 2
  Sessions = {1, 2}
  MayCoalesce = FALSE
  AcceptMayFail = FALSE
  NULL = NULL
INVARIANT CommandForwarded
CHECK_DEADLOCK FALSE
