SPECIFICATION Spec
CONSTANTS
  m = m
  w = w
  Users <- MCUsers
  Main = m
  Other = w
  Nums <- MCNums
  Idents <- MCIdents
  Kinds = {"thread", "ignoring", "queue", "sleeping", "robot", "library"}
  Types = {"stdout", "file", "rsyslog"}
  SplitSizes = {0, 1}
  MaxLines = 6
  MaxUserLines = 3
  MaxClock = 2
  NULL = NULL
INVARIANTS
  OneWriter
  SplittingSound
  StraysOnlyUnopened
  LogReachesSink
  NobodyStuck
  NumbersKeptApart
CHECK_DEADLOCK FALSE
