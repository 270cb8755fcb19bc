SPECIFICATION FairSpec
CONSTANTS
  Producers = {p1}
  Consumers = {c1, c2, c3}
  Tasks = {t1, t2, t3}
  Nodes = {n1, n2}
  NULL = NULL
INVARIANTS
  ListShape
  CountTracksQueue
  NoLostWakeup
PROPERTIES
  Refinement
  QueuedTaskTaken
