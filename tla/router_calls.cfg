SPECIFICATION FairSpec
CONSTANTS
  a = a
  b = b
  c1 = c1
  c2 = c2
  t = t
  Nodes = {a, b}
  Calls <- TwoCalls
  CallerOf <- SameCaller
  Tasks = {t}
  TaskOf <- TwoTasks
  Undirected = {c2}
  MaxPending = 1
  HighWater = 0
  MaxEvents = 1
INVARIANTS NoLeakedRequest NoLostWaiter
PROPERTIES ImplementsRemoteCall PendingCleared
CHECK_DEADLOCK FALSE
