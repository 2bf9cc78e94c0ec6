SPECIFICATION FairSpec
CONSTANTS
  a = a
  b = b
  Tasks = {a, b}
  Undecodable = {b}
  Workers = {w1, w2}
  ScheduledAt <- MCScheduledAt
  MaxNow = 1
  TasksPerLoop = 1
  PoolSize = 3
  MaxRetries = 1
  MaxFaults = 1
  NoTask = NoTask
  w1 = w1
  w2 = w2
INVARIANTS NoTaskLost OverlapOnlyAfterExpiry StartsBounded
PROPERTIES EveryTaskSettles ImplementsAtLeastOnce
CHECK_DEADLOCK FALSE
