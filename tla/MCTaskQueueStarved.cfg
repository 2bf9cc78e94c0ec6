\* One connection for two workers: the idle one keeps it.
SPECIFICATION FairSpec
CONSTANTS
  a = a
  b = b
  Tasks = {a}
  Undecodable = {}
  Workers = {w1, w2}
  ScheduledAt <- MCScheduledAt
  MaxNow = 1
  TasksPerLoop = 1
  PoolSize = 1
  MaxRetries = 1
  MaxFaults = 0
  NoTask = NoTask
  w1 = w1
  w2 = w2
PROPERTY EveryTaskSettles
CHECK_DEADLOCK FALSE
