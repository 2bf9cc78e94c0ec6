SPECIFICATION FairSpec
CONSTANTS
  c1 = c1
  c2 = c2
  s1 = s1
  s2 = s2
  Conns = {c1, c2}
  Shared = {c1}
  Savers = {}
  Sessions = {s1}
  Ops = {"many", "manual", "commit", "rollback", "close", "release"}
  Buffer = 1
  MaxCalls = 3
  MaxFaults = 1
PROPERTIES
  EveryCallAnswered
CHECK_DEADLOCK FALSE
