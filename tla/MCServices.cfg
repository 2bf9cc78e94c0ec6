SPECIFICATION MCSpec
CONSTANTS
  root = root
  s1 = s1
  a1 = a1
  a2 = a2
  i1 = i1
  i2 = i2
  r1 = r1
  r2 = r2
  c1 = c1
  c2 = c2
  x = x
  y = y
  Root = root
  Services = {s1}
  Policy <- Permanent
  Sups = {a1, a2}
  StaticSups = {a2}
  Insts = {i1, i2}
  Requests = {r1, r2}
  MaxChildren = 1
  MaxDynamic = 2
  InboxSize = 1
  MaxRestarts = 1
  MaxAsks = 3
  Conns = {c1, c2}
  Channels = {x, y}
  Buffer = 2
  MaxFaults = 2
  MaxCalls = 3
INVARIANTS
  OverrunOnlyByRace
  OneFuturePerService
  RoutingFollowsCalls
PROPERTIES
  StopIsObeyed
  FailedServiceRestarts
  SubscribeTakesEffect
CHECK_DEADLOCK FALSE
