CONSTANTS
  r1 = r1
  r2 = r2
  Requests <- MCRequests
  Workers = {1, 2}
  Apps <- MCApps
  Builds = {"gil", "free"}
  WsgiRoom = 1
  AsgiRoom = 1
  BodyLimit = 1
SPECIFICATION MCSpec
INVARIANTS ResponsesAreWhole OnlyBadAppsFail
PROPERTIES EveryoneIsServed
CHECK_DEADLOCK FALSE
