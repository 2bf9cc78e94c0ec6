SPECIFICATION Spec
CONSTANTS
  p1 = p1
  p2 = p2
  r1 = r1
  r2 = r2
  r3 = r3
  None = None
  Runtimes = {p1, p2}
  Requests = {r1, r2, r3}
  Remote = {r1, r3}
  Local = {r2}
  LeaseTtl = 2
  Scenarios <- MCScenarios
  MaxMoves = 1
SYMMETRY Symmetry
INVARIANTS
  SingleOwner
  ExecutedOncePlusRecoveries
  NoMessageLost
PROPERTIES
  StolenOnlyAroundStops
  ImplementsAtMostOnce
CHECK_DEADLOCK FALSE
