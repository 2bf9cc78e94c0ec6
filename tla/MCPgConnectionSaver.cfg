SPECIFICATION Spec
CONSTANTS
  c1 = c1
  c2 = c2
  s1 = s1
  s2 = s2
  Conns = {c1}
  Shared = {}
  Savers = {c1}
  Sessions = {s1}
  Ops = {"write"}
  Buffer = 1
  MaxCalls = 2
  MaxFaults = 0
INVARIANTS
  SavedMemoryIsStored
CHECK_DEADLOCK FALSE
