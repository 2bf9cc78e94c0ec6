SPECIFICATION MCSpec
CONSTANTS
  c1 = c1
  c2 = c2
  s1 = s1
  Conns = {c1, c2}
  Shared = {}
  Savers = {}
  Sessions = {s1}
  Ops = {"write", "commit", "rollback", "auto", "close"}
  Buffer = 1
  MaxCalls = 4
  MaxFaults = 1
  query = query
  ofTwo = ofTwo
  twin = twin
  mutation = mutation
  fragment = fragment
  d1 = d1
  d2 = d2
  alice = alice
  bob = bob
  Clients = {d1, d2}
  Requests = {query, ofTwo, twin, mutation, fragment}
  Auths = {alice, bob}
  Mutations = {mutation, fragment}
  Leading = {mutation}
  QueryHash <- MCHash
  VarsHash <- MCVars
  MaxEntries = 1
  Ttl = 1
  MaxVersion = 2
  owned = owned
  common = common
  r1 = r1
  r2 = r2
  Owned = {owned}
  Common = {common}
  Inserted <- MCInserted
  Callers = {r1, r2}
  EventRoom = 2
  MaxChanges = 3
SYMMETRY Symmetry
INVARIANTS
  FlagMatchesServer
  AnswersHold
  TransactionsStayApart
  AnswersExplained
  CacheBounded
  WatchersKeepUp
CHECK_DEADLOCK FALSE
