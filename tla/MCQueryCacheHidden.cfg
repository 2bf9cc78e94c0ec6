SPECIFICATION CacheSpec
CONSTANTS
  query = query
  ofTwo = ofTwo
  twin = twin
  mutation = mutation
  fragment = fragment
  d1 = d1
  d2 = d2
  alice = alice
  bob = bob
  Clients = {d1}
  Auths = {alice}
  Mutations = {mutation, fragment}
  Leading = {mutation}
  QueryHash <- MCHash
  VarsHash <- MCVars
  MaxEntries = 1
  Ttl = 1
  Requests = {query, ofTwo, twin, mutation, fragment}
  MaxVersion = 2
INVARIANT MutationsAreExecuted
CHECK_DEADLOCK FALSE
