----------------------------- MODULE QueryCache -----------------------------
(***************************************************************************)
(* The GraphQL result cache (src/src/graphql/query_cache.rs).  Requests of *)
(* several clients share one cache: a query is looked up under a read      *)
(* lock, executed without a lock on a miss, and stored under a write lock; *)
(* a mutation is executed and then empties the cache.  The lock is free in *)
(* between, so a step is one critical section or one schema.execute().     *)
(* The result of the auth function goes into the context an execution      *)
(* reads (graphql/handlers.rs) and not into the key of the cache.          *)
(*                                                                         *)
(* The database is a version number: mutations raise it, an execution      *)
(* answers with the version it saw.  Entries age by Tick up to Ttl.        *)
(***************************************************************************)
EXTENDS Naturals, FiniteSets

CONSTANTS
  Clients,     \* requests in flight
  Requests,    \* (document, operation name, variables) triples
  Auths,       \* what the auth function returns: who asks
  Mutations,   \* the requests whose selected operation is a mutation
  Leading,     \* the requests whose trimmed document starts with "mutation"
  QueryHash,   \* query_hash of a request
  VarsHash,    \* variables_hash of a request
  MaxEntries,  \* max_entries (256 in the code)
  Ttl,         \* ticks an entry is served for (5 s in the code)
  MaxVersion   \* bound: executed mutations

ASSUME QueryCacheAssumption ==
  /\ Mutations \subseteq Requests /\ Leading \subseteq Requests
  /\ MaxEntries \in Nat \ {0} /\ Ttl \in Nat /\ MaxVersion \in Nat
  /\ Requests # {} /\ Auths # {}
  /\ DOMAIN QueryHash = Requests /\ DOMAIN VarsHash = Requests

VARIABLES
  db,        \* version of the data
  cache,     \* query hash -> variables hash -> cached response
  pc,        \* where each client's request is
  req, who,  \* the request of each client, and its auth_obj
  answer,    \* the response a client holds or got
  \* History.
  returned,  \* the highest version whose mutation has returned
  floor,     \* `returned' when the client's request began
  ran        \* the client's request was executed, not served from the cache

asking == <<req, who>>
cacheVars == <<db, cache, pc, asking, answer, returned, floor, ran>>
histVars == <<returned, floor, ran>>

\* of, by: the request that was executed and who asked it; version: what it
\* saw; age: ticks since it was stored; raced: a mutation returned between its
\* execution and its storing (history).
Fresh(r, a, version) == [of |-> r, by |-> a, version |-> version, age |-> 0, raced |-> FALSE]
\* What req, who and answer hold between two requests of a client.
AnyRequest == CHOOSE r \in Requests : TRUE
AnyAuth == CHOOSE a \in Auths : TRUE
Nothing == Fresh(AnyRequest, AnyAuth, 0)

CacheInit ==
  /\ db = 0
  /\ cache = << >>
  /\ pc = [c \in Clients |-> "idle"]
  /\ req = [c \in Clients |-> AnyRequest]
  /\ who = [c \in Clients |-> AnyAuth]
  /\ answer = [c \in Clients |-> Nothing]
  /\ returned = 0
  /\ floor = [c \in Clients |-> 0]
  /\ ran = [c \in Clients |-> FALSE]

Goto(c, where) == pc' = [pc EXCEPT ![c] = where]

-----------------------------------------------------------------------------

\* execute_gql_request makes the context of the request, execute and
\* execute_to_bytes look whether it is a mutation.
Begin(c, r, a) ==
  /\ pc[c] = "idle"
  /\ req' = [req EXCEPT ![c] = r]
  /\ who' = [who EXCEPT ![c] = a]
  /\ floor' = [floor EXCEPT ![c] = returned]
  /\ ran' = [ran EXCEPT ![c] = FALSE]
  /\ Goto(c, IF r \in Leading THEN "mutate" ELSE "lookup")
  /\ UNCHANGED <<db, cache, answer, returned>>

\* schema.execute(): a mutation changes the data, unless it fails.  Resolvers
\* read the auth_obj of the context.
Executed(c) ==
  LET r == req[c] IN
    /\ IF r \in Mutations /\ db < MaxVersion THEN db' \in {db, db + 1} ELSE db' = db
    /\ answer' = [answer EXCEPT ![c] = Fresh(r, who[c], db')]
    /\ ran' = [ran EXCEPT ![c] = TRUE]

Mutate(c) ==
  /\ pc[c] = "mutate"
  /\ Executed(c)
  /\ Goto(c, "invalidate")
  /\ UNCHANGED <<cache, asking, returned, floor>>

\* Mutant: invalidate() does nothing.
Untouched == cache

\* invalidate(): the entries stay, their results go.
Emptied == [q \in DOMAIN cache |-> << >>]

\* The mutation returns.  It overtakes the executions not stored yet.
Invalidate(c) ==
  /\ pc[c] = "invalidate"
  /\ cache' = Emptied
  /\ returned' = IF answer[c].version > returned THEN answer[c].version ELSE returned
  /\ answer' = [d \in Clients |->
       IF pc[d] = "store" /\ answer[d].version < answer[c].version
       THEN [answer[d] EXCEPT !.raced = TRUE] ELSE answer[d]]
  /\ Goto(c, "answered")
  /\ UNCHANGED <<db, asking, floor, ran>>

-----------------------------------------------------------------------------
\* A live entry under the request's two hashes.
Cached(r) ==
  /\ QueryHash[r] \in DOMAIN cache
  /\ VarsHash[r] \in DOMAIN cache[QueryHash[r]]
  /\ cache[QueryHash[r]][VarsHash[r]].age < Ttl

Lookup(c) ==
  /\ pc[c] = "lookup"
  /\ IF Cached(req[c])
     THEN /\ answer' = [answer EXCEPT ![c] = cache[QueryHash[req[c]]][VarsHash[req[c]]]]
          /\ Goto(c, "answered")
     ELSE /\ Goto(c, "execute")
          /\ UNCHANGED answer
  /\ UNCHANGED <<db, cache, asking, histVars>>

\* A response with errors is returned and not stored.
ExecuteQuery(c) ==
  /\ pc[c] = "execute"
  /\ Executed(c)
  /\ \E errors \in BOOLEAN : Goto(c, IF errors THEN "answered" ELSE "store")
  /\ UNCHANGED <<cache, asking, returned, floor>>

\* Mutant: the budget is checked with > instead of >=.
EvictedLate == IF Cardinality(DOMAIN cache) > MaxEntries THEN << >> ELSE cache

\* Over budget, the whole cache goes, whichever query is stored.
Evicted == IF Cardinality(DOMAIN cache) >= MaxEntries THEN << >> ELSE cache

\* HashMap::insert.
Insert(map, k, e) == [x \in DOMAIN map \cup {k} |-> IF x = k THEN e ELSE map[x]]

Store(c) ==
  /\ pc[c] = "store"
  /\ LET q == QueryHash[req[c]]
         results == IF q \in DOMAIN Evicted THEN Evicted[q] ELSE << >>
     IN cache' = Insert(Evicted, q, Insert(results, VarsHash[req[c]], answer[c]))
  /\ Goto(c, "answered")
  /\ UNCHANGED <<db, asking, answer, histVars>>

Return(c) ==
  /\ pc[c] = "answered"
  /\ Goto(c, "idle")
  /\ req' = [req EXCEPT ![c] = AnyRequest]
  /\ who' = [who EXCEPT ![c] = AnyAuth]
  /\ answer' = [answer EXCEPT ![c] = Nothing]
  /\ floor' = [floor EXCEPT ![c] = 0]
  /\ ran' = [ran EXCEPT ![c] = FALSE]
  /\ UNCHANGED <<db, cache, returned>>

\* Instant::elapsed, as far as the TTL tells it apart.
Aged(e) == [e EXCEPT !.age = IF @ < Ttl THEN @ + 1 ELSE @]

Tick ==
  /\ \E q \in DOMAIN cache : \E v \in DOMAIN cache[q] : cache[q][v].age < Ttl
  /\ cache' = [q \in DOMAIN cache |-> [v \in DOMAIN cache[q] |-> Aged(cache[q][v])]]
  /\ UNCHANGED <<db, pc, asking, answer, histVars>>

CacheNext ==
  \/ \E c \in Clients : \/ \E r \in Requests, a \in Auths : Begin(c, r, a)
                        \/ Mutate(c) \/ Invalidate(c) \/ Lookup(c)
                        \/ ExecuteQuery(c) \/ Store(c) \/ Return(c)
  \/ Tick

CacheSpec == CacheInit /\ [][CacheNext]_cacheVars

-----------------------------------------------------------------------------
\* Every answer is explained.  A query that began after a mutation returned is
\* answered from older data only by a live entry whose execution that mutation
\* overtook: invalidate() covers every other interleaving.  A mutation is
\* answered without being executed only when its document does not begin with
\* the keyword.  What was executed for another request, or for another result of
\* the auth function, is given only by a live entry under the same two hashes:
\* no interleaving mixes up the answers of two executions, and nothing less than
\* the key decides whose answer one gets.  The key does not hold the auth_obj,
\* so this is as much as the cache promises two users of one schema.
StaleOnlyWhenRaced(c) ==
  answer[c].version < floor[c] => ~ran[c] /\ answer[c].raced

SkippedMutationsAreHidden(c) ==
  req[c] \in Mutations /\ ~ran[c] => req[c] \notin Leading

ForeignAnswersAreShared(c) ==
  answer[c].of # req[c] \/ answer[c].by # who[c] =>
    /\ ~ran[c]
    /\ QueryHash[answer[c].of] = QueryHash[req[c]]
    /\ VarsHash[answer[c].of] = VarsHash[req[c]]

ServedAlive(c) == ~ran[c] => answer[c].age < Ttl

AnswersExplained ==
  \A c \in Clients : pc[c] = "answered" =>
    /\ StaleOnlyWhenRaced(c) /\ SkippedMutationsAreHidden(c)
    /\ ForeignAnswersAreShared(c) /\ ServedAlive(c)

\* The header of the file and the doc of execute() say that mutations are
\* always executed and never cached.
MutationsAreExecuted ==
  \A c \in Clients : pc[c] = "answered" /\ req[c] \in Mutations => ran[c]

\* The cache holds at most MaxEntries queries, even while several requests
\* that missed at the same time store theirs.
CacheBounded == Cardinality(DOMAIN cache) <= MaxEntries
=============================================================================
