-------------------------- MODULE QueryCacheProofs --------------------------
(***************************************************************************)
(* Proofs about QueryCache, for every number of clients and requests, all  *)
(* hashes, budgets and lifetimes.                                          *)
(***************************************************************************)
EXTENDS QueryCache, FiniteSetTheorems, TLAPS

States == {"idle", "mutate", "invalidate", "lookup", "execute", "store", "answered"}
Response == [of : Requests, by : Auths, version : Nat, age : Nat, raced : BOOLEAN]

TypeInv ==
  /\ db \in Nat /\ returned \in Nat
  /\ pc \in [Clients -> States]
  /\ req \in [Clients -> Requests] /\ who \in [Clients -> Auths]
  /\ answer \in [Clients -> Response]
  /\ floor \in [Clients -> Nat]
  /\ ran \in [Clients -> BOOLEAN]
  /\ \A q \in DOMAIN cache : \A v \in DOMAIN cache[q] : cache[q][v] \in Response

\* What CHOOSE gives is a request and an auth_obj, as there are some.
LEMMA NothingType == AnyRequest \in Requests /\ AnyAuth \in Auths /\ Nothing \in Response
BY QueryCacheAssumption DEF AnyRequest, AnyAuth, Nothing, Fresh, Response

\* An execution answers the request with what it saw, which is not older than
\* any mutation that has returned.
LEMMA ExecutedAnswers ==
  ASSUME TypeInv, NEW c \in Clients, Executed(c)
  PROVE  /\ db' \in Nat /\ db <= db'
         /\ answer' = [answer EXCEPT ![c] = Fresh(req[c], who[c], db')]
         /\ answer' \in [Clients -> Response]
         /\ ran' = [ran EXCEPT ![c] = TRUE]
<1>1. db' \in Nat /\ db <= db'
  BY QueryCacheAssumption DEF TypeInv, Executed
<1>2. Fresh(req[c], who[c], db') \in Response
  BY <1>1 DEF Fresh, Response, TypeInv
<1>3. QED
  BY <1>1, <1>2 DEF TypeInv, Executed

\* After a store there is one entry more, where the hashes say; of the others
\* all or none are left.
LEMMA StoreAdds ==
  ASSUME NEW c \in Clients, Store(c),
         NEW q \in DOMAIN cache', NEW v \in DOMAIN cache'[q]
  PROVE  \/ q = QueryHash[req[c]] /\ v = VarsHash[req[c]] /\ cache'[q][v] = answer[c]
         \/ q \in DOMAIN cache /\ v \in DOMAIN cache[q] /\ cache'[q][v] = cache[q][v]
<1> DEFINE p == QueryHash[req[c]]
           u == VarsHash[req[c]]
           results == IF p \in DOMAIN Evicted THEN Evicted[p] ELSE << >>
           stored == Insert(results, u, answer[c])
           all == Evicted
<1>1. cache' = Insert(all, p, stored)
  BY DEF Store
<1>2. \A x \in DOMAIN all : x \in DOMAIN cache /\ all[x] = cache[x]
  BY DEF Evicted
<1>3. \A x \in DOMAIN results : p \in DOMAIN cache /\ x \in DOMAIN cache[p] /\ results[x] = cache[p][x]
  BY <1>2
<1> HIDE DEF results
<1>4. /\ DOMAIN stored = DOMAIN results \cup {u}
      /\ stored[u] = answer[c]
      /\ \A x \in DOMAIN results : x # u => stored[x] = results[x]
  BY DEF Insert
<1> HIDE DEF stored, all
<1>5. /\ DOMAIN cache' = DOMAIN all \cup {p}
      /\ cache'[p] = stored
      /\ \A x \in DOMAIN all : x # p => cache'[x] = all[x]
  BY <1>1 DEF Insert
<1>6. QED
  BY <1>2, <1>3, <1>4, <1>5

\* Ageing leaves everything else of an entry as it is.
LEMMA AgedKeeps ==
  ASSUME NEW e \in Response
  PROVE  /\ Aged(e) \in Response /\ Aged(e).of = e.of
         /\ Aged(e).version = e.version /\ Aged(e).raced = e.raced
BY QueryCacheAssumption DEF Aged, Response

\* A step keeps the types: hashes map to responses, clients to their stage.
LEMMA TypeStep == TypeInv /\ [CacheNext]_cacheVars => TypeInv'
<1> SUFFICES ASSUME TypeInv, [CacheNext]_cacheVars PROVE TypeInv'
  OBVIOUS
<1> USE DEF TypeInv, Goto, histVars, asking
<1>1. ASSUME NEW c \in Clients, NEW r \in Requests, NEW a \in Auths, Begin(c, r, a) PROVE TypeInv'
  BY <1>1 DEF Begin, States
<1>2. ASSUME NEW c \in Clients, Mutate(c) PROVE TypeInv'
  BY <1>2, ExecutedAnswers DEF Mutate, States
<1>3. ASSUME NEW c \in Clients, Invalidate(c) PROVE TypeInv'
  <2>1. answer' \in [Clients -> Response]
    BY <1>3 DEF Invalidate, Response
  <2>2. returned' \in Nat
    BY <1>3 DEF Invalidate, Response
  <2>3. QED
    BY <2>1, <2>2, <1>3 DEF Invalidate, Emptied, States
<1>4. ASSUME NEW c \in Clients, Lookup(c) PROVE TypeInv'
  BY <1>4 DEF Lookup, Cached, States
<1>5. ASSUME NEW c \in Clients, ExecuteQuery(c) PROVE TypeInv'
  BY <1>5, ExecutedAnswers DEF ExecuteQuery, States
<1>6. ASSUME NEW c \in Clients, Store(c) PROVE TypeInv'
  <2>1. \A q \in DOMAIN cache' : \A v \in DOMAIN cache'[q] : cache'[q][v] \in Response
    BY <1>6, StoreAdds
  <2>2. QED
    BY <2>1, <1>6 DEF Store, States
<1>7. ASSUME NEW c \in Clients, Return(c) PROVE TypeInv'
  BY <1>7, NothingType DEF Return, States, asking
<1>8. CASE Tick
  BY <1>8, AgedKeeps DEF Tick
<1>9. CASE UNCHANGED cacheVars
  BY <1>9 DEF cacheVars
<1>10. QED
  BY <1>1, <1>2, <1>3, <1>4, <1>5, <1>6, <1>7, <1>8, <1>9 DEF CacheNext

-----------------------------------------------------------------------------
\* An entry lies under the two hashes of the request it answers, and only the
\* executions a mutation overtook are older than the last one that returned:
\* whatever was there when it returned is gone.
Sound(e, bound) == e.version < bound => e.raced
CacheInv ==
  \A q \in DOMAIN cache : \A v \in DOMAIN cache[q] :
    /\ QueryHash[cache[q][v].of] = q /\ VarsHash[cache[q][v].of] = v
    /\ Sound(cache[q][v], returned)

\* What a request has come through when it is at a place of its course.
Executing == {"invalidate", "store"}
CourseInv ==
  /\ returned <= db
  /\ \A c \in Clients :
       /\ floor[c] <= returned
       /\ pc[c] \in {"lookup", "execute", "store"} => req[c] \notin Leading
       /\ pc[c] \in Executing =>
            ran[c] /\ answer[c].of = req[c] /\ answer[c].by = who[c] /\ floor[c] <= answer[c].version /\ answer[c].version <= db
       /\ pc[c] = "store" => Sound(answer[c], returned)
       /\ pc[c] = "lookup" => ~ran[c]

IInv == TypeInv /\ CacheInv /\ CourseInv /\ AnswersExplained

\* The empty cache explains everything.
LEMMA InitHolds == CacheInit => IInv
<1> SUFFICES ASSUME CacheInit PROVE IInv
  OBVIOUS
<1>1. DOMAIN << >> = {}
  OBVIOUS
<1>2. TypeInv
  BY <1>1, NothingType DEF CacheInit, TypeInv, States
<1>3. QED
  BY <1>1, <1>2 DEF CacheInit, IInv, CacheInv, CourseInv, AnswersExplained, Executing

\* A step keeps the invariant, one case per action.
LEMMA Step == IInv /\ [CacheNext]_cacheVars => IInv'
<1> SUFFICES ASSUME IInv, [CacheNext]_cacheVars PROVE IInv'
  OBVIOUS
<1>0. TypeInv /\ TypeInv'
  BY TypeStep DEF IInv
<1>n. \A c \in Clients : /\ answer[c].version \in Nat /\ answer'[c].version \in Nat
                         /\ answer[c].raced \in BOOLEAN
  BY <1>0 DEF TypeInv, Response
<1> USE <1>n DEF IInv, CacheInv, CourseInv, Sound, AnswersExplained, StaleOnlyWhenRaced,
        SkippedMutationsAreHidden, ForeignAnswersAreShared, ServedAlive, Executing, Goto, histVars, asking
<1>1. ASSUME NEW c \in Clients, NEW r \in Requests, NEW a \in Auths, Begin(c, r, a) PROVE IInv'
  BY <1>0, <1>1 DEF Begin, TypeInv
<1>2. ASSUME NEW c \in Clients, Mutate(c) PROVE IInv'
  <2>1. CourseInv'
    BY <1>0, <1>2, ExecutedAnswers DEF Mutate, Fresh, TypeInv
  <2>2. CacheInv' /\ AnswersExplained'
    BY <1>0, <1>2, ExecutedAnswers DEF Mutate, TypeInv
  <2>3. QED
    BY <1>0, <2>1, <2>2
<1>3. ASSUME NEW c \in Clients, Invalidate(c) PROVE IInv'
  <2>1. CacheInv'
    BY <1>3 DEF Invalidate, Emptied
  <2>2. \A d \in Clients :
          /\ answer'[d].of = answer[d].of /\ answer'[d].by = answer[d].by /\ answer'[d].version = answer[d].version
          /\ answer'[d].age = answer[d].age /\ answer[d].raced => answer'[d].raced
          /\ pc[d] = "store" /\ answer[d].version < answer[c].version => answer'[d].raced
    BY <1>0, <1>3 DEF Invalidate, TypeInv, Response
  <2>3. /\ returned' \in Nat /\ returned <= returned' /\ returned' <= db /\ db' = db
        /\ returned' \in {returned, answer[c].version}
    BY <1>0, <1>3 DEF Invalidate, TypeInv
  <2>4. CourseInv'
    BY <1>0, <1>3, <2>2, <2>3 DEF Invalidate, TypeInv
  <2>5. AnswersExplained'
    BY <1>0, <1>3, <2>2 DEF Invalidate, TypeInv
  <2>6. QED
    BY <1>0, <2>1, <2>4, <2>5
<1>4. ASSUME NEW c \in Clients, Lookup(c) PROVE IInv'
  <2>1. CASE Cached(req[c])
    <3>1. CacheInv' /\ CourseInv'
      BY <1>0, <1>4, <2>1 DEF Lookup, TypeInv
    <3>2. PICK e : e = cache[QueryHash[req[c]]][VarsHash[req[c]]]
      OBVIOUS
    <3>3. /\ e \in Response /\ Sound(e, returned) /\ e.age < Ttl
          /\ QueryHash[e.of] = QueryHash[req[c]] /\ VarsHash[e.of] = VarsHash[req[c]]
      BY <1>0, <2>1, <3>2 DEF Cached, TypeInv
    <3>4. answer' = [answer EXCEPT ![c] = e]
      BY <1>4, <2>1, <3>2 DEF Lookup
    <3>5. AnswersExplained'
      BY <1>0, <1>4, <3>3, <3>4 DEF Lookup, TypeInv, Response
    <3>6. QED
      BY <1>0, <3>1, <3>5
  <2>2. CASE ~Cached(req[c])
    BY <1>0, <1>4, <2>2 DEF Lookup, TypeInv
  <2>3. QED
    BY <2>1, <2>2
<1>5. ASSUME NEW c \in Clients, ExecuteQuery(c) PROVE IInv'
  <2>1. CourseInv'
    BY <1>0, <1>5, ExecutedAnswers DEF ExecuteQuery, Fresh, TypeInv
  <2>2. CacheInv'
    BY <1>5 DEF ExecuteQuery
  <2>3. AnswersExplained'
    BY <1>0, <1>5, ExecutedAnswers DEF ExecuteQuery, Fresh, TypeInv
  <2>4. QED
    BY <1>0, <2>1, <2>2, <2>3
<1>6. ASSUME NEW c \in Clients, Store(c) PROVE IInv'
  <2>1. /\ pc[c] = "store" /\ pc' = [pc EXCEPT ![c] = "answered"]
        /\ UNCHANGED <<db, asking, answer, histVars>>
    BY <1>6 DEF Store
  <2>2. CacheInv'
    BY <2>1, <1>6, StoreAdds
  <2>3. CourseInv'
    BY <1>0, <2>1 DEF TypeInv
  <2>4. AnswersExplained'
    BY <1>0, <2>1 DEF TypeInv
  <2>5. QED
    BY <1>0, <2>2, <2>3, <2>4
<1>7. ASSUME NEW c \in Clients, Return(c) PROVE IInv'
  BY <1>0, <1>7 DEF Return, TypeInv
<1>8. CASE Tick
  <2>1. CacheInv'
    BY <1>0, <1>8, AgedKeeps DEF Tick, TypeInv
  <2>2. QED
    BY <1>0, <2>1, <1>8 DEF Tick
<1>9. CASE UNCHANGED cacheVars
  BY <1>0, <1>9 DEF cacheVars
<1>10. QED
  BY <1>1, <1>2, <1>3, <1>4, <1>5, <1>6, <1>7, <1>8, <1>9 DEF CacheNext

\* Every answer is explained, for any number of clients and requests: stale only
\* when a mutation overtook the execution, never a mutation that begins with the
\* keyword, another request's or another user's only from a live entry under the
\* same two hashes.
THEOREM SpecAnswersExplained == CacheSpec => []AnswersExplained
BY InitHolds, Step, PTL DEF CacheSpec, IInv

-----------------------------------------------------------------------------
\* The budget is looked at under the same lock as the entry is put in, so
\* concurrent stores cannot overrun it together.
BoundInv == IsFiniteSet(DOMAIN cache) /\ CacheBounded

\* Only Store adds a query, and it empties a full map first.
LEMMA BoundStep == BoundInv /\ [CacheNext]_cacheVars => BoundInv'
<1> SUFFICES ASSUME BoundInv, [CacheNext]_cacheVars PROVE BoundInv'
  OBVIOUS
<1>1. ASSUME DOMAIN cache' = DOMAIN cache PROVE BoundInv'
  BY <1>1 DEF BoundInv, CacheBounded
<1>2. ASSUME NEW c \in Clients, Store(c) PROVE BoundInv'
  <2>1. PICK q, results : cache' = Insert(Evicted, q, results)
    BY <1>2 DEF Store
  <2> DEFINE S == DOMAIN Evicted
  <2>2. IsFiniteSet(S) /\ Cardinality(S) \in Nat /\ Cardinality(S) < MaxEntries
    <3>1. DOMAIN << >> = {}
      OBVIOUS
    <3>2. QED
      BY <3>1, QueryCacheAssumption, FS_EmptySet, FS_CardinalityType
      DEF Evicted, BoundInv, CacheBounded
  <2>3. DOMAIN cache' = S \cup {q}
    BY <2>1 DEF Insert
  <2> HIDE DEF S
  <2>4. /\ IsFiniteSet(S \cup {q})
        /\ Cardinality(S \cup {q}) = IF q \in S THEN Cardinality(S) ELSE Cardinality(S) + 1
    BY <2>2, FS_AddElement
  <2>5. QED
    BY <2>2, <2>3, <2>4, QueryCacheAssumption DEF BoundInv, CacheBounded
<1>3. ASSUME NEW c \in Clients, NEW r \in Requests, NEW a \in Auths, Begin(c, r, a) PROVE BoundInv'
  BY <1>1, <1>3 DEF Begin
<1>4. ASSUME NEW c \in Clients, Mutate(c) \/ Invalidate(c) \/ Lookup(c) \/ ExecuteQuery(c) \/ Return(c)
      PROVE BoundInv'
  BY <1>1, <1>4 DEF Mutate, Invalidate, Emptied, Lookup, ExecuteQuery, Return
<1>5. CASE Tick
  BY <1>1, <1>5 DEF Tick
<1>6. CASE UNCHANGED cacheVars
  BY <1>1, <1>6 DEF cacheVars
<1>7. QED
  BY <1>2, <1>3, <1>4, <1>5, <1>6 DEF CacheNext

\* The cache never holds more queries than its budget, for any number of
\* clients that missed at the same time.
THEOREM SpecCacheBounded == CacheSpec => []CacheBounded
<1>1. CacheInit => BoundInv
  <2>1. DOMAIN << >> = {}
    OBVIOUS
  <2>2. QED
    BY <2>1, FS_EmptySet, QueryCacheAssumption DEF CacheInit, BoundInv, CacheBounded
<1>2. QED
  BY <1>1, BoundStep, PTL DEF CacheSpec, BoundInv
=============================================================================
