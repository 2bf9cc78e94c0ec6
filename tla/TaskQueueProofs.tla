-------------------------- MODULE TaskQueueProofs --------------------------
(***************************************************************************)
(* Proofs about TaskQueue, for every number of tasks, workers, retries,    *)
(* connections and faults.                                                 *)
(***************************************************************************)
EXTENDS TaskQueue, TLAPS

\* What every other argument rests on: whatever a worker sweeps, holds or has
\* recorded was accepted by an add_task that got its ZADD through.
Holding == {"claim", "count", "settle", "run", "finish"}
Accepted == {t \in Tasks : client[t] = "added"}
Provenance ==
  /\ queue \subseteq Accepted
  /\ recorded \subseteq Accepted
  /\ \A w \in Workers : batch[w] \subseteq Accepted
  /\ \A w \in Workers : pc[w] \in Holding => cur[w] \in Accepted

BaseInv == TypeOK /\ Provenance

\* The inductive step, for the types and the provenance together.
LEMMA BaseStep == BaseInv /\ [Next]_vars => BaseInv'
<1> SUFFICES ASSUME BaseInv, [Next]_vars PROVE BaseInv'
  OBVIOUS
<1> USE TaskQueueAssumption DEF BaseInv, TypeOK, Provenance, Accepted, Holding,
        Results, PCs, redisVars, sweepVars, histVars, Leave
<1>1. ASSUME NEW t \in Tasks, AddPayload(t) PROVE BaseInv'
  BY <1>1 DEF AddPayload
<1>2. ASSUME NEW t \in Tasks, AddToQueue(t) PROVE BaseInv'
  <2>1. TypeOK'
    BY <1>2 DEF AddToQueue
  <2>2. Provenance'
    BY <1>2 DEF AddToQueue
  <2>3. QED
    BY <2>1, <2>2
<1>3. ASSUME NEW t \in Tasks, AddFails(t) PROVE BaseInv'
  BY <1>3 DEF AddFails
<1>4. ASSUME NEW t \in Tasks, ExpireLock(t) PROVE BaseInv'
  BY <1>4 DEF ExpireLock
<1>5. ASSUME NEW t \in Tasks, ExpireResult(t) PROVE BaseInv'
  BY <1>5 DEF ExpireResult
<1>6. ASSUME NEW w \in Workers, AcquireConn(w) PROVE BaseInv'
  BY <1>6 DEF AcquireConn
<1>7. ASSUME NEW w \in Workers, ReadPage(w) PROVE BaseInv'
  BY <1>7 DEF ReadPage, Page, Due
<1>8. ASSUME NEW w \in Workers, CheckPage(w) PROVE BaseInv'
  BY <1>8 DEF CheckPage
<1>9. ASSUME NEW w \in Workers, FetchPayload(w) PROVE BaseInv'
  BY <1>9 DEF FetchPayload
<1>10. ASSUME NEW w \in Workers, EndPage(w) PROVE BaseInv'
  BY <1>10 DEF EndPage
<1>11. ASSUME NEW w \in Workers, BlockingPop(w) PROVE BaseInv'
  BY <1>11 DEF BlockingPop
<1>12. ASSUME NEW w \in Workers, ClaimTask(w) PROVE BaseInv'
  BY <1>12 DEF ClaimTask
<1>13. ASSUME NEW w \in Workers, CountAttempt(w) PROVE BaseInv'
  BY SMTT(30), <1>13 DEF CountAttempt, StartTask
<1>14. ASSUME NEW w \in Workers, CountFails(w) PROVE BaseInv'
  BY <1>14 DEF CountFails, StartTask
<1>15. ASSUME NEW w \in Workers, RunTask(w) PROVE BaseInv'
  BY <1>15 DEF RunTask
<1>16. ASSUME NEW w \in Workers, FinishTask(w) PROVE BaseInv'
  BY <1>16 DEF FinishTask, RecordResult
<1>17. ASSUME NEW w \in Workers, PoolTimeout(w) PROVE BaseInv'
  BY <1>17 DEF PoolTimeout, Respawn
<1>18. ASSUME NEW w \in Workers, Abort(w) PROVE BaseInv'
  BY <1>18 DEF Abort, Respawn
<1>19. CASE Tick
  BY <1>19 DEF Tick
<1>20. CASE UNCHANGED vars
  BY <1>20 DEF vars
<1>21. QED
  BY <1>1, <1>2, <1>3, <1>4, <1>5, <1>6, <1>7, <1>8, <1>9, <1>10, <1>11, <1>12,
     <1>13, <1>14, <1>15, <1>16, <1>17, <1>18, <1>19, <1>20 DEF Next, Sweep, Work

\* Types and provenance hold in every reachable state.
LEMMA BaseInvariant == Spec => []BaseInv
<1>1. Init => BaseInv
  <2> SUFFICES ASSUME Init PROVE BaseInv
    OBVIOUS
  <2>1. TypeOK
    BY DEF Init, TypeOK, Results, PCs
  <2>2. Provenance
    BY DEF Init, Provenance, Holding
  <2>3. QED
    BY <2>1, <2>2 DEF BaseInv
<1>2. QED
  BY <1>1, BaseStep, PTL DEF Spec

\* Every variable keeps its type, for any number of tasks and workers.
THEOREM SpecTypeOK == Spec => []TypeOK
BY BaseInvariant, PTL DEF BaseInv

-----------------------------------------------------------------------------
\* Why runs do not overlap: a worker whose lock never expired still has it in
\* Redis, so a second SET NX of the same task fails.
LockInv ==
  /\ \A w \in Workers : pc[w] \in Claimed /\ w \notin stale => cur[w] \in locked
  /\ OverlapOnlyAfterExpiry

\* Claims, expiries and the ways out of a claim keep it.
LEMMA LockStep == BaseInv /\ LockInv /\ [Next]_vars => LockInv'
<1> SUFFICES ASSUME BaseInv, LockInv, [Next]_vars PROVE LockInv'
  OBVIOUS
<1> USE TaskQueueAssumption DEF BaseInv, TypeOK, redisVars, sweepVars, histVars, LockInv, OverlapOnlyAfterExpiry, Claimed, Leave, Provenance, Holding, Accepted
<1>1. ASSUME NEW t \in Tasks, AddPayload(t) PROVE LockInv'
  BY <1>1 DEF AddPayload
<1>2. ASSUME NEW t \in Tasks, AddToQueue(t) PROVE LockInv'
  BY <1>2 DEF AddToQueue
<1>3. ASSUME NEW t \in Tasks, AddFails(t) PROVE LockInv'
  BY <1>3 DEF AddFails
<1>4. ASSUME NEW t \in Tasks, ExpireLock(t) PROVE LockInv'
  BY <1>4 DEF ExpireLock
<1>5. ASSUME NEW t \in Tasks, ExpireResult(t) PROVE LockInv'
  BY <1>5 DEF ExpireResult
<1>6. ASSUME NEW w \in Workers, AcquireConn(w) PROVE LockInv'
  BY <1>6 DEF AcquireConn
<1>7. ASSUME NEW w \in Workers, ReadPage(w) PROVE LockInv'
  BY <1>7 DEF ReadPage
<1>8. ASSUME NEW w \in Workers, CheckPage(w) PROVE LockInv'
  BY <1>8 DEF CheckPage
<1>9. ASSUME NEW w \in Workers, FetchPayload(w) PROVE LockInv'
  BY <1>9 DEF FetchPayload
<1>10. ASSUME NEW w \in Workers, EndPage(w) PROVE LockInv'
  BY <1>10 DEF EndPage
<1>11. ASSUME NEW w \in Workers, BlockingPop(w) PROVE LockInv'
  BY <1>11 DEF BlockingPop
<1>12. ASSUME NEW w \in Workers, ClaimTask(w) PROVE LockInv'
  BY SMTT(30), <1>12 DEF ClaimTask
<1>13. ASSUME NEW w \in Workers, CountAttempt(w) PROVE LockInv'
  BY SMTT(30), <1>13 DEF CountAttempt, StartTask
<1>14. ASSUME NEW w \in Workers, CountFails(w) PROVE LockInv'
  BY <1>14 DEF CountFails, StartTask
<1>15. ASSUME NEW w \in Workers, RunTask(w) PROVE LockInv'
  BY <1>15 DEF RunTask
<1>16. ASSUME NEW w \in Workers, FinishTask(w) PROVE LockInv'
  BY <1>16 DEF FinishTask, RecordResult
<1>17. ASSUME NEW w \in Workers, PoolTimeout(w) PROVE LockInv'
  BY <1>17 DEF PoolTimeout, Respawn
<1>18. ASSUME NEW w \in Workers, Abort(w) PROVE LockInv'
  BY <1>18 DEF Abort, Respawn
<1>19. CASE Tick
  BY <1>19 DEF Tick
<1>20. CASE UNCHANGED vars
  BY <1>20 DEF vars
<1>21. QED
  BY <1>1, <1>2, <1>3, <1>4, <1>5, <1>6, <1>7, <1>8, <1>9, <1>10, <1>11, <1>12,
     <1>13, <1>14, <1>15, <1>16, <1>17, <1>18, <1>19, <1>20 DEF Next, Sweep, Work

\* Two workers hold a task together only if the lock of one of them expired
\* under it, for any number of workers, crashes and expiries.
THEOREM SpecOverlapOnlyAfterExpiry == Spec => []OverlapOnlyAfterExpiry
<1>1. Init => LockInv
  BY DEF Init, LockInv, OverlapOnlyAfterExpiry, Claimed
<1>2. QED
  BY <1>1, BaseInvariant, LockStep, PTL DEF Spec, LockInv

-----------------------------------------------------------------------------
\* Every start was counted by INCR or is among the starts whose INCR failed.
StartInv ==
  /\ StartsBounded
  /\ \A t \in Tasks : starts[t] <= retries[t] + uncounted[t]

\* Only the two outcomes of INCR touch the counters.
LEMMA StartStep == BaseInv /\ StartInv /\ [Next]_vars => StartInv'
<1> SUFFICES ASSUME BaseInv, StartInv, [Next]_vars PROVE StartInv'
  OBVIOUS
<1> USE TaskQueueAssumption DEF BaseInv, TypeOK, redisVars, sweepVars, histVars, StartInv, StartsBounded, Leave, Provenance, Holding, Accepted
<1>1. ASSUME NEW t \in Tasks, AddPayload(t) PROVE StartInv'
  BY <1>1 DEF AddPayload
<1>2. ASSUME NEW t \in Tasks, AddToQueue(t) PROVE StartInv'
  BY <1>2 DEF AddToQueue
<1>3. ASSUME NEW t \in Tasks, AddFails(t) PROVE StartInv'
  BY <1>3 DEF AddFails
<1>4. ASSUME NEW t \in Tasks, ExpireLock(t) PROVE StartInv'
  BY <1>4 DEF ExpireLock
<1>5. ASSUME NEW t \in Tasks, ExpireResult(t) PROVE StartInv'
  BY <1>5 DEF ExpireResult
<1>6. ASSUME NEW w \in Workers, AcquireConn(w) PROVE StartInv'
  BY <1>6 DEF AcquireConn
<1>7. ASSUME NEW w \in Workers, ReadPage(w) PROVE StartInv'
  BY <1>7 DEF ReadPage
<1>8. ASSUME NEW w \in Workers, CheckPage(w) PROVE StartInv'
  BY <1>8 DEF CheckPage
<1>9. ASSUME NEW w \in Workers, FetchPayload(w) PROVE StartInv'
  BY <1>9 DEF FetchPayload
<1>10. ASSUME NEW w \in Workers, EndPage(w) PROVE StartInv'
  BY <1>10 DEF EndPage
<1>11. ASSUME NEW w \in Workers, BlockingPop(w) PROVE StartInv'
  BY <1>11 DEF BlockingPop
<1>12. ASSUME NEW w \in Workers, ClaimTask(w) PROVE StartInv'
  BY <1>12 DEF ClaimTask
<1>13. ASSUME NEW w \in Workers, CountAttempt(w) PROVE StartInv'
  BY <1>13 DEF CountAttempt, StartTask
<1>14. ASSUME NEW w \in Workers, CountFails(w) PROVE StartInv'
  BY <1>14 DEF CountFails, StartTask
<1>15. ASSUME NEW w \in Workers, RunTask(w) PROVE StartInv'
  BY <1>15 DEF RunTask
<1>16. ASSUME NEW w \in Workers, FinishTask(w) PROVE StartInv'
  BY <1>16 DEF FinishTask, RecordResult
<1>17. ASSUME NEW w \in Workers, PoolTimeout(w) PROVE StartInv'
  BY <1>17 DEF PoolTimeout, Respawn
<1>18. ASSUME NEW w \in Workers, Abort(w) PROVE StartInv'
  BY <1>18 DEF Abort, Respawn
<1>19. CASE Tick
  BY <1>19 DEF Tick
<1>20. CASE UNCHANGED vars
  BY <1>20 DEF vars
<1>21. QED
  BY <1>1, <1>2, <1>3, <1>4, <1>5, <1>6, <1>7, <1>8, <1>9, <1>10, <1>11, <1>12,
     <1>13, <1>14, <1>15, <1>16, <1>17, <1>18, <1>19, <1>20 DEF Next, Sweep, Work

\* However workers crash and locks expire, a task is handed to its function
\* at most MaxRetries times plus once per failed INCR.
THEOREM SpecStartsBounded == Spec => []StartsBounded
<1>1. Init => StartInv
  BY TaskQueueAssumption DEF Init, StartInv, StartsBounded
<1>2. QED
  BY <1>1, BaseInvariant, StartStep, PTL DEF Spec, StartInv

-----------------------------------------------------------------------------
\* A task is in the queue or recorded, never both; its payload is there from
\* before its ZADD until its ZREM, and no result exists before it is recorded.
QueueInv ==
  /\ NoTaskLost
  /\ \A t \in Tasks : client[t] = "sending" => t \in payloads
  /\ queue \cap recorded = {}
  /\ \A t \in Tasks : complete[t] # "none" => t \in recorded

\* Only add_task, finish_task and the expiry of a result disturb it.
LEMMA QueueStep == BaseInv /\ QueueInv /\ [Next]_vars => QueueInv'
<1> SUFFICES ASSUME BaseInv, QueueInv, [Next]_vars PROVE QueueInv'
  OBVIOUS
<1> USE TaskQueueAssumption DEF BaseInv, TypeOK, redisVars, sweepVars, histVars, QueueInv, QueuedHasPayload, NoTaskLost, Leave, Provenance, Holding, Accepted
<1>1. ASSUME NEW t \in Tasks, AddPayload(t) PROVE QueueInv'
  BY <1>1 DEF AddPayload
<1>2. ASSUME NEW t \in Tasks, AddToQueue(t) PROVE QueueInv'
  BY <1>2 DEF AddToQueue
<1>3. ASSUME NEW t \in Tasks, AddFails(t) PROVE QueueInv'
  BY <1>3 DEF AddFails
<1>4. ASSUME NEW t \in Tasks, ExpireLock(t) PROVE QueueInv'
  BY <1>4 DEF ExpireLock
<1>5. ASSUME NEW t \in Tasks, ExpireResult(t) PROVE QueueInv'
  BY <1>5 DEF ExpireResult
<1>6. ASSUME NEW w \in Workers, AcquireConn(w) PROVE QueueInv'
  BY <1>6 DEF AcquireConn
<1>7. ASSUME NEW w \in Workers, ReadPage(w) PROVE QueueInv'
  BY <1>7 DEF ReadPage
<1>8. ASSUME NEW w \in Workers, CheckPage(w) PROVE QueueInv'
  BY <1>8 DEF CheckPage
<1>9. ASSUME NEW w \in Workers, FetchPayload(w) PROVE QueueInv'
  BY <1>9 DEF FetchPayload
<1>10. ASSUME NEW w \in Workers, EndPage(w) PROVE QueueInv'
  BY <1>10 DEF EndPage
<1>11. ASSUME NEW w \in Workers, BlockingPop(w) PROVE QueueInv'
  BY <1>11 DEF BlockingPop
<1>12. ASSUME NEW w \in Workers, ClaimTask(w) PROVE QueueInv'
  BY <1>12 DEF ClaimTask
<1>13. ASSUME NEW w \in Workers, CountAttempt(w) PROVE QueueInv'
  BY <1>13 DEF CountAttempt, StartTask
<1>14. ASSUME NEW w \in Workers, CountFails(w) PROVE QueueInv'
  BY <1>14 DEF CountFails, StartTask
<1>15. ASSUME NEW w \in Workers, RunTask(w) PROVE QueueInv'
  BY <1>15 DEF RunTask
<1>16. ASSUME NEW w \in Workers, FinishTask(w) PROVE QueueInv'
  BY <1>16 DEF FinishTask, RecordResult
<1>17. ASSUME NEW w \in Workers, PoolTimeout(w) PROVE QueueInv'
  BY <1>17 DEF PoolTimeout, Respawn
<1>18. ASSUME NEW w \in Workers, Abort(w) PROVE QueueInv'
  BY <1>18 DEF Abort, Respawn
<1>19. CASE Tick
  BY <1>19 DEF Tick
<1>20. CASE UNCHANGED vars
  BY <1>20 DEF vars
<1>21. QED
  BY <1>1, <1>2, <1>3, <1>4, <1>5, <1>6, <1>7, <1>8, <1>9, <1>10, <1>11, <1>12,
     <1>13, <1>14, <1>15, <1>16, <1>17, <1>18, <1>19, <1>20 DEF Next, Sweep, Work

LEMMA QueueInvariant == Spec => []QueueInv
<1>1. Init => QueueInv
  BY DEF Init, QueueInv, QueuedHasPayload, NoTaskLost
<1>2. QED
  BY <1>1, BaseInvariant, QueueStep, PTL DEF Spec

\* No worker ever finds a queued task without its payload.
THEOREM SpecQueuedHasPayload == Spec => []QueuedHasPayload
<1>1. QueueInv => QueuedHasPayload
  BY DEF QueueInv, NoTaskLost
<1>2. QED
  BY <1>1, QueueInvariant, PTL

\* An accepted task is queued until its result was recorded.
THEOREM SpecNoTaskLost == Spec => []NoTaskLost
BY QueueInvariant, PTL DEF QueueInv

-----------------------------------------------------------------------------
\* add_task is Accept, finish_task settles, the expiry of a result forgets;
\* every other step of clients and workers is invisible to the promise.
LEMMA PromiseStep == BaseInv /\ QueueInv /\ [Next]_vars => [Promise!Next]_Promise!vars
<1> SUFFICES ASSUME BaseInv, QueueInv, [Next]_vars PROVE [Promise!Next]_Promise!vars
  OBVIOUS
<1> USE DEF BaseInv, TypeOK, redisVars, sweepVars, histVars, Provenance
<1>1. ASSUME NEW t \in Tasks, AddPayload(t) PROVE UNCHANGED Promise!vars
  BY <1>1 DEF AddPayload, Promise!vars
<1>2. ASSUME NEW t \in Tasks, AddToQueue(t) PROVE Promise!Next
  <2>1. t \notin queue \cup recorded
    BY <1>2 DEF AddToQueue, QueueInv, Accepted
  <2>2. Promise!Accept(t)
    BY <1>2, <2>1 DEF AddToQueue, Promise!Accept
  <2>3. QED
    BY <2>2 DEF Promise!Next
<1>3. ASSUME NEW t \in Tasks, AddFails(t) PROVE UNCHANGED Promise!vars
  BY <1>3 DEF AddFails, Promise!vars
<1>4. ASSUME NEW t \in Tasks, ExpireLock(t) PROVE UNCHANGED Promise!vars
  BY <1>4 DEF ExpireLock, Promise!vars
<1>5. ASSUME NEW t \in Tasks, ExpireResult(t) PROVE Promise!Next
  <2>1. t \in recorded
    BY <1>5 DEF ExpireResult, QueueInv
  <2>2. Promise!Forget(t)
    BY <1>5, <2>1 DEF ExpireResult, Promise!Forget
  <2>3. QED
    BY <2>2 DEF Promise!Next
<1>6. ASSUME NEW w \in Workers, AcquireConn(w) PROVE UNCHANGED Promise!vars
  BY <1>6 DEF AcquireConn, Promise!vars
<1>7. ASSUME NEW w \in Workers, ReadPage(w) PROVE UNCHANGED Promise!vars
  BY <1>7 DEF ReadPage, Promise!vars
<1>8. ASSUME NEW w \in Workers, CheckPage(w) PROVE UNCHANGED Promise!vars
  BY <1>8 DEF CheckPage, Promise!vars
<1>9. ASSUME NEW w \in Workers, FetchPayload(w) PROVE UNCHANGED Promise!vars
  BY <1>9 DEF FetchPayload, Promise!vars
<1>10. ASSUME NEW w \in Workers, EndPage(w) PROVE UNCHANGED Promise!vars
  BY <1>10 DEF EndPage, Promise!vars
<1>11. ASSUME NEW w \in Workers, BlockingPop(w) PROVE UNCHANGED Promise!vars
  BY <1>11 DEF BlockingPop, Promise!vars
<1>12. ASSUME NEW w \in Workers, ClaimTask(w) PROVE UNCHANGED Promise!vars
  BY <1>12 DEF ClaimTask, Promise!vars
<1>13. ASSUME NEW w \in Workers, CountAttempt(w) PROVE UNCHANGED Promise!vars
  BY <1>13 DEF CountAttempt, StartTask, Promise!vars
<1>14. ASSUME NEW w \in Workers, CountFails(w) PROVE UNCHANGED Promise!vars
  BY <1>14 DEF CountFails, StartTask, Promise!vars
<1>15. ASSUME NEW w \in Workers, RunTask(w) PROVE UNCHANGED Promise!vars
  BY <1>15 DEF RunTask, Promise!vars
<1>16. ASSUME NEW w \in Workers, FinishTask(w) PROVE [Promise!Next]_Promise!vars
  <2>1. PICK t \in Tasks : /\ t = cur[w]
                           /\ t \in queue \cup recorded
                           /\ verdict[w] \in Results
    BY <1>16 DEF FinishTask, QueueInv, NoTaskLost, Accepted, Holding
  <2>2. CASE t \in queue
    <3>1. complete[t] = "none" /\ t \notin recorded
      BY <2>2 DEF QueueInv
    <3>2. Promise!Settle(t)
      BY <1>16, <2>1, <2>2, <3>1 DEF FinishTask, RecordResult, Promise!Settle
    <3>3. Promise!Next
      BY <2>1, <3>2 DEF Promise!Next
    <3>4. QED
      BY <3>3
  <2>3. CASE t \notin queue /\ complete[t] = "none"
    <3>1. queue' = queue /\ recorded' = recorded
      BY <1>16, <2>1, <2>3 DEF FinishTask, RecordResult
    <3>2. complete' = [complete EXCEPT ![t] = verdict[w]]
      BY <1>16, <2>1, <2>3 DEF FinishTask, RecordResult
    <3>3. t \in recorded
      BY <2>1, <2>3
    <3>4. Promise!SettleAgain(t)
      BY <2>1, <2>3, <3>1, <3>2, <3>3 DEF Promise!SettleAgain
    <3>5. QED
      BY <2>1, <3>4 DEF Promise!Next
  <2>4. CASE t \notin queue /\ complete[t] # "none"
    BY <1>16, <2>1, <2>4 DEF FinishTask, RecordResult, Promise!vars
  <2>5. QED
    BY <2>2, <2>3, <2>4
<1>17. ASSUME NEW w \in Workers, PoolTimeout(w) PROVE UNCHANGED Promise!vars
  BY <1>17 DEF PoolTimeout, Respawn, Promise!vars
<1>18. ASSUME NEW w \in Workers, Abort(w) PROVE UNCHANGED Promise!vars
  BY <1>18 DEF Abort, Respawn, Promise!vars
<1>19. CASE Tick
  BY <1>19 DEF Tick, Promise!vars
<1>20. CASE UNCHANGED vars
  BY <1>20 DEF vars, Promise!vars
<1>21. QED
  BY <1>1, <1>2, <1>3, <1>4, <1>5, <1>6, <1>7, <1>8, <1>9, <1>10, <1>11, <1>12,
     <1>13, <1>14, <1>15, <1>16, <1>17, <1>18, <1>19, <1>20 DEF Next, Sweep, Work

\* The queue keeps its promise: the detailed specification implements the
\* abstract one under the mapping that reads state off queue and recorded.
THEOREM SpecImplementsAtLeastOnce == Spec => ImplementsAtLeastOnce
<1>1. Init => Promise!Init
  BY DEF Init, Promise!Init
<1>2. QED
  BY <1>1, BaseInvariant, QueueInvariant, PromiseStep, PTL
     DEF Spec, ImplementsAtLeastOnce, Promise!Spec
=============================================================================
