----------------------------- MODULE TaskQueue -----------------------------
(***************************************************************************)
(* The distributed task queue (src/src/tasks/mod.rs): clients add tasks to *)
(* Redis, the worker slots of every Puff instance sweep the sorted set of  *)
(* due tasks, claim one with a lock that expires, run it and record its    *)
(* result.  One action is one Redis round trip, the unit at which workers  *)
(* interleave: a pipeline or a MULTI of several commands is one step.      *)
(*                                                                         *)
(* A lock and a result are keys with a TTL; the model lets each expire at  *)
(* any time, since the TTLs and the run time of a task are the caller's.   *)
(* Any await of a worker may be its last (Abort): the process died, or a   *)
(* Redis error left next_task or do_loop_iteration through `?'.            *)
(***************************************************************************)
EXTENDS Naturals, FiniteSets

CONSTANTS
  Tasks,          \* task ids (uuids: an id is added once)
  Undecodable,    \* the tasks whose payload from_slice rejects
  Workers,        \* worker slots, of one instance or of several
  ScheduledAt,    \* the score of each task; ties are broken by the id
  MaxNow,         \* bound: the clock stops here
  TasksPerLoop,   \* page size of a sweep (num_workers in the code)
  PoolSize,       \* connections the workers share (bb8 max_size)
  MaxRetries,     \* attempts before the dead letter (3 in the code)
  MaxFaults,      \* bound: aborts and lost INCR replies in a behaviour
  NoTask

ASSUME TaskQueueAssumption ==
  /\ Undecodable \subseteq Tasks
  /\ IsFiniteSet(Workers)
  /\ MaxNow \in Nat
  /\ ScheduledAt \in [Tasks -> Nat]
  /\ \A t, u \in Tasks : ScheduledAt[t] = ScheduledAt[u] => t = u
  /\ TasksPerLoop \in Nat \ {0}
  /\ PoolSize \in Nat \ {0}
  /\ MaxRetries \in Nat
  /\ MaxFaults \in Nat
  /\ NoTask \notin Tasks

VARIABLES
  \* The keys in Redis.
  payloads,   \* the hash "-tasks": tasks whose payload is stored
  queue,      \* the sorted set "-queue"
  wakeup,     \* the sorted set "-wait" holds its one member
  locked,     \* tasks with a live "-lock-" key
  complete,   \* the "-complete-" key of each task: its result, or "none"
  retries,    \* the "-retries-" counter, capped one above MaxRetries
  \* The clients and the workers.
  now,        \* the wall clock
  client,     \* how far the add_task call of each task has come
  pc,         \* where each worker is
  cur,        \* the task a worker is fetching, claiming or running
  clock,      \* unix_time_ms of the worker's sweep
  offset,     \* where the worker's sweep is in the sorted set
  batch,      \* the tasks left of the page the worker reads
  fullPage,   \* next_items_len = tasks_per_loop
  verdict,    \* the result a worker is about to record
  \* History, read by no action's guard.
  faults,     \* aborts and lost INCR replies so far
  starts,     \* how often each task was handed to its function
  uncounted,  \* starts whose INCR failed
  stale,      \* workers whose lock on cur expired under them
  recorded    \* tasks whose result was recorded at some time

redisVars == <<payloads, queue, wakeup, locked, complete, retries>>
sweepVars == <<clock, offset, batch, fullPage>>
histVars == <<faults, starts, uncounted, stale, recorded>>
vars == <<redisVars, now, client, pc, cur, sweepVars, verdict, histVars>>

Results == {"ok", "err", "undecodable", "dead"}
PCs == {"acquire", "scan", "check", "fetch", "claim", "count",
        "settle", "block", "run", "finish"}
\* next_task keeps its pooled connection in all of these.
Sweeping == {"scan", "check", "fetch", "claim", "count", "settle", "block"}
\* A worker in these holds, or held, the lock of cur.
Claimed == {"count", "run", "finish"}

TypeOK ==
  /\ payloads \subseteq Tasks
  /\ queue \subseteq Tasks
  /\ wakeup \in BOOLEAN
  /\ locked \subseteq Tasks
  /\ complete \in [Tasks -> Results \cup {"none"}]
  /\ retries \in [Tasks -> Nat]
  /\ now \in Nat
  /\ client \in [Tasks -> {"new", "sending", "added", "failed"}]
  /\ pc \in [Workers -> PCs]
  /\ cur \in [Workers -> Tasks \cup {NoTask}]
  /\ clock \in [Workers -> Nat]
  /\ offset \in [Workers -> Nat]
  /\ batch \in [Workers -> SUBSET Tasks]
  /\ fullPage \in [Workers -> BOOLEAN]
  /\ verdict \in [Workers -> Results]
  /\ faults \in Nat
  /\ starts \in [Tasks -> Nat]
  /\ uncounted \in [Tasks -> Nat]
  /\ stale \subseteq Workers
  /\ recorded \subseteq Tasks

Init ==
  /\ payloads = {}
  /\ queue = {}
  /\ wakeup = FALSE
  /\ locked = {}
  /\ complete = [t \in Tasks |-> "none"]
  /\ retries = [t \in Tasks |-> 0]
  /\ now = 0
  /\ client = [t \in Tasks |-> "new"]
  /\ pc = [w \in Workers |-> "acquire"]
  /\ cur = [w \in Workers |-> NoTask]
  /\ clock = [w \in Workers |-> 0]
  /\ offset = [w \in Workers |-> 0]
  /\ batch = [w \in Workers |-> {}]
  /\ fullPage = [w \in Workers |-> FALSE]
  /\ verdict = [w \in Workers |-> "ok"]
  /\ faults = 0
  /\ starts = [t \in Tasks |-> 0]
  /\ uncounted = [t \in Tasks |-> 0]
  /\ stale = {}
  /\ recorded = {}

-----------------------------------------------------------------------------
(* The pool of connections, shared by callers and workers.  next_task keeps *)
(* one as long as it sweeps and blocks; finish_task takes one for its MULTI.*)

PoolFree ==
  Cardinality({w \in Workers : pc[w] \in Sweeping})
    + Cardinality({t \in Tasks : client[t] = "sending"}) < PoolSize

-----------------------------------------------------------------------------
(* Clients: add_task.  The pipeline is not a MULTI: it may stop after HSET. *)

AddPayload(t) ==
  /\ client[t] = "new"
  /\ PoolFree
  /\ client' = [client EXCEPT ![t] = "sending"]
  /\ payloads' = payloads \cup {t}
  /\ UNCHANGED <<queue, wakeup, locked, complete, retries, now, pc, cur,
                 sweepVars, verdict, histVars>>

\* ZADD of the queue and, when the caller asked for a trigger, of "-wait".
AddToQueue(t) ==
  /\ client[t] = "sending"
  /\ client' = [client EXCEPT ![t] = "added"]
  /\ queue' = queue \cup {t}
  /\ wakeup' \in {wakeup, TRUE}
  /\ UNCHANGED <<payloads, locked, complete, retries, now, pc, cur,
                 sweepVars, verdict, histVars>>

\* The connection broke after HSET: the caller gets an error.
AddFails(t) ==
  /\ client[t] = "sending"
  /\ client' = [client EXCEPT ![t] = "failed"]
  /\ UNCHANGED <<redisVars, now, pc, cur, sweepVars, verdict, histVars>>

-----------------------------------------------------------------------------
(* Workers. *)

Leave(w, where) == pc' = [pc EXCEPT ![w] = where]

\* Start of next_task.
AcquireConn(w) ==
  /\ pc[w] = "acquire"
  /\ PoolFree
  /\ Leave(w, "scan")
  /\ clock' = [clock EXCEPT ![w] = now]
  /\ offset' = [offset EXCEPT ![w] = 0]
  /\ UNCHANGED <<redisVars, now, client, cur, batch, fullPage, verdict, histVars>>

-----------------------------------------------------------------------------
(* The sweep of next_task. *)

Due(time) == {t \in queue : ScheduledAt[t] <= time}

\* ZRANGEBYSCORE -inf time LIMIT from TasksPerLoop: the due tasks, by score.
Page(time, from) ==
  {t \in Due(time) :
     LET before == Cardinality({u \in Due(time) : ScheduledAt[u] < ScheduledAt[t]})
     IN before >= from /\ before < from + TasksPerLoop}

ReadPage(w) ==
  /\ pc[w] = "scan"
  /\ LET page == Page(clock[w], offset[w]) IN
       /\ batch' = [batch EXCEPT ![w] = page]
       /\ fullPage' = [fullPage EXCEPT ![w] = Cardinality(page) >= TasksPerLoop]
       /\ Leave(w, IF page = {} THEN "block" ELSE "check")
  /\ UNCHANGED <<redisVars, now, client, cur, clock, offset, verdict, histVars>>

\* The EXISTS pipeline: the tasks that are locked or completed are skipped.
CheckPage(w) ==
  /\ pc[w] = "check"
  /\ batch' = [batch EXCEPT ![w] = {t \in @ : t \notin locked /\ complete[t] = "none"}]
  /\ Leave(w, "fetch")
  /\ UNCHANGED <<redisVars, now, client, cur, clock, offset, fullPage, verdict, histVars>>

IsFirst(t, ts) == t \in ts /\ \A u \in ts : ScheduledAt[t] <= ScheduledAt[u]

\* HGET of the next task of the page.
FetchPayload(w) ==
  /\ pc[w] = "fetch"
  /\ \E t \in batch[w] :
       /\ IsFirst(t, batch[w])
       /\ batch' = [batch EXCEPT ![w] = @ \ {t}]
       /\ \/ /\ t \notin payloads
             /\ UNCHANGED <<pc, cur, verdict>>
          \/ /\ t \in payloads \cap Undecodable
             /\ cur' = [cur EXCEPT ![w] = t]
             /\ verdict' = [verdict EXCEPT ![w] = "undecodable"]
             /\ Leave(w, "settle")
          \/ /\ t \in payloads \ Undecodable
             /\ cur' = [cur EXCEPT ![w] = t]
             /\ Leave(w, "claim")
             /\ UNCHANGED verdict
  /\ UNCHANGED <<redisVars, now, client, clock, offset, fullPage, histVars>>

\* The page is used up: read the next one if it was full, else wait.
EndPage(w) ==
  /\ pc[w] = "fetch"
  /\ batch[w] = {}
  /\ IF fullPage[w]
     THEN /\ offset' = [offset EXCEPT ![w] = @ + TasksPerLoop]
          /\ Leave(w, "scan")
     ELSE /\ Leave(w, "block")
          /\ UNCHANGED offset
  /\ UNCHANGED <<redisVars, now, client, cur, clock, batch, fullPage, verdict, histVars>>

\* BZPOPMIN returned the trigger, or its second is over: sweep from the start.
BlockingPop(w) ==
  /\ pc[w] = "block"
  /\ wakeup' = FALSE
  /\ Leave(w, "scan")
  /\ clock' = [clock EXCEPT ![w] = now]
  /\ offset' = [offset EXCEPT ![w] = 0]
  /\ UNCHANGED <<payloads, queue, locked, complete, retries, now, client, cur,
                 batch, fullPage, verdict, histVars>>

\* Mutant: the lock is set without NX.
ClaimTaskNoNx(w) ==
  /\ pc[w] = "claim"
  /\ locked' = locked \cup {cur[w]}
  /\ Leave(w, "count")
  /\ UNCHANGED <<payloads, queue, wakeup, complete, retries, now, client, cur,
                 sweepVars, verdict, histVars>>

\* Mutant: the claim pops the task from the queue.
ClaimTaskPops(w) ==
  /\ pc[w] = "claim"
  /\ cur[w] \notin locked
  /\ locked' = locked \cup {cur[w]}
  /\ queue' = queue \ {cur[w]}
  /\ Leave(w, "count")
  /\ UNCHANGED <<payloads, wakeup, complete, retries, now, client, cur,
                 sweepVars, verdict, histVars>>

\* SET lock NX PX timeout_ms.
ClaimTask(w) ==
  /\ pc[w] = "claim"
  /\ IF cur[w] \in locked
     THEN /\ Leave(w, "fetch")
          /\ cur' = [cur EXCEPT ![w] = NoTask]
          /\ UNCHANGED locked
     ELSE /\ locked' = locked \cup {cur[w]}
          /\ Leave(w, "count")
          /\ UNCHANGED cur
  /\ UNCHANGED <<payloads, queue, wakeup, complete, retries, now, client,
                 sweepVars, verdict, histVars>>

\* next_task returns the task: the sweep's connection goes back to the pool.
StartTask(w) ==
  /\ Leave(w, "run")
  /\ starts' = [starts EXCEPT ![cur[w]] = @ + 1]

\* Mutant: one attempt too many before the dead letter.
CountAttemptLate(w) ==
  /\ pc[w] = "count"
  /\ LET t == cur[w] IN
       IF retries[t] > MaxRetries
       THEN /\ verdict' = [verdict EXCEPT ![w] = "dead"]
            /\ stale' = stale \ {w}
            /\ Leave(w, "settle")
            /\ UNCHANGED <<retries, starts>>
       ELSE /\ retries' = [retries EXCEPT ![t] = @ + 1]
            /\ StartTask(w)
            /\ UNCHANGED <<verdict, stale>>
  /\ UNCHANGED <<payloads, queue, wakeup, locked, complete, now, client, cur,
                 sweepVars, faults, uncounted, recorded>>

\* INCR retries: run the task, or move it to the dead letter.
CountAttempt(w) ==
  /\ pc[w] = "count"
  /\ LET t == cur[w] IN
       IF retries[t] >= MaxRetries
       THEN /\ retries' = [retries EXCEPT ![t] = MaxRetries + 1]
            /\ verdict' = [verdict EXCEPT ![w] = "dead"]
            /\ stale' = stale \ {w}
            /\ Leave(w, "settle")
            /\ UNCHANGED starts
       ELSE /\ retries' = [retries EXCEPT ![t] = @ + 1]
            /\ StartTask(w)
            /\ UNCHANGED <<verdict, stale>>
  /\ UNCHANGED <<payloads, queue, wakeup, locked, complete, now, client, cur,
                 sweepVars, faults, uncounted, recorded>>

\* INCR failed before it reached Redis: unwrap_or(0) lets the task run.
CountFails(w) ==
  /\ pc[w] = "count"
  /\ faults < MaxFaults
  /\ faults' = faults + 1
  /\ StartTask(w)
  /\ uncounted' = [uncounted EXCEPT ![cur[w]] = @ + 1]
  /\ UNCHANGED <<redisVars, now, client, cur, sweepVars, verdict, stale, recorded>>

-----------------------------------------------------------------------------
(* do_loop_iteration and finish_task. *)

\* The task's function returned, or raised.
RunTask(w) ==
  /\ pc[w] = "run"
  /\ \E r \in {"ok", "err"} : verdict' = [verdict EXCEPT ![w] = r]
  /\ Leave(w, "finish")
  /\ UNCHANGED <<redisVars, now, client, cur, sweepVars, histVars>>

\* Mutant: the dead letter drops the task and tells nobody.
RecordResultNotDead(w) ==
  LET t == cur[w] IN
    /\ payloads' = payloads \ {t}
    /\ queue' = queue \ {t}
    /\ complete' = [complete EXCEPT ![t] =
                      IF @ = "none" /\ verdict[w] # "dead" THEN verdict[w] ELSE @]
    /\ recorded' = recorded \cup {t}

\* MULTI: HDEL, ZREM and SET complete NX PX.
RecordResult(w) ==
  LET t == cur[w] IN
    /\ payloads' = payloads \ {t}
    /\ queue' = queue \ {t}
    /\ complete' = [complete EXCEPT ![t] = IF @ = "none" THEN verdict[w] ELSE @]
    /\ recorded' = recorded \cup {t}

\* finish_task, from the sweep (it goes on) or after the run (the slot is
\* spawned again).
FinishTask(w) ==
  /\ pc[w] \in {"settle", "finish"}
  /\ PoolFree
  /\ RecordResult(w)
  /\ Leave(w, IF pc[w] = "settle" THEN "fetch" ELSE "acquire")
  /\ cur' = [cur EXCEPT ![w] = NoTask]
  /\ stale' = stale \ {w}
  /\ UNCHANGED <<wakeup, locked, retries, now, client, sweepVars, verdict,
                 faults, starts, uncounted>>

\* The worker slot starts over: task_worker_iteration ended, JoinSet respawns.
Respawn(w) ==
  /\ Leave(w, "acquire")
  /\ cur' = [cur EXCEPT ![w] = NoTask]
  /\ batch' = [batch EXCEPT ![w] = {}]
  /\ stale' = stale \ {w}

\* pool.get() of finish_task gives up after bb8's connection_timeout.
PoolTimeout(w) ==
  /\ pc[w] \in {"settle", "finish"}
  /\ ~PoolFree
  /\ Respawn(w)
  /\ UNCHANGED <<redisVars, now, client, clock, offset, fullPage, verdict,
                 faults, starts, uncounted, recorded>>

\* The process dies, or a Redis command fails.
Abort(w) ==
  /\ pc[w] # "acquire"
  /\ faults < MaxFaults
  /\ faults' = faults + 1
  /\ Respawn(w)
  /\ UNCHANGED <<redisVars, now, client, clock, offset, fullPage, verdict,
                 starts, uncounted, recorded>>

-----------------------------------------------------------------------------
(* Redis expires keys, time passes. *)

\* Mutant: the lock is set without PX.
ExpireLockNever(t) == FALSE /\ UNCHANGED vars

ExpireLock(t) ==
  /\ t \in locked
  /\ locked' = locked \ {t}
  /\ stale' = stale \cup {w \in Workers : cur[w] = t /\ pc[w] \in Claimed}
  /\ UNCHANGED <<payloads, queue, wakeup, complete, retries, now, client, pc, cur,
                 sweepVars, verdict, faults, starts, uncounted, recorded>>

ExpireResult(t) ==
  /\ complete[t] # "none"
  /\ complete' = [complete EXCEPT ![t] = "none"]
  /\ UNCHANGED <<payloads, queue, wakeup, locked, retries, now, client, pc, cur,
                 sweepVars, verdict, histVars>>

Tick ==
  /\ now < MaxNow
  /\ now' = now + 1
  /\ UNCHANGED <<redisVars, client, pc, cur, sweepVars, verdict, histVars>>

Sweep(w) == AcquireConn(w) \/ ReadPage(w) \/ CheckPage(w) \/ FetchPayload(w)
            \/ EndPage(w) \/ BlockingPop(w) \/ ClaimTask(w) \/ CountAttempt(w)
Work(w) == RunTask(w) \/ FinishTask(w) \/ PoolTimeout(w)

Next ==
  \/ \E t \in Tasks : AddPayload(t) \/ AddToQueue(t) \/ AddFails(t)
                      \/ ExpireLock(t) \/ ExpireResult(t)
  \/ \E w \in Workers : Sweep(w) \/ Work(w) \/ CountFails(w) \/ Abort(w)
  \/ Tick

Spec == Init /\ [][Next]_vars

\* Tokio polls every worker, Redis expires keys, a task's function returns.
FairSpec ==
  /\ Spec
  /\ \A w \in Workers : WF_vars(Sweep(w)) /\ WF_vars(Work(w))
  /\ \A t \in Tasks : WF_vars(ExpireLock(t))
  /\ \A t \in Tasks : WF_vars(AddToQueue(t) \/ AddFails(t))
  /\ WF_vars(Tick)

-----------------------------------------------------------------------------
(* Properties. *)

\* A queued task always has its payload: add_task stores it first and
\* finish_task removes both in one MULTI, so no worker skips a queued task
\* because HGET found nothing (the silent `continue' of next_task).
QueuedHasPayload == queue \subseteq payloads

\* At-least-once: a task whose add_task returned stays queued, with its payload,
\* until a result was recorded for it, whatever crashed, expired or ran twice in
\* between.
NoTaskLost ==
  /\ QueuedHasPayload
  /\ \A t \in Tasks : client[t] = "added" => t \in queue \cup recorded

\* The lock excludes: two workers hold the same task only when the lock of at
\* least one of them expired while it held it (the timeout_ms was too short).
OverlapOnlyAfterExpiry ==
  \A v, w \in Workers :
    /\ v # w
    /\ cur[v] = cur[w]
    /\ pc[v] \in Claimed
    /\ pc[w] \in Claimed
    => v \in stale \/ w \in stale

\* A task is handed to its function at most MaxRetries times, plus once for
\* every INCR whose failure unwrap_or(0) hid: no crash loop is endless.
StartsBounded ==
  \A t \in Tasks : starts[t] <= MaxRetries + uncounted[t]

\* Every task that is queued leaves the queue (with NoTaskLost: it gets a
\* result).  It holds while a connection is left for finish_task; the docs
\* promise it whatever the size of the pool is.
EveryTaskSettles == \A t \in Tasks : t \in queue ~> t \notin queue

\* The queue implements the at-least-once promise: no interleaving of slow,
\* crashed and overlapping workers loses, revives or re-answers a task.
Promise == INSTANCE AtLeastOnce WITH
  NoResult <- "none",
  state <- [t \in Tasks |-> IF t \in recorded THEN "settled"
                            ELSE IF t \in queue THEN "queued" ELSE "new"],
  result <- complete
ImplementsAtLeastOnce == Promise!Spec
=============================================================================
