---------------------------- MODULE PgConnection ----------------------------
(***************************************************************************)
(* Postgres connections (src/src/python/postgres.rs).  A Connection is a   *)
(* slot for the sender of a background task.  The task is spawned by the   *)
(* first statement, takes a session of the pool and keeps it until Close   *)
(* or until no sender is left; it opens transactions itself and tracks     *)
(* them in a flag.  Every Python call runs as a spawned task of its own:   *)
(* it reads the slot, sends its operation and waits for the answer.        *)
(* The server and the pool are external: a session is a transaction state  *)
(* and the writes the transaction holds, and a pool hands a session out as *)
(* it came back.                                                           *)
(***************************************************************************)
EXTENDS Naturals, Sequences, FiniteSets

CONSTANTS
  Conns,      \* Connection objects
  Shared,     \* those several threads use at once (threadsafety = 3)
  Savers,     \* those made by save_memory_via_context
  Sessions,   \* the pool
  Ops,        \* the operations the program uses
  Buffer,     \* capacity of a task's channel (32 in the code)
  MaxCalls,   \* bound: calls
  MaxFaults   \* bound: broken sessions and failed pool.get

Statements == {"write", "many"}
AllOps == Statements \cup {"commit", "rollback", "auto", "manual", "close", "release"}

ASSUME PgAssumption ==
  /\ Shared \subseteq Conns /\ Savers \subseteq Conns
  /\ Ops \subseteq AllOps
  /\ Buffer \in Nat \ {0} /\ MaxCalls \in Nat /\ MaxFaults \in Nat

Calls == 1..MaxCalls
Rows(op) == IF op = "many" THEN {1, 2} ELSE {1}
NoTask == 0
\* A task is named by the call that spawned it.
Tasks == Calls

VARIABLES
  slot,      \* Connection.sender: a task or NoTask
  closed,    \* Connection.closed
  dropped,   \* connections the program no longer refers to
  call,      \* what became of each call
  task,      \* the background tasks
  queue,     \* the operations sent to each
  free,      \* the sessions in the pool
  txn, held, \* of each session: its transaction and the writes it holds
  stored,    \* committed writes
  \* History.
  promised,  \* writes the program was told are committed
  undone,    \* writes it was told, or may assume, are rolled back
  abandoned, \* writes held by a session that came back inside a transaction
  foreign,   \* writes committed on behalf of another connection
  leaky,     \* connections whose task left a clean session inside a transaction
  faults

program == <<slot, closed, dropped>>
server == <<free, txn, held, stored>>
history == <<promised, undone, abandoned, foreign, leaky>>
vars == <<program, call, task, queue, server, history, faults>>

NoCall == [stage |-> "none"]
NotSpawned == [st |-> "none"]

Init ==
  /\ slot = [c \in Conns |-> NoTask]
  /\ closed = {} /\ dropped = {}
  /\ call = [k \in Calls |-> NoCall]
  /\ task = [t \in Tasks |-> NotSpawned]
  /\ queue = [t \in Tasks |-> << >>]
  /\ free = Sessions
  /\ txn = [s \in Sessions |-> "idle"]
  /\ held = [s \in Sessions |-> {}]
  /\ stored = {}
  /\ promised = {} /\ undone = {} /\ abandoned = {} /\ foreign = {} /\ leaky = {}
  /\ faults = 0

-----------------------------------------------------------------------------
(* Calls of the program. *)

Running(k) == call[k].stage \in {"ready", "holding", "queued", "clearing"}
CallsOf(c) == {k \in Calls : call[k].stage # "none" /\ call[k].conn = c}
\* close() returns at once: only the other calls are waited for.
Waiting(c) == \E k \in CallsOf(c) : Running(k) /\ call[k].op # "close"

Move(k, stage) == call' = [call EXCEPT ![k].stage = stage]

\* The connection of a saver is made for one statement and dropped after it.
SavesOnce(c, op) == op = "write" /\ CallsOf(c) = {}

\* A thread waits for its call, and statements on a closed connection raise.
MayCall(c, op) ==
  /\ c \notin dropped
  /\ c \in Shared \/ ~Waiting(c)
  /\ c \in Savers => SavesOnce(c, op)
  /\ op \in Statements \cup {"commit"} => c \notin closed

Start(k, c, op) ==
  /\ call[k] = NoCall
  /\ \A j \in 1..(k - 1) : call[j] # NoCall
  /\ MayCall(c, op)
  /\ call' = [call EXCEPT ![k] = [stage |-> "ready", conn |-> c, op |-> op, via |-> NoTask]]
  /\ closed' = IF op = "close" THEN closed \cup {c} ELSE closed
  /\ UNCHANGED <<slot, dropped, task, queue, server, history, faults>>

\* ensure_sender: the first statement, or the first after close, spawns a task.
EnsureSender(k) ==
  LET c == call[k].conn IN
  /\ call[k].stage = "ready"
  /\ call[k].op \in Statements \cup {"auto", "manual"}
  /\ IF slot[c] = NoTask
     THEN /\ slot' = [slot EXCEPT ![c] = k]
          /\ task' = [task EXCEPT ![k] = [st |-> "acquiring"]]
     ELSE UNCHANGED <<slot, task>>
  /\ call' = [call EXCEPT ![k].stage = "holding", ![k].via = slot'[c]]
  /\ UNCHANGED <<closed, dropped, queue, server, history, faults>>

\* The other calls take the sender they find, and succeed when there is none.
ReadSlot(k) ==
  LET c == call[k].conn IN
  /\ call[k].stage = "ready"
  /\ call[k].op \in {"commit", "rollback", "close", "release"}
  /\ slot' = IF call[k].op = "close" THEN [slot EXCEPT ![c] = NoTask] ELSE slot
  /\ call' = [call EXCEPT ![k].stage = IF slot[c] = NoTask THEN "ok" ELSE "holding",
                          ![k].via = slot[c]]
  /\ UNCHANGED <<closed, dropped, task, queue, server, history, faults>>

AfterSend(op) == CASE op = "close" -> "ok" [] op = "release" -> "clearing" [] OTHER -> "queued"

Send(k) ==
  LET t == call[k].via IN
  /\ call[k].stage = "holding"
  /\ task[t].st # "ended"
  /\ Len(queue[t]) < Buffer
  /\ queue' = [queue EXCEPT ![t] = Append(@, k)]
  /\ Move(k, AfterSend(call[k].op))
  /\ UNCHANGED <<program, task, server, history, faults>>

\* The task is gone: the reply channel is dropped with the operation.
SendFails(k) ==
  LET after == AfterSend(call[k].op) IN
  /\ call[k].stage = "holding"
  /\ task[call[k].via].st = "ended"
  /\ Move(k, IF after = "queued" THEN "err" ELSE after)
  /\ UNCHANGED <<program, task, queue, server, history, faults>>

\* close_conn empties the slot only now, under a second lock.
ClearSlot(k) ==
  /\ call[k].stage = "clearing"
  /\ slot' = [slot EXCEPT ![call[k].conn] = NoTask]
  /\ Move(k, "ok")
  /\ UNCHANGED <<closed, dropped, task, queue, server, history, faults>>

\* The program forgets a connection, closed or not.
DropConn(c) ==
  /\ c \notin dropped
  /\ CallsOf(c) # {} /\ ~Waiting(c)
  /\ dropped' = dropped \cup {c}
  /\ UNCHANGED <<slot, closed, call, task, queue, server, history, faults>>

-----------------------------------------------------------------------------
(* The background task. *)

\* bb8 replaces a session whose connection is lost, and resets nothing else.
GiveBack(s, left) ==
  /\ free' = free \cup {s}
  /\ txn' = [txn EXCEPT ![s] = IF left = "broken" THEN "idle" ELSE left]

\* The receiver is dropped: whatever is queued is cancelled.
EndTask(t) ==
  /\ task' = [task EXCEPT ![t] = [st |-> "ended"]]
  /\ queue' = [queue EXCEPT ![t] = << >>]
  /\ call' = [k \in Calls |-> IF call[k].stage = "queued" /\ call[k].via = t
                              THEN [call[k] EXCEPT !.stage = "err"] ELSE call[k]]

\* Mutant: the pool hands out a session that is in use.
AcquireShared(t) ==
  /\ task[t].st = "acquiring"
  /\ \E s \in free :
       task' = [task EXCEPT ![t] = [st |-> "serving", session |-> s, auto |-> FALSE,
                                    inTxn |-> FALSE, ours |-> {},
                                    clean |-> txn[s] = "idle"]]
  /\ UNCHANGED <<program, call, queue, server, history, faults>>

Acquire(t) ==
  /\ task[t].st = "acquiring"
  /\ \E s \in free :
       /\ free' = free \ {s}
       /\ task' = [task EXCEPT ![t] = [st |-> "serving", session |-> s, auto |-> FALSE,
                                       inTxn |-> FALSE, ours |-> {},
                                       clean |-> txn[s] = "idle"]]
  /\ UNCHANGED <<program, call, queue, txn, held, stored, history, faults>>

\* Mutant: pool.get waits for a session without limit.
AcquireWaits(t) ==
  /\ task[t].st = "acquiring"
  /\ faults < MaxFaults
  /\ faults' = faults + 1
  /\ task' = [task EXCEPT ![t] = [st |-> "failed"]]
  /\ UNCHANGED <<program, call, queue, server, history>>

\* pool.get fails: no session for too long, or the server is away.
AcquireFails(t) ==
  /\ task[t].st = "acquiring"
  /\ free = {} \/ faults < MaxFaults
  /\ faults' = IF free = {} THEN faults ELSE faults + 1
  /\ task' = [task EXCEPT ![t] = [st |-> "failed"]]
  /\ UNCHANGED <<program, call, queue, server, history>>

\* The operation at the head of the queue of a task that has a session.
Serves(t, op, k) ==
  /\ task[t].st = "serving" /\ queue[t] # << >>
  /\ k = Head(queue[t]) /\ call[k].op = op

Answer(t, k, ok) ==
  /\ queue' = [queue EXCEPT ![t] = Tail(@)]
  /\ Move(k, IF ok THEN "ok" ELSE "err")

Later(ws, w, t) == w \cup (IF task[t].clean THEN ws ELSE {})

\* Mutant: BEGIN also in autocommit mode.
NeedsBeginAlways(t) == ~task[t].inTxn

\* The state a statement runs in, after the BEGIN it may need; a refused
\* BEGIN ends the statement.
NeedsBegin(t) == ~task[t].auto /\ ~task[t].inTxn
AfterBegin(t) ==
  LET now == txn[task[t].session] IN IF NeedsBegin(t) /\ now = "idle" THEN "open" ELSE now
BeginFails(t) == NeedsBegin(t) /\ txn[task[t].session] \in {"aborted", "broken"}

\* do_query, do_execute_rust(_native) with one row, do_execute_many with two,
\* sent at once, so without a transaction any of them may be refused. A row whose
\* parameters cannot be encoded ends the call before it and those behind it are
\* sent, and the server does not hear of it.
Execute(t, k, op) ==
  LET s == task[t].session
      now == AfterBegin(t)
      inTxn == task[t].inTxn \/ (NeedsBegin(t) /\ ~BeginFails(t))
  IN
  /\ Serves(t, op, k)
  /\ \E unsent \in {{r \in Rows(op) : r >= n} : n \in 1..3} :
     \E refused \in SUBSET (Rows(op) \ unsent) :
       LET done == {k} \X (Rows(op) \ (unsent \cup refused))
           ok == unsent \cup refused = {} /\ now \in {"idle", "open"}
           kept == refused = {} /\ now \in {"idle", "open"}
       IN
       /\ Answer(t, k, ok)
       /\ txn' = [txn EXCEPT ![s] = IF now = "open" /\ ~kept THEN "aborted" ELSE now]
       /\ held' = [held EXCEPT ![s] = IF now # "open" THEN @
                                      ELSE IF kept THEN @ \cup done ELSE {}]
       /\ stored' = IF now = "idle" THEN stored \cup done ELSE stored
       /\ promised' = IF ok /\ task[t].auto THEN Later(done, promised, t) ELSE promised
       /\ task' = [task EXCEPT
            ![t].inTxn = inTxn,
            ![t].ours = IF kept /\ inTxn THEN @ \cup done ELSE IF inTxn THEN {} ELSE @]
  /\ UNCHANGED <<program, free, undone, abandoned, foreign, leaky, faults>>

\* What COMMIT may do: a deferred constraint can fail it, and the COMMIT of an
\* aborted transaction succeeds and keeps nothing.
CommitResults(s) ==
  CASE txn[s] = "open"   -> {[ok |-> TRUE, keeps |-> TRUE], [ok |-> FALSE, keeps |-> FALSE]}
    [] txn[s] = "broken" -> {[ok |-> FALSE, keeps |-> FALSE]}
    [] OTHER             -> {[ok |-> TRUE, keeps |-> FALSE]}

\* The session after a COMMIT or a ROLLBACK.
Settle(s) ==
  /\ txn' = [txn EXCEPT ![s] = IF @ = "broken" THEN @ ELSE "idle"]
  /\ held' = [held EXCEPT ![s] = {}]

SendCommit(t, r) ==
  LET s == task[t].session IN
  /\ Settle(s)
  /\ stored' = IF r.keeps THEN stored \cup held[s] ELSE stored
  /\ foreign' = IF r.keeps
                THEN foreign \cup {w \in held[s] : call[w[1]].conn # call[t].conn}
                ELSE foreign
  /\ promised' = IF r.ok THEN Later(task[t].ours, promised, t) ELSE promised

\* Mutant: a failed COMMIT leaves in_transaction set.
CommitKeepsFlag(t, k) ==
  /\ Serves(t, "commit", k)
  /\ IF task[t].inTxn
     THEN \E r \in CommitResults(task[t].session) :
            /\ SendCommit(t, r) /\ Answer(t, k, r.ok)
            /\ task' = [task EXCEPT ![t].inTxn = ~r.ok, ![t].ours = {}]
     ELSE /\ Answer(t, k, TRUE)
          /\ promised' = Later(task[t].ours, promised, t)
          /\ task' = [task EXCEPT ![t].ours = {}]
          /\ UNCHANGED <<txn, held, stored, foreign>>
  /\ UNCHANGED <<program, free, undone, abandoned, leaky, faults>>

Commit(t, k) ==
  /\ Serves(t, "commit", k)
  /\ IF task[t].inTxn
     THEN \E r \in CommitResults(task[t].session) : SendCommit(t, r) /\ Answer(t, k, r.ok)
     ELSE /\ Answer(t, k, TRUE)
          /\ promised' = Later(task[t].ours, promised, t)
          /\ UNCHANGED <<txn, held, stored, foreign>>
  /\ task' = [task EXCEPT ![t].inTxn = FALSE, ![t].ours = {}]
  /\ UNCHANGED <<program, free, undone, abandoned, leaky, faults>>

Rollback(t, k) ==
  LET s == task[t].session IN
  /\ Serves(t, "rollback", k)
  /\ IF task[t].inTxn
     THEN Settle(s) /\ Answer(t, k, txn[s] # "broken")
     ELSE Answer(t, k, TRUE) /\ UNCHANGED <<txn, held>>
  /\ undone' = undone \cup task[t].ours
  /\ task' = [task EXCEPT ![t].inTxn = FALSE, ![t].ours = {}]
  /\ UNCHANGED <<program, free, stored, promised, abandoned, foreign, leaky, faults>>

\* Switching autocommit on commits the open transaction and ignores the result.
SetAutoCommit(t, k, value) ==
  /\ Serves(t, IF value THEN "auto" ELSE "manual", k)
  /\ IF value /\ task[t].inTxn
     THEN /\ \E r \in CommitResults(task[t].session) : SendCommit(t, r)
          /\ task' = [task EXCEPT ![t].inTxn = FALSE, ![t].ours = {}, ![t].auto = TRUE]
     ELSE /\ task' = [task EXCEPT ![t].auto = value]
          /\ UNCHANGED <<txn, held, stored, foreign, promised>>
  /\ Answer(t, k, TRUE)
  /\ UNCHANGED <<program, free, undone, abandoned, leaky, faults>>

\* The session after Close: only a flagged transaction is rolled back.
Leaves(t) ==
  LET now == txn[task[t].session] IN
  IF task[t].inTxn /\ now # "broken" THEN "idle" ELSE now

Close(t) ==
  LET s == task[t].session IN
  /\ task[t].st = "serving" /\ queue[t] # << >>
  /\ call[Head(queue[t])].op \in {"close", "release"}
  /\ GiveBack(s, Leaves(t))
  /\ held' = [held EXCEPT ![s] = IF Leaves(t) = "open" THEN @ ELSE {}]
  /\ EndTask(t)
  /\ undone' = undone \cup task[t].ours
  /\ abandoned' = IF task[t].clean THEN abandoned ELSE abandoned \cup held'[s]
  /\ UNCHANGED <<program, stored, promised, foreign, leaky, faults>>

\* drain_on_error: every operation is refused, until Close.
Drain(t) ==
  /\ task[t].st = "failed" /\ queue[t] # << >>
  /\ IF call[Head(queue[t])].op \in {"close", "release"}
     THEN EndTask(t)
     ELSE Answer(t, Head(queue[t]), FALSE) /\ UNCHANGED task
  /\ UNCHANGED <<program, server, history, faults>>

\* A sender is alive in the slot of a connection in use, or in a running call.
HasSender(t) ==
  LET c == call[t].conn
      inUse == c \notin dropped \/ \E k \in CallsOf(c) : Running(k)
  IN (slot[c] = t /\ inUse) \/ \E k \in CallsOf(c) : Running(k) /\ call[k].via = t

\* The last sender is gone: the task ends, and rolls nothing back.
SendersGone(t) ==
  /\ task[t].st \in {"serving", "failed"}
  /\ queue[t] = << >> /\ ~HasSender(t)
  /\ EndTask(t)
  /\ IF task[t].st = "serving"
     THEN LET s == task[t].session IN
          /\ GiveBack(s, txn[s])
          /\ abandoned' = abandoned \cup held[s]
          /\ leaky' = IF task[t].clean /\ txn[s] \in {"open", "aborted"}
                      THEN leaky \cup {call[t].conn} ELSE leaky
     ELSE UNCHANGED <<free, txn, abandoned, leaky>>
  /\ UNCHANGED <<program, held, stored, promised, undone, foreign, faults>>

\* The server ends a session in use: its transaction is lost.
BreakSession(s) ==
  /\ faults < MaxFaults
  /\ faults' = faults + 1
  /\ s \notin free /\ txn[s] # "broken"
  /\ txn' = [txn EXCEPT ![s] = "broken"]
  /\ held' = [held EXCEPT ![s] = {}]
  /\ UNCHANGED <<program, call, task, queue, free, stored, history>>

-----------------------------------------------------------------------------
CallStep(k) ==
  \/ EnsureSender(k) \/ ReadSlot(k) \/ Send(k) \/ SendFails(k) \/ ClearSlot(k)

TaskStep(t) ==
  \/ \E k \in Calls, op \in Statements : Execute(t, k, op)
  \/ \E k \in Calls : Commit(t, k) \/ Rollback(t, k)
  \/ \E k \in Calls, value \in BOOLEAN : SetAutoCommit(t, k, value)
  \/ Close(t) \/ Drain(t) \/ SendersGone(t)

Next ==
  \/ \E k \in Calls, c \in Conns, op \in Ops : Start(k, c, op)
  \/ \E c \in Conns : DropConn(c)
  \/ \E k \in Calls : CallStep(k)
  \/ \E t \in Tasks : Acquire(t) \/ AcquireFails(t) \/ TaskStep(t)
  \/ \E s \in Sessions : BreakSession(s)

\* Spawned tasks run, and pool.get gives up after a time (30 s in bb8).
Fairness ==
  /\ \A k \in Calls : WF_vars(CallStep(k))
  /\ \A t \in Tasks : WF_vars(Acquire(t) \/ AcquireFails(t)) /\ WF_vars(TaskStep(t))

Spec == Init /\ [][Next]_vars
FairSpec == Spec /\ Fairness

-----------------------------------------------------------------------------
Serving == {t \in Tasks : task[t].st = "serving"}

\* A session belongs to the pool or to one task; and unless the session came
\* dirty out of the pool, the task's in_transaction flag is the transaction
\* state of the session, however statements, commits and switches failed.
FlagMatchesServer ==
  /\ \A t \in Serving :
       /\ task[t].session \notin free
       /\ \A u \in Serving : task[u].session = task[t].session => u = t
       /\ task[t].clean /\ txn[task[t].session] # "broken" =>
            (task[t].inTxn <=> txn[task[t].session] # "idle")

\* What an answered commit, or a write answered in autocommit, promised is in
\* the database, on every session that came clean out of the pool; and a write
\* that an answered rollback, or Close, took back never reaches it, whoever
\* uses the session next.
AnswersHold == promised \subseteq stored /\ undone \cap stored = {}

\* A commit stores the writes of another connection only when that connection
\* was dropped without Close, or worked on a session left so by another; and a
\* closed connection never leaves a transaction in the pool, unless several
\* threads share it.
TransactionsStayApart == foreign \subseteq abandoned /\ leaky \cap closed \subseteq Shared

\* A memory whose save succeeded is in the database when its connection is done.
SavedMemoryIsStored ==
  \A k \in Calls : call[k].stage = "ok" /\ call[k].op = "write" /\ call[k].conn \in Savers
                   /\ task[call[k].via].st = "ended" => <<k, 1>> \in stored

\* Every call is answered, whatever is closed, dropped, refused or broken: calls
\* are finite in number and end once, so in the end none is under way.
EveryCallAnswered == <>[](\A k \in Calls : ~Running(k))
=============================================================================
